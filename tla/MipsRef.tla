------------------------------ MODULE MipsRef ------------------------------
(***************************************************************************)
(* The machine the program under test is compared with: the MIPS           *)
(* instructions executed one at a time, with delay slots and precise       *)
(* exceptions.  It plays the part of the reference CPU whose write trace    *)
(* mycpu_tb.v reads from golden_trace.txt.  What a word computes comes from *)
(* the same constant operators as in Cpu, so the two can only differ in     *)
(* how results are routed, ordered and cancelled.                           *)
(***************************************************************************)
EXTENDS MipsDefs

CONSTANTS Mod, Reg, DataWords, ResetPC, ExcVector,
          AluResult(_, _, _), AluOverflow(_, _, _), MulDivResult(_, _, _),
          SignExt(_), ZeroExt(_), LoadExt(_, _, _), StoreLanes(_, _, _, _),
          ImOf(_), IpOf(_), StatusWord(_, _), CauseWord(_, _, _)

Plus(a, b) == (a + b) % Mod
IsNegative(v) == v >= Mod \div 2

\* Architectural state.  ds: the next instruction is in a delay slot; out:
\* the register write of the last instruction, if any.
NoWrite == [pc |-> 0, wnum |-> 0, wdata |-> 0]
ArchInit ==
  [pc |-> ResetPC, npc |-> Plus(ResetPC, 4), ds |-> FALSE,
   regs |-> [r \in Reg |-> 0], hi |-> 0, lo |-> 0,
   mem |-> [w \in 0 .. DataWords - 1 |-> 0],
   cp0 |-> [badVAddr |-> 0, count |-> 0, im |-> 0, exl |-> FALSE,
            bd |-> FALSE, code |-> 0, ip |-> 0, epc |-> 0],
   out |-> NoWrite]

FetchFrom(prog, a) ==
  IF a \in DOMAIN prog THEN prog[a]
  ELSE [op |-> "NOP", rs |-> 0, rt |-> 0, rd |-> 0, imm |-> 0]

\* Operands of instruction i in state s.
RefRs(s, i) == IF i.op \in ShiftImm THEN i.imm ELSE s.regs[i.rs]
RefRt(s, i) ==
  IF i.op \in ZeroExtended THEN ZeroExt(i.imm)
  ELSE IF i.op \in UsesImm THEN SignExt(i.imm)
  ELSE s.regs[i.rt]
RefAddr(s, i) == AluResult(i.op, RefRs(s, i), RefRt(s, i))
RefWord(s, i) == (RefAddr(s, i) \div 4) % DataWords

RefTaken(s, i) ==
  LET a == s.regs[i.rs]
  IN  CASE i.op = "BEQ" -> a = s.regs[i.rt]
        [] i.op = "BNE" -> a # s.regs[i.rt]
        [] i.op = "BGTZ" -> a # 0 /\ ~IsNegative(a)
        [] i.op = "BLEZ" -> a = 0 \/ IsNegative(a)
        [] i.op \in {"BLTZ", "BLTZAL"} -> IsNegative(a)
        [] i.op \in {"BGEZ", "BGEZAL"} -> ~IsNegative(a)
        [] OTHER -> FALSE

\* The pc after the delay slot of i, whose own address is s.npc.
RefTarget(s, i) ==
  IF i.op \in JumpReg THEN s.regs[i.rs]
  ELSE IF i.op \in Jump THEN i.imm
  ELSE IF RefTaken(s, i) THEN Plus(s.npc, (4 * SignExt(i.imm)) % Mod)
  ELSE Plus(s.npc, 4)

RefCP0(c, rd) ==
  CASE rd = 8  -> c.badVAddr
    [] rd = 9  -> c.count
    [] rd = 12 -> StatusWord(c.im, c.exl)
    [] rd = 13 -> CauseWord(c.bd, c.code, c.ip)
    [] rd = 14 -> c.epc
    [] OTHER   -> 0

RefResult(s, i) ==
  CASE i.op \in Load  -> LoadExt(i.op, RefAddr(s, i) % 4, s.mem[RefWord(s, i)])
    [] i.op = "MFHI"  -> s.hi
    [] i.op = "MFLO"  -> s.lo
    [] i.op = "MFC0"  -> RefCP0(s.cp0, i.rd)
    [] i.op \in Link  -> Plus(s.pc, 8)
    [] OTHER          -> AluResult(i.op, RefRs(s, i), RefRt(s, i))

\* Register 0 always reads as zero.
RefRegs(s, i) ==
  IF i.op \in RegWrite
  THEN [r \in Reg |-> IF r = Dest(i.op, i) /\ r # 0 THEN RefResult(s, i)
                      ELSE s.regs[r]]
  ELSE s.regs

\* HI, LO, the RAM and the write to show behind instruction i.
RefProduct(s, i) == MulDivResult(i.op, s.regs[i.rs], s.regs[i.rt])
RefHi(s, i) == IF i.op = "MTHI" THEN s.regs[i.rs]
               ELSE IF i.op \in MulDiv THEN RefProduct(s, i).hi ELSE s.hi
RefLo(s, i) == IF i.op = "MTLO" THEN s.regs[i.rs]
               ELSE IF i.op \in MulDiv THEN RefProduct(s, i).lo ELSE s.lo
RefMem(s, i) ==
  IF i.op \in Store
  THEN [s.mem EXCEPT ![RefWord(s, i)] =
          StoreLanes(i.op, RefAddr(s, i) % 4, @, s.regs[i.rt])]
  ELSE s.mem
RefOut(s, i) ==
  IF i.op \in RegWrite /\ Dest(i.op, i) # 0
  THEN [pc |-> s.pc, wnum |-> Dest(i.op, i), wdata |-> RefResult(s, i)]
  ELSE NoWrite

\* One instruction that raises nothing.
ExecPlain(s, i) ==
  [pc |-> s.npc, npc |-> RefTarget(s, i), ds |-> i.op \in Branch \cup Jump,
   regs |-> RefRegs(s, i), hi |-> RefHi(s, i), lo |-> RefLo(s, i),
   mem |-> RefMem(s, i), cp0 |-> s.cp0, out |-> RefOut(s, i)]

\* Codes of the exceptions of the manual.
NoCode == 32
RefFault(s, i) ==
  IF s.pc % 4 # 0 THEN 4
  ELSE IF i.op = "RI" THEN 10
  ELSE IF i.op = "BREAK" THEN 9
  ELSE IF i.op = "SYSCALL" THEN 8
  ELSE IF /\ i.op \in AddSub
          /\ AluOverflow(i.op, RefRs(s, i), RefRt(s, i)) THEN 12
  ELSE IF i.op \in Load /\ RefAddr(s, i) % Size(i.op) # 0 THEN 4
  ELSE IF i.op \in Store /\ RefAddr(s, i) % Size(i.op) # 0 THEN 5
  ELSE NoCode

\* Raise: nothing of i happens.  EPC names the branch when i is in its slot.
RefRaise(s, i, code) ==
  LET addr == IF s.pc % 4 # 0 THEN s.pc ELSE RefAddr(s, i)
  IN  [s EXCEPT
        !.pc = ExcVector, !.npc = Plus(ExcVector, 4), !.ds = FALSE,
        !.out = NoWrite,
        !.cp0 = [@ EXCEPT
          !.code = code, !.exl = TRUE,
          !.epc = IF s.cp0.exl THEN @
                  ELSE IF s.ds THEN Plus(s.pc, Mod - 4) ELSE s.pc,
          !.bd = IF s.cp0.exl THEN @ ELSE s.ds,
          !.badVAddr = IF code \in {4, 5} THEN addr ELSE @]]

\* eret has no delay slot; mtc0 writes the fields software may write.
RefEret(s) ==
  [s EXCEPT !.pc = s.cp0.epc, !.npc = Plus(s.cp0.epc, 4), !.ds = FALSE,
            !.out = NoWrite, !.cp0.exl = FALSE, !.cp0.bd = FALSE]
RefMoved(c, rd, v) ==
  CASE rd = 9  -> [c EXCEPT !.count = v]
    [] rd = 12 -> [c EXCEPT !.im = ImOf(v)]
    [] rd = 13 -> [c EXCEPT !.ip = IpOf(v)]
    [] rd = 14 -> [c EXCEPT !.epc = v]
    [] OTHER   -> c
RefMtc0(s, i) ==
  [ExecPlain(s, i) EXCEPT !.cp0 = RefMoved(s.cp0, i.rd, s.regs[i.rt])]

\* Setting a Cause interrupt bit outside an exception interrupts at the next
\* instruction.
RefSoftInt(s, i) == /\ i.op = "MTC0" /\ i.rd = 13 /\ ~s.cp0.exl
                    /\ IpOf(s.regs[i.rt]) # 0

Exec(prog, s) ==
  LET i == FetchFrom(prog, s.pc)
      code == RefFault(s, i)
      after == RefMtc0(s, i)
  IN  IF code # NoCode THEN RefRaise(s, i, code)
      ELSE IF i.op = "ERET" THEN RefEret(s)
      ELSE IF RefSoftInt(s, i) THEN RefRaise(after, i, 0)
      ELSE IF i.op = "MTC0" THEN after
      ELSE ExecPlain(s, i)
=============================================================================
