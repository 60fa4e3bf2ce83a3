------------------------------- MODULE MCCpu -------------------------------
(***************************************************************************)
(* Small instances of the CPU for TLC.  Words have 8 bits (a byte lane is  *)
(* 2 bits, an immediate 4 bits), so addresses run over 64 instruction      *)
(* words: the program starts at 0 and the exception vector is 64.  A run   *)
(* fixes a prefix that loads registers, a handler, and an alphabet of       *)
(* instructions; TLC tries every body over the alphabet.                    *)
(***************************************************************************)
EXTENDS MycpuTb

CONSTANTS BodyLength,   \* instructions in a body
          Suites        \* the suites of bodies a run tries

MCWidth == 8
Units == INSTANCE Alu WITH Width <- MCWidth, ShiftBits <- 3, Words <- Mod
MCAluResult(n, a, b) == Units!alu_result(n, a, b)
MCAluOverflow(n, a, b) == Units!alu_overflow(n, a, b)
MCMulDiv(n, a, b) == Units!multiply(n, a, b)
MCSignExt(v) == Units!signedext(v)
MCZeroExt(v) == Units!unsignedext(v)
MCLoadExt(n, l, w) == Units!dm_data_read(n, l, w)
MCStoreLanes(n, l, w, v) == Units!dm_write(n, l, w, v)

\* Status and Cause scaled to a byte: IM above EXL; BD on top, the two
\* software interrupt bits below it, then the exception code.
MCImOf(v) == v \div 4
MCIpOf(v) == (v \div 32) % 4
MCStatusWord(im, exl) == im * 4 + (IF exl THEN 2 ELSE 0)
MCCauseWord(bd, code, ip) == (IF bd THEN 128 ELSE 0) + ip * 32 + code

\* Assembler.  R: register-register, I: immediate, B: branch over n words.
R(op, rd, rs, rt) == [op |-> op, rs |-> rs, rt |-> rt, rd |-> rd, imm |-> 0]
I(op, rt, rs, imm) == [op |-> op, rs |-> rs, rt |-> rt, rd |-> 0,
                       imm |-> imm]
B(op, rs, rt, n) == I(op, rt, rs, n)
JumpTo(op, a) == [op |-> op, rs |-> 31, rt |-> 16, rd |-> 0, imm |-> a]
JumpR(op, rs) == R(op, IF op = "JALR" THEN 31 ELSE 0, rs, 0)
Mfc0(rt, c) == [op |-> "MFC0", rs |-> 0, rt |-> rt, rd |-> c, imm |-> 0]
Mtc0(rt, c) == [op |-> "MTC0", rs |-> 4, rt |-> rt, rd |-> c, imm |-> 0]
Eret == [op |-> "ERET", rs |-> 16, rt |-> 0, rd |-> 0, imm |-> 0]
Sys == R("SYSCALL", 0, 0, 0)
Brk == R("BREAK", 0, 0, 0)
Reserved == [op |-> "RI", rs |-> 0, rt |-> 0, rd |-> 0, imm |-> 1]

-----------------------------------------------------------------------------
\* Load prefix \o body at 0, end it with a jump to itself, and put the
\* handler at the exception vector.
Image(code, handler) ==
  LET end == 4 * Len(code)
      main == code \o <<JumpTo("J", end), Nop>>
  IN  [a \in {4 * (k - 1) : k \in 1 .. Len(main)}
             \cup {ExcVector + 4 * (k - 1) : k \in 1 .. Len(handler)} |->
         IF a < ExcVector THEN main[a \div 4 + 1]
         ELSE handler[(a - ExcVector) \div 4 + 1]]

\* Work behind every body: a branch of the body that goes the wrong way
\* misses or repeats one of these.
Landing == <<I("ADDIU", 16, 16, 1), I("ADDIU", 16, 16, 2)>>

\* A handler that shows EPC and Cause on the debug port and stops, and one
\* that skips the faulting instruction, spaced like ex_finish of start.S.
HaltHandler == <<Mfc0(1, 14), Mfc0(2, 13), JumpTo("J", ExcVector + 8), Nop>>
SkipHandler == <<Mfc0(3, 14), I("ADDIU", 3, 3, 4), Mtc0(3, 14), Nop, Nop,
                 Eret, Nop>>

\* The instructions of the golden run, in order.
Executed(prog) ==
  LET run[k \in 0 .. GoldenSteps] ==
        IF k = 0 THEN [state |-> Ref!ArchInit, ops |-> <<>>]
        ELSE LET g == run[k - 1]
             IN  IF IsHalt(prog, g.state.pc) THEN g
                 ELSE [state |-> Ref!Exec(prog, g.state),
                       ops |-> IF g.state.pc \in DOMAIN prog
                               THEN Append(g.ops, prog[g.state.pc])
                               ELSE g.ops]
  IN  run[GoldenSteps].ops

\* Loads, stores, ALU results and branches on two registers.
HazardPrefix == <<I("ADDIU", 1, 0, 4), I("ADDIU", 2, 0, 7)>>
HazardOps == <<R("ADDU", 1, 1, 2), R("SUBU", 2, 1, 2), I("ADDIU", 1, 2, 1),
               I("LW", 1, 0, 4), I("LB", 2, 1, 1), I("SW", 1, 0, 4),
               I("SB", 2, 0, 5), B("BEQ", 1, 2, 2), B("BNE", 1, 2, 2),
               R("SLL", 2, 0, 1)>>

\* HI and LO written and read back at every distance.
HiloOps == <<R("MULT", 0, 1, 2), R("DIV", 0, 2, 1), R("MTHI", 0, 1, 0),
             R("MTLO", 0, 2, 0), R("MFHI", 1, 0, 0), R("MFLO", 2, 0, 0),
             R("ADDU", 1, 1, 2), B("BEQ", 1, 2, 2), B("BGTZ", 2, 0, 2)>>

\* One of each exception, ordinary work around it, and branches that put it
\* in a delay slot.  Register 2 is 112, so 2+2 overflows.
TrapPrefix == <<I("ADDIU", 1, 0, 6), I("LUI", 2, 0, 7)>>
Faults == <<R("ADD", 1, 2, 2), I("LW", 1, 0, 6), I("SW", 2, 0, 6), Sys, Brk,
            Reserved, JumpR("JR", 1)>>
Faulting == Range(Faults)
TrapOps == <<R("ADD", 1, 2, 0), I("LH", 1, 0, 2), I("SW", 1, 0, 4),
             R("MTHI", 0, 2, 0), B("BEQ", 0, 0, 2)>> \o Faults

\* Three things the CPU does differently have runs of their own, and these
\* bodies keep clear of them: decode.v raises a syscall or break even in a
\* flushed slot; a store is dropped when a misaligned jump is decoded two
\* slots later; BD is also set for a younger fault in a delay slot.
NoShadow(b) ==
  \A j, k \in DOMAIN b :
    k < j => /\ b[j].op \in Trap => b[k] \notin Faulting
             /\ b[j].op = "JR" => b[k].op \notin Store
             /\ /\ b[k] \in Faulting /\ b[j] \in Faulting
                /\ b[k].op \in Load \cup Store
                => b[j - 1].op \notin Branch

\* A branch in the delay slot of another is unpredictable in MIPS.
NoNested(b) ==
  LET Jumps(k) == b[k].op \in Branch \cup Jump
  IN  /\ ~Jumps(Len(b))
      /\ \A k \in 1 .. Len(b) - 1 : ~(Jumps(k) /\ Jumps(k + 1))

\* Return addresses read by what follows a link.
LinkPrefix == <<I("ADDIU", 1, 0, 7), R("SLL", 1, 0, 1)>>
LinkOps == <<JumpTo("JAL", 20), JumpTo("JAL", 16), JumpR("JALR", 31),
             JumpR("JR", 31), B("BGEZAL", 0, 17, 2), B("BLTZAL", 1, 16, 2),
             R("ADDU", 1, 31, 1), I("SW", 31, 0, 4), Nop>>

\* A link value is not forwarded from EX or MEM: nothing may look at register
\* 31 in the two instructions after it, and neither may the jump at the end.
LinkSettled(prog) ==
  LET ops == Append(Executed(prog), JumpTo("J", 0))
  IN  \A k, j \in 1 .. Len(ops) :
        k < j /\ j <= k + 2 /\ ops[k].op \in Link
          => 31 \notin {ops[j].rs, ops[j].rt}

\* CP0 registers written and read at every distance.
Cp0Ops == <<Mtc0(1, 14), Mtc0(1, 12), Mtc0(2, 9), Mtc0(1, 13), Mfc0(2, 14),
            Mfc0(2, 12), Mfc0(1, 9), Mfc0(2, 13), B("BEQ", 1, 2, 2),
            R("ADDU", 1, 2, 0)>>

\* An mfc0 behind an mtc0 hands its branch the word written, whichever CP0
\* register either names: right only for the same register, and a register
\* that keeps the whole word.
Cp0Settled(prog) ==
  LET ops == Executed(prog)
  IN  \A k \in 1 .. Len(ops) - 2 :
        ops[k].op = "MTC0" /\ ops[k + 1].op = "MFC0"
          => \/ ops[k + 2].op \notin Branch
             \/ ops[k].rd = ops[k + 1].rd /\ ops[k].rd \in {9, 14}

\* Software interrupts, and the branches, loads and traps around them.
\* Register 4 is 32, the lower IP bit, and both the rs field and the source
\* of the mtc0, so that the test of decode_ctrl.v sees the word written.
SoftPrefix == <<I("ADDIU", 4, 0, 2), [R("SLL", 4, 0, 4) EXCEPT !.imm = 4]>>
SoftOps == <<Mtc0(4, 13), Mtc0(4, 12), Mfc0(1, 13), R("ADDU", 4, 4, 4),
             R("SUBU", 4, 4, 1), I("LW", 4, 0, 4), I("SW", 4, 0, 4),
             B("BNE", 4, 0, 2), R("MTHI", 0, 4, 0)>>
ReturnHandler == <<Mfc0(3, 14), Mfc0(2, 13), Nop, Eret, Nop>>

\* The interrupt is taken before the branch is: EPC of an mtc0 in a delay
\* slot is that of the mtc0.  Nor is a branch in a delay slot of interest.
NotInSlot(b) == \A k \in 1 .. Len(b) - 1 :
  b[k].op \in Branch => b[k + 1].op \notin Branch \cup {"MTC0"}

\* A suite: what goes before and after the bodies, their alphabet and length,
\* and the handler.  A body that comes back from its handler is shorter.
Halting(prefix, ops, after) ==
  [prefix |-> prefix, ops |-> ops, length |-> BodyLength, after |-> after,
   handler |-> HaltHandler]
Suite ==
  [hazards |-> Halting(HazardPrefix, HazardOps, Landing),
   hilo    |-> Halting(HazardPrefix, HiloOps, Landing),
   links   |-> Halting(LinkPrefix, LinkOps, <<Nop>> \o Landing),
   traps   |-> Halting(TrapPrefix, TrapOps, Landing),
   cp0     |-> Halting(HazardPrefix, Cp0Ops, Landing),
   return  |-> [Halting(TrapPrefix, Front(TrapOps), Landing) EXCEPT
                  !.length = BodyLength - 1, !.handler = SkipHandler],
   softint |-> [Halting(SoftPrefix, SoftOps, Landing) EXCEPT
                  !.handler = ReturnHandler]]

\* A body is given by the places of its instructions in the alphabet; places
\* past its length are 1.
MaxOps == 12
Places == [1 .. BodyLength -> 1 .. MaxOps]
Fits(s, w) == \A k \in 1 .. BodyLength :
                w[k] <= IF k <= s.length THEN Len(s.ops) ELSE 1
Body(s, w) == [k \in 1 .. s.length |-> s.ops[w[k]]]
Program(s, b) == Image(s.prefix \o b \o s.after, s.handler)

Disciplined(name, s, b) ==
  CASE name \in {"traps", "return"} -> NoShadow(b) /\ NoNested(b)
    [] name = "softint" -> NotInSlot(b)
    [] name = "links"   -> LinkSettled(Program(s, b))
    [] name = "cp0"     -> Cp0Settled(Program(s, b))
    [] OTHER -> TRUE

MCPrograms ==
  LET suite == Suite
      picked == {p \in Suites \X Places :
                   LET s == suite[p[1]]
                   IN  Fits(s, p[2]) /\ Disciplined(p[1], s, Body(s, p[2]))}
  IN  {Program(suite[p[1]], Body(suite[p[1]], p[2])) : p \in picked}
=============================================================================
