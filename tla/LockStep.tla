------------------------------ MODULE LockStep ------------------------------
(***************************************************************************)
(* The pipeline and the machine of MipsRef in step: whenever Cpu issues an  *)
(* instruction, the reference executes the next one.  What the reference    *)
(* had in hand before each instruction travels down the pipeline with it,   *)
(* so that what the stages hold and write can be compared at every edge.    *)
(* They part at the first instruction that the code is known to treat        *)
(* differently, and at the first exception.                                *)
(***************************************************************************)
EXTENDS Cpu

Mips == INSTANCE MipsRef

VARIABLES
  before,   \* stage -> the reference before the instruction in that stage
  phase     \* "reset": ID holds no instruction yet; "agreed"; "departed"

lockVars == <<vars, before, phase>>

\* pc.v starts one word short of the reset vector.
Start == [Mips!ArchInit EXCEPT !.pc = Sub(ResetPC, 4), !.npc = ResetPC]
LockInit == /\ before = [id |-> Start, ex |-> Start, mem |-> Start, wb |-> Start]
            /\ phase = "reset"

\* Instruction i raises nothing in state s, on the reference and on the CPU:
\* the CPU watches addresses for overflow, looks at the rs field of every jump
\* for alignment, and takes the rs field of an mtc0 for its source.
Uneventful(s, i) ==
  /\ Mips!RefFault(s, i) = Mips!NoCode /\ i.op # "ERET"
  /\ i.op \in Load \cup Store =>
       ~AluOverflow(i.op, Mips!RefRs(s, i), Mips!RefRt(s, i))
  /\ i.op \in Jump => s.regs[i.rs] % 4 = 0
  /\ i.op = "MTC0" /\ i.rd = 13 =>
       IpOf(s.regs[i.rs]) = 0 /\ IpOf(s.regs[i.rt]) = 0

\* Fields the CPU does not check: register 0 as a destination is forwarded, and
\* so is the rs field of a shift by a constant; CP0 has five registers.
Regular(i) ==
  /\ i.op \in RegWrite => Dest(i.op, i) # 0
  /\ i.op \in ShiftImm => i.rs = 0
  /\ i.op = "MFC0" => i.rd \in {8, 9, 12, 13, 14}

\* Neither of the two instructions ahead leaves i a value that is not forwarded:
\* a link, or what an mtc0 makes of its word, if i looks at it in ID already.
LookedAt(i) == IF i.op \in Branch THEN {i.rs, i.rt}
               ELSE IF i.op \in Jump \/ (i.op = "MTC0" /\ i.rd = 13) THEN {i.rs}
               ELSE {}
InTime(i) ==
  /\ 31 \in {i.rs, i.rt} => EX.name \notin Link /\ MEM.name \notin Link
  /\ EX.instr.rt \in LookedAt(i) /\ EX.name = "MFC0" /\ MEM.name = "MTC0"
       => MEM.instr.rd = EX.instr.rd /\ EX.instr.rd \in {9, 14}

Within(s, i) == Uneventful(s, i) /\ Regular(i) /\ InTime(i)

Issues == phase = "agreed" /\ ~stall_info
Follow ==
  /\ before' = [id  |-> IF Issues THEN Mips!Exec(inst_ram, before.id) ELSE before.id,
                ex  |-> before.id, mem |-> before.ex, wb |-> before.mem]
  /\ phase' = IF phase = "reset" THEN "agreed"
              ELSE IF Issues /\ ~Within(before.id, ID.instr) THEN "departed"
              ELSE phase

LockSpec == Init /\ LockInit /\ [][Next /\ Follow]_lockVars

-----------------------------------------------------------------------------
(* At every edge, whatever is in flight, the registers of the CPU are those *)
(* of a machine that has executed exactly the instructions that have left   *)
(* WB, and its RAM has the stores of those that have left MEM; what the      *)
(* debug port shows is what the next of them writes.                        *)
InStep ==
  phase = "agreed" =>
    /\ registers = before.wb.regs /\ HI = before.wb.hi /\ LO = before.wb.lo
    /\ cp0 = before.wb.cp0 /\ data_ram = before.mem.mem
    /\ IF WB_regWrite
       THEN before.mem.out = [pc |-> Sub(WB.fourPC, 4), wnum |-> WB_writeDataReg,
                              wdata |-> writeData]
       ELSE before.mem = before.wb \/ before.mem.out = Mips!NoWrite
=============================================================================
