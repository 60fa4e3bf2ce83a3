------------------------------ MODULE MycpuTb ------------------------------
(***************************************************************************)
(* The test bench around the CPU: mycpu_tb.v compares every register write *)
(* on the debug port with the next write of the reference trace.           *)
(***************************************************************************)
EXTENDS Cpu, Sequences, SequencesExt

CONSTANT GoldenSteps   \* instructions of the reference run kept as golden

VARIABLES golden,      \* the reference run: its writes and its last state
          trace_ref,   \* entries of golden.trace read so far
          debug_wb_err

Ref == INSTANCE MipsRef

\* Execution is over at a jump to itself.
IsHalt(prog, a) == a \in DOMAIN prog /\ prog[a].op = "J" /\ prog[a].imm = a

\* golden_trace.txt for a program.
GoldenRun(prog) ==
  LET run[k \in 0 .. GoldenSteps] ==
        IF k = 0 THEN [state |-> Ref!ArchInit, trace |-> <<>>]
        ELSE LET g == run[k - 1]
                 s == Ref!Exec(prog, g.state)
             IN  IF IsHalt(prog, g.state.pc) THEN g
                 ELSE [state |-> s,
                       trace |-> IF s.out = Ref!NoWrite THEN g.trace
                                 ELSE Append(g.trace, s.out)]
  IN  run[GoldenSteps]

debug_wb == [pc |-> Sub(WB.fourPC, 4), wnum |-> WB_writeDataReg,
             wdata |-> writeData]
observed == WB_regWrite /\ WB_writeDataReg # 0

\* Whether the golden run is over, and not just cut off at GoldenSteps.
GoldenFinished == IsHalt(inst_ram, golden.state.pc)

\* At the end of the file the last entry read stays the reference, so that a
\* write too many is an error too.  A program that does not stop within the
\* golden run is followed only as far as the trace goes.
InTrace == trace_ref < Len(golden.trace)
ref_wb == IF InTrace THEN golden.trace[trace_ref + 1]
          ELSE IF golden.trace = <<>> THEN Ref!NoWrite
          ELSE Last(golden.trace)

TbInit == /\ Init
          /\ golden = GoldenRun(inst_ram)
          /\ trace_ref = 0
          /\ debug_wb_err = FALSE

Compare ==
  /\ trace_ref' = IF observed /\ InTrace THEN trace_ref + 1 ELSE trace_ref
  /\ debug_wb_err' = \/ debug_wb_err
                     \/ /\ observed /\ (InTrace \/ GoldenFinished)
                        /\ debug_wb # ref_wb
  /\ UNCHANGED golden

tbVars == <<vars, golden, trace_ref, debug_wb_err>>
TbNext == Compare /\ (Advance \/ Stall \/ TakeException)
TbSpec == TbInit /\ [][TbNext]_tbVars /\ WF_tbVars(TbNext)

-----------------------------------------------------------------------------
\* The program is over: a jump to itself has retired.
Finished == /\ WB.name = "J" /\ 0 \notin kill
            /\ WB.instr.imm = Sub(WB.fourPC, 4)

(* Every register write the CPU shows on its debug port is the next write  *)
(* of the reference, in pc, register and value: the comparison of           *)
(* mycpu_tb.v:133-163.                                                     *)
TraceMatches == ~debug_wb_err

(* When the program is over nothing is missing: all writes of the reference *)
(* were seen, and registers, HI, LO, data RAM and the exception registers   *)
(* are the reference's.  Stores and mthi/mtlo never show on the debug port. *)
FinalStateMatches ==
  Finished /\ GoldenFinished =>
    LET s == golden.state
    IN  /\ trace_ref = Len(golden.trace)
        /\ registers = s.regs /\ HI = s.hi /\ LO = s.lo
        /\ data_ram = s.mem
        /\ cp0.epc = s.cp0.epc /\ cp0.exl = s.cp0.exl
        /\ cp0.code = s.cp0.code
        /\ cp0.code \in {4, 5} => cp0.badVAddr = s.cp0.badVAddr
        /\ cp0.exl => cp0.bd = s.cp0.bd

(* A program whose reference run ends also ends on the CPU: the stall and   *)
(* flush logic never leaves it waiting, and handlers are left again.        *)
Terminates == GoldenFinished ~> Finished
=============================================================================
