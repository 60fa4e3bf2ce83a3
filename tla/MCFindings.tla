---------------------------- MODULE MCFindings ----------------------------
(***************************************************************************)
(* A program on which the CPU does something else than its test bench       *)
(* expects.  Suites and assembler are those of MCCpu.                       *)
(***************************************************************************)
EXTENDS MCCpu

\* A subroutine that returns at once: jr follows the delay slot of the jal.
Returning == <<JumpTo("JAL", 20), Nop, I("ADDIU", 1, 0, 1),
               JumpTo("J", 28), Nop, JumpR("JR", 31), Nop>>
MCFinding == {Image(Returning, HaltHandler)}
=============================================================================
