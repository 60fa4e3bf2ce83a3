------------------------------- MODULE MCLock -------------------------------
(***************************************************************************)
(* The test bench of MycpuTb and the reference of LockStep on one CPU.      *)
(***************************************************************************)
EXTENDS MCCpu, LockStep

MCInit == TbInit /\ LockInit
MCNext == Compare /\ Follow /\ (Advance \/ Stall \/ TakeException)
MCVars == <<tbVars, before, phase>>
MCSpec == MCInit /\ [][MCNext]_MCVars
NeverDeparts == phase # "departed"
=============================================================================
