------------------------------ MODULE TimerReg ------------------------------
(***************************************************************************)
(* What the timer of confreg.v promises a program: one register that       *)
(* counts, and takes over every word written to it, once, after a while.   *)
(***************************************************************************)
EXTENDS Naturals

CONSTANT Mod   \* the register counts modulo Mod

VARIABLES timer,    \* the register
          pending   \* the written word it has yet to take over, if any

regVars == <<timer, pending>>

Init == timer = 0 /\ pending = {}

Count == timer' = (timer + 1) % Mod

\* A program waits for its last write before it makes another.
Write(d) == /\ pending = {} /\ pending' = {d}
            /\ Count \/ UNCHANGED timer
Load == \E d \in pending : timer' = d /\ pending' = {}
Tick == Count /\ UNCHANGED pending

Next == Load \/ Tick \/ \E d \in 0 .. Mod - 1 : Write(d)

SafeSpec == Init /\ [][Next]_regVars
Spec == SafeSpec /\ WF_regVars(Load)
=============================================================================
