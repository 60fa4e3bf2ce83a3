------------------------------- MODULE KeyPad -------------------------------
(***************************************************************************)
(* What the keyboard register of confreg.v promises a program: a press is   *)
(* shown once, from a moment while the key is down until after it is up,     *)
(* and nothing else is, however the contacts bounce.                       *)
(***************************************************************************)

CONSTANTS Key,    \* the keys
          None    \* no key

VARIABLES pushed,   \* the key of the last press
          down,     \* whether it still lasts
          shown     \* what the register shows: a key or None

padVars == <<pushed, down, shown>>

Init == pushed = None /\ down = FALSE /\ shown = None

Push(k) == /\ ~down /\ shown = None
           /\ pushed' = k /\ down' = TRUE /\ UNCHANGED shown
Show == down /\ shown' = pushed /\ UNCHANGED <<pushed, down>>
Lift == down /\ shown = pushed /\ down' = FALSE /\ UNCHANGED <<pushed, shown>>
Hide == ~down /\ shown' = None /\ UNCHANGED <<pushed, down>>

Next == Show \/ Lift \/ Hide \/ \E k \in Key : Push(k)
SafeSpec == Init /\ [][Next]_padVars
Spec == SafeSpec /\ WF_padVars(Show) /\ WF_padVars(Hide)
=============================================================================
