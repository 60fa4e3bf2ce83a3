------------------------------ MODULE KeyScan -------------------------------
(***************************************************************************)
(* The keyboard of confreg.v: a matrix of keys scanned column by column,    *)
(* with a counter that waits until the contacts have stopped bouncing, and  *)
(* the finger on it.  A step is one edge of clk.                           *)
(***************************************************************************)
EXTENDS Naturals

CONSTANTS
  Key,       \* a set of keys <<row, column>>, 0 .. 3 each
  Half,      \* 2^19: key_sample is the top bit of a counter of 2 * Half
  Scan,      \* 8: state_count[3] is set at this count
  Bounce,    \* the longest time contacts bounce
  Hold,      \* the shortest press
  Rest       \* the shortest pause between two

\* The wait outlasts the bouncing, and has room for a turn of the scan; a press
\* is as long as it takes to wait and to get to the last column, and a pause as
\* long as the wait.
ASSUME KeyAssumption ==
  /\ Key \subseteq (0 .. 3) \X (0 .. 3)
  /\ {Half, Scan, Bounce, Hold, Rest} \subseteq Nat \ {0}
  /\ Bounce <= Half /\ Scan < Half
  /\ Hold >= Bounce + Half + 5 * (Scan + 1) + 2
  /\ Rest >= Bounce + Half + Scan + 3

VARIABLES
  \* the finger: the key it is or was on, how long, and the contact
  pushed, down, since, contact,
  \* the registers
  state, state_count, key_flag, key_count, btn_key_r

finger == <<pushed, down, since, contact>>
scanVars == <<state, state_count, key_flag, key_count, btn_key_r>>
keyVars == <<finger, scanVars>>

None == <<>>
\* The states of the scanner: waiting, the four columns, a key found.
Wait == 0
Found == 7

\* &btn_key_row is 0: the contact is on a column that is driven.
Driven == IF state \in {Wait, Found} THEN 0 .. 3 ELSE {state - 1}
Low == contact /\ pushed[2] \in Driven
key_sample == key_count >= Half
Turn == state_count = Scan     \* state_count[3]

next_state ==
  CASE state = Wait -> IF key_sample /\ Low THEN 1 ELSE Wait
    [] state \in 1 .. 4 -> IF Low THEN Found ELSE (state + 1) % 5
    [] state = Found -> IF key_sample /\ ~Low THEN Wait ELSE Found

\* Nothing restarts the counter when the key goes up.
Restarts_Bug == state = Wait /\ Low
\* key_start || key_end
Restarts == \/ state = Wait /\ Low
            \/ state = Found /\ ~Low

\* The register follows the contact, as long as it is closed.
NextKey_Bug == IF ~Low THEN None
               ELSE IF next_state = Found THEN pushed ELSE btn_key_r
NextKey == IF next_state = Wait THEN None
           ELSE IF next_state = Found /\ state # Found THEN pushed
           ELSE btn_key_r

ScanEdge ==
  /\ key_flag' = IF key_sample /\ Turn THEN FALSE ELSE key_flag \/ Restarts
  /\ key_count' = IF key_flag THEN (key_count + 1) % (2 * Half) ELSE 0
  /\ state_count' = IF Turn THEN 0 ELSE state_count + 1
  /\ state' = IF Turn THEN next_state ELSE state
  /\ btn_key_r' = NextKey

ScanInit == /\ state = Wait /\ state_count = 0
            /\ key_flag = FALSE /\ key_count = 0 /\ btn_key_r = None

-----------------------------------------------------------------------------
\* The finger.  Its contact may do anything for a while when it moves.
Settled(n) == since >= n
FingerInit == /\ pushed = None /\ down = FALSE
              /\ since = Rest /\ contact = FALSE
Settle == contact' \in IF Settled(Bounce) THEN {down} ELSE BOOLEAN
Stay == /\ since' = IF Settled(Hold) /\ Settled(Rest) THEN since ELSE since + 1
        /\ Settle /\ UNCHANGED <<pushed, down>>
Push(k) == /\ ~down /\ Settled(Rest)
           /\ pushed' = k /\ down' = TRUE /\ since' = 0 /\ contact' \in BOOLEAN
Lift == /\ down /\ Settled(Hold)
        /\ down' = FALSE /\ since' = 0 /\ contact' \in BOOLEAN
        /\ UNCHANGED pushed
Finger == Stay \/ Lift \/ \E k \in Key : Push(k)

\* The keyboard as a program sees it.
Pad == INSTANCE KeyPad WITH shown <- btn_key_r
=============================================================================
