-------------------------------- MODULE Game --------------------------------
(***************************************************************************)
(* memory_main.c on the keyboard of confreg.v: rounds in which the LEDs      *)
(* flash a pattern, the player pushes keys, and the score is shown.  Every   *)
(* step is an edge of clk; the program makes a move when its wait is over.   *)
(***************************************************************************)
EXTENDS KeyScan, Sequences, FiniteSets

CONSTANTS
  NumLights,   \* NUMLIGHTS: 8
  Poll,        \* edges between two loads of a polling loop
  Long,        \* edges of a delay()
  Lights       \* the values my_rand() % 4 gives: 0 .. 3

ASSUME GameAssumption == /\ {NumLights, Poll, Long} \subseteq Nat \ {0}
                         /\ Lights \subseteq 0 .. 3

VARIABLES
  pc,       \* where the program is
  wait,     \* the edges until its next move
  i,        \* the index of its loop, from 0
  pattern,  \* the values to repeat
  keys,     \* what was pushed
  led,      \* SOC_LED, inverted: the bits that are lit
  num,      \* SOC_NUM: the count of keys in bits 24 up, and below the set
            \* of bits of the score
  rg,       \* SOC_LED_RG0 and RG1
  presses,  \* history: the presses entered in the round
  fresh     \* history: the last press has not been entered

progVars == <<pc, wait, i, pattern, keys, led, num, rg, presses, fresh>>
vars == <<keyVars, progVars>>

All == 65535
Bit(n) == <<1, 2, 4, 8>>[n + 1]                         \* 1 << n
Bits(n) == {k \in 0 .. 23 : (n \div 2 ^ k) % 2 = 1}
\* The four keys of row 3, bits 12 to 15 of the register, with their order
\* turned round; any other key is 0.
getUserPress_Bug(key) == IF key # None /\ key[1] = 3 THEN Bit(key[2]) ELSE 0
getUserPress(key) == IF key # None /\ key[1] = 3 THEN Bit(3 - key[2]) ELSE 0

Goto(p, n) == pc' = p /\ wait' = n

\* memory_game, around its rounds: getUserPress()
Idle == /\ pc = "start"
        /\ IF getUserPress(btn_key_r) = 0 THEN Goto(pc, Poll)
           ELSE Goto("pattern", 1)
        /\ UNCHANGED <<i, pattern, keys, led, num, rg, presses>>

\* generateRandomPattern, and displayPattern up to its loop
Pattern == /\ pc = "pattern" /\ Goto("light", Long) /\ i' = 0
           /\ \E val \in [1 .. NumLights -> Lights] :
                pattern' = [k \in 1 .. NumLights |-> Bit(val[k])]
           /\ led' = 0 /\ UNCHANGED <<keys, num, rg, presses>>
Light == /\ pc = "light" /\ led' = pattern[i + 1] /\ Goto("dark", Long)
         /\ UNCHANGED <<i, pattern, keys, num, rg, presses>>
Dark == /\ pc = "dark" /\ led' = 0
        /\ IF i + 1 < NumLights THEN i' = i + 1 /\ Goto("light", Long)
           ELSE i' = 0 /\ Goto("press", Long)
        /\ presses' = <<>> /\ UNCHANGED <<pattern, keys, num, rg>>

\* detectKeyPresses: a press is entered, then waited out.
Press == LET pb == getUserPress(btn_key_r) IN
  /\ pc = "press"
  /\ IF pb = 0 THEN Goto(pc, Poll) /\ UNCHANGED <<keys, led, presses>>
     ELSE /\ keys' = [keys EXCEPT ![i + 1] = pb] /\ led' = pb
          /\ presses' = Append(presses, pushed)
          /\ Goto("release", Long)
  /\ UNCHANGED <<i, pattern, num, rg>>
\* Only the delay tells one press from the next.
Released_Bug(key) == TRUE
Released(key) == getUserPress(key) = 0
\* SOC_NUM = numGuesses<<24 clears the score of the last round.
Counted_Bug(n) == [num EXCEPT !.count = n]
Counted(n) == [count |-> n, score |-> {}]
Release ==
  /\ pc = "release"
  /\ IF ~Released(btn_key_r)
     THEN Goto(pc, Poll) /\ UNCHANGED <<i, led, num>>
     ELSE /\ led' = 0 /\ num' = Counted(i + 1)
          /\ IF i + 1 < NumLights THEN i' = i + 1 /\ Goto("press", 1)
             ELSE i' = 0 /\ Goto("all", Long)
  /\ UNCHANGED <<pattern, keys, rg, presses>>

\* displayScore: all LEDs, then the score.
Flash == /\ pc = "all" /\ led' = All /\ Goto("score", Long)
         /\ UNCHANGED <<i, pattern, keys, num, rg, presses>>
Right == Cardinality({k \in 1 .. NumLights : pattern[k] = keys[k]})
displayScore == /\ pc = "score" /\ led' = 0
                /\ num' = [num EXCEPT !.score = @ \cup Bits(Right)]
                /\ rg' = <<1, IF Right = NumLights THEN 1 ELSE 2>>
                /\ Goto("start", 1)
                /\ UNCHANGED <<i, pattern, keys, presses>>

GameInit ==
  /\ pc = "start" /\ wait = 0 /\ i = 0 /\ led = 0
  /\ pattern = [k \in 1 .. NumLights |-> 0]
  /\ keys = [k \in 1 .. NumLights |-> 0]
  /\ num = [count |-> 0, score |-> {}] /\ rg = <<0, 0>>
  /\ presses = <<>> /\ fresh = FALSE

Waits == /\ wait > 0 /\ wait' = wait - 1
         /\ UNCHANGED <<pc, i, pattern, keys, led, num, rg, presses>>
Moves == /\ wait = 0
         /\ \/ Idle \/ Pattern \/ Light \/ Dark \/ Press \/ Release
            \/ Flash \/ displayScore

\* A new press is fresh until it is entered.
Freshness == fresh' = \/ down' /\ ~down
                      \/ fresh /\ Len(presses') <= Len(presses)

Init == FingerInit /\ ScanInit /\ GameInit
Next == ScanEdge /\ Finger /\ (Waits \/ Moves) /\ Freshness
Spec == Init /\ [][Next]_vars /\ WF_vars(Next)

-----------------------------------------------------------------------------
(* The register shows each press once, from before the finger lifts until    *)
(* after, and nothing of the bouncing: the wait of key_count covers it       *)
(* (confreg.v:360-405).                                                     *)
ShownOnce == Pad!Spec

(* No press is entered twice, whatever the finger and its contact do        *)
(* (memory_main.c:121-131).                                                 *)
EachPressOnce == [][Len(presses') > Len(presses) => fresh]_vars

(* A key of the bottom row that is pushed while the program waits for one is *)
(* entered (memory_main.c:70-72).                                           *)
Heard == (pc = "press" /\ down /\ fresh /\ pushed[1] = 3) ~> ~fresh

(* The score on the display is the number of flashes answered with the key   *)
(* of the same place, and is of this round alone (memory_main.c:138-150).    *)
Answered == {k \in 1 .. NumLights : /\ presses[k][1] = 3
                                     /\ pattern[k] = Bit(3 - presses[k][2])}
Scored == pc = "start" /\ rg # <<0, 0>> =>
            /\ num = [count |-> NumLights, score |-> Bits(Cardinality(Answered))]
            /\ rg[2] = 1 <=> Cardinality(Answered) = NumLights
=============================================================================
