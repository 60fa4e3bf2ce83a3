----------------------------- MODULE GameProofs ------------------------------
(***************************************************************************)
(* The keyboard shows every press once, and the game enters it once and      *)
(* scores the round, for every length of the counters that outlasts the      *)
(* bouncing.                                                               *)
(***************************************************************************)
EXTENDS Game, Integers, TLAPS

Column == pushed[2]

KeyTypes ==
  /\ pushed \in Key \cup {None} /\ down \in BOOLEAN /\ contact \in BOOLEAN /\ since \in Nat
  /\ (pushed = None => ~down)
  /\ state \in {Wait, 1, 2, 3, 4, Found} /\ state_count \in 0 .. Scan
  /\ key_flag \in BOOLEAN /\ key_count \in Nat /\ btn_key_r \in {None, pushed}

\* Once it has bounced, the contact is where the finger is.
Steady == since > Bounce => contact = down

\* The wait began while the contact bounced, and ends at the turn behind Half.
Counting == /\ key_count < since /\ since <= key_count + Bounce + 2
            /\ key_count <= Half + state_count

\* A press on its way through the scanner: not waited for yet, waited for, scanned
\* column by column, found.
Pressed ==
  /\ state = Wait => /\ btn_key_r = None
                     /\ ~key_flag => key_count = 0 /\ since <= Bounce + 1
                     /\ key_flag => Counting
  /\ state \in 1 .. 4 =>
       /\ ~key_flag /\ since > Bounce /\ state <= Column + 1
       /\ state # 1 \/ state_count > 0 => key_count = 0
       /\ since <= Bounce + 3 + Half + Scan + (state - 1) * (Scan + 1) + state_count
       /\ state <= Column => btn_key_r = None
       /\ state_count > 0 /\ state = Column + 1 => btn_key_r = pushed
  /\ state = Found => ~key_flag /\ key_count = 0 /\ since > Bounce /\ btn_key_r = pushed

\* A finger that is up: still shown, waited for, gone.
Lifted ==
  /\ state \in {Wait, Found}
  /\ state = Found => /\ pushed # None
                      /\ ~key_flag => /\ key_count = 0 /\ since <= Bounce + 1
                                      /\ btn_key_r = pushed
                      /\ key_flag => /\ Counting
                                     /\ key_count <= Half => btn_key_r = pushed
                                     /\ key_count > Half => btn_key_r = None
  /\ state = Wait => ~key_flag /\ since > Bounce /\ btn_key_r = None

KeyInv == KeyTypes /\ Steady /\ (down => Pressed) /\ (~down => Lifted)

\* The last press has been shown and hidden.
Over == ~down /\ btn_key_r = None
\* A press that has been entered is shown no more once the program has seen it go.
Entered == ~fresh => /\ pushed = None \/ pushed[1] = 3
                     /\ btn_key_r = pushed \/ Over
                     /\ pc # "release" => Over

Given == CASE pc = "press" -> i
           [] pc = "release" -> i + 1
           [] pc \in {"all", "score", "start"} -> NumLights
           [] OTHER -> 0

GameTypes ==
  /\ pc \in {"start", "pattern", "light", "dark", "press", "release", "all", "score"}
  /\ wait \in Nat /\ i \in 0 .. NumLights - 1
  /\ keys \in [1 .. NumLights -> Nat] /\ presses \in Seq(Key) /\ fresh \in BOOLEAN

\* What was pushed is what was entered, key by key.
Kept == /\ Len(presses) = Given
        /\ \A k \in 1 .. Given : /\ keys[k] = getUserPress(presses[k])
                                 /\ keys[k] # 0

\* The display is cleared before the score is added to it.
Shown == /\ pc \in {"all", "score"} => num = [count |-> NumLights, score |-> {}]
         /\ Scored

RoundInv == /\ GameTypes /\ Shown
            /\ pc \in {"press", "release", "all", "score"} => Kept
            /\ pc = "start" /\ rg # <<0, 0>> => Kept

IInv == KeyInv /\ Entered /\ RoundInv

-----------------------------------------------------------------------------
\* The scanner.
LEMMA Times ==
  /\ Half \in Nat \ {0} /\ Scan \in Nat \ {0} /\ Bounce \in Nat \ {0}
  /\ Hold \in Nat \ {0} /\ Rest \in Nat \ {0}
  /\ Bounce <= Half /\ Scan < Half
  /\ Hold >= Bounce + Half + 5 * (Scan + 1) + 2 /\ Rest >= Bounce + Half + Scan + 3
  BY KeyAssumption

LEMMA Keys == \A k \in Key : k # None /\ k[2] \in 0 .. 3 /\ k[1] \in 0 .. 3
  BY KeyAssumption DEF None

\* What the column wires and the state say of a key that is where it is.
LEMMA Wires ==
  ASSUME KeyInv
  PROVE  /\ state \in {Wait, Found} => (Low <=> contact /\ pushed # None)
         /\ state \in 1 .. 4 /\ pushed # None => (Low <=> contact /\ state = Column + 1)
         /\ pushed # None => Column \in 0 .. 3
         /\ pushed = None /\ state = Wait => ~contact
<1>1. pushed # None => Column \in 0 .. 3
  BY Keys DEF KeyInv, KeyTypes, Column
<1>2. pushed = None /\ state = Wait => ~contact
  BY DEF KeyInv, KeyTypes, Steady, Lifted
<1>3. ASSUME state \in {Wait, Found} PROVE Low <=> contact /\ pushed # None
  <2>1. Driven = 0 .. 3
    BY <1>3 DEF Driven
  <2>2. pushed = None => ~contact
    BY <1>2, <1>3 DEF KeyInv, Lifted, KeyTypes
  <2> QED BY <1>1, <2>1, <2>2 DEF Low, Column
<1>4. ASSUME state \in 1 .. 4, pushed # None PROVE Low <=> contact /\ state = Column + 1
  <2>1. Driven = {state - 1}
    BY <1>4 DEF Driven, Wait, Found
  <2>2. Low <=> contact /\ Column = state - 1
    BY <2>1 DEF Low, Column
  <2> QED BY <1>1, <1>4, <2>2
<1> QED BY <1>1, <1>2, <1>3, <1>4

\* The next state, case by case.
LEMMA States ==
  /\ KeyInv => next_state \in {Wait, 1, 2, 3, 4, Found}
  /\ state = Wait /\ key_sample /\ Low => next_state = 1
  /\ state = Wait /\ ~(key_sample /\ Low) => next_state = Wait
  /\ state \in 1 .. 4 /\ Low => next_state = Found
  /\ state \in 1 .. 3 /\ ~Low => next_state = state + 1
  /\ state = Found /\ key_sample /\ ~Low => next_state = Wait
  /\ state = Found /\ ~(key_sample /\ ~Low) => next_state = Found
<1>1. /\ state = Wait /\ key_sample /\ Low => next_state = 1
      /\ state = Wait /\ ~(key_sample /\ Low) => next_state = Wait
      /\ state \in 1 .. 4 /\ Low => next_state = Found
      /\ state \in 1 .. 3 /\ ~Low => next_state = state + 1
      /\ state = 4 /\ ~Low => next_state = Wait
      /\ state = Found /\ key_sample /\ ~Low => next_state = Wait
      /\ state = Found /\ ~(key_sample /\ ~Low) => next_state = Found
  BY DEF next_state, Wait, Found
<1>2. KeyInv => next_state \in {Wait, 1, 2, 3, 4, Found}
  BY <1>1 DEF KeyInv, KeyTypes, Wait, Found
<1> QED BY <1>1, <1>2

\* An edge, apart from the keys.
LEMMA Counts ==
  ASSUME KeyInv, ScanEdge
  PROVE  /\ Turn => state_count' = 0 /\ state' = next_state
         /\ ~Turn => /\ state_count' = state_count + 1 /\ state_count < Scan
                     /\ state' = state
         /\ state_count' \in 0 .. Scan
         /\ key_sample /\ Turn => ~key_flag'
         /\ ~(key_sample /\ Turn) => (key_flag' <=> key_flag \/ Restarts)
         /\ key_flag' \in BOOLEAN
         /\ ~key_flag => key_count' = 0
         /\ key_count' \in Nat
         /\ key_flag /\ key_count + 1 < 2 * Half => key_count' = key_count + 1
<1>1. state_count \in 0 .. Scan /\ key_count \in Nat /\ key_flag \in BOOLEAN
  BY DEF KeyInv, KeyTypes
<1>2. /\ key_flag' = (IF key_sample /\ Turn THEN FALSE ELSE key_flag \/ Restarts)
      /\ key_count' = (IF key_flag THEN (key_count + 1) % (2 * Half) ELSE 0)
      /\ state_count' = (IF Turn THEN 0 ELSE state_count + 1)
      /\ state' = IF Turn THEN next_state ELSE state
  BY DEF ScanEdge
<1>3. key_flag' \in BOOLEAN
  BY <1>2, Zenon DEF Restarts
<1>4. /\ (key_count + 1) % (2 * Half) \in Nat
      /\ key_count + 1 < 2 * Half => (key_count + 1) % (2 * Half) = key_count + 1
  <2>1. 2 * Half \in Nat \ {0}
    BY Times
  <2> QED BY <1>1, <2>1
<1>5. ~Turn => state_count < Scan
  BY <1>1, Times DEF Turn
<1>6. /\ key_sample /\ Turn => ~key_flag'
      /\ ~(key_sample /\ Turn) => (key_flag' <=> key_flag \/ Restarts)
  BY <1>2, Zenon
<1>7. /\ ~key_flag => key_count' = 0
      /\ key_count' \in Nat
      /\ key_flag /\ key_count + 1 < 2 * Half => key_count' = key_count + 1
  BY <1>1, <1>2, <1>4
<1>8. /\ Turn => state_count' = 0 /\ state' = next_state
      /\ ~Turn => /\ state_count' = state_count + 1 /\ state_count < Scan
                  /\ state' = state
      /\ state_count' \in 0 .. Scan
  BY <1>1, <1>2, <1>5, Times
<1> QED BY <1>3, <1>6, <1>7, <1>8

\* The finger and its contact.
LEMMA Fingers ==
  ASSUME KeyInv, Finger
  PROVE  /\ pushed' \in Key \cup {None} /\ down' \in BOOLEAN /\ contact' \in BOOLEAN
         /\ since' \in Nat /\ (pushed' = None => ~down') /\ Steady'
<1>1. /\ pushed \in Key \cup {None} /\ down \in BOOLEAN /\ contact \in BOOLEAN /\ since \in Nat
      /\ (pushed = None => ~down)
  BY DEF KeyInv, KeyTypes
<1>2. CASE Stay
  BY <1>1, <1>2, Times DEF Stay, Settle, Settled, Steady
<1>3. CASE \E k \in Key : Push(k)
  <2>1. PICK k \in Key : Push(k)
    BY <1>3
  <2>2. pushed' = k /\ down' = TRUE /\ since' = 0 /\ contact' \in BOOLEAN
    BY <2>1 DEF Push
  <2>3. ~(since' > Bounce)
    BY <2>2, Times
  <2> QED BY <2>2, <2>3, Keys DEF Steady
<1>4. CASE Lift
  <2>1. pushed' = pushed /\ down' = FALSE /\ since' = 0 /\ contact' \in BOOLEAN
    BY <1>4 DEF Lift
  <2>2. ~(since' > Bounce)
    BY <2>1, Times
  <2> QED BY <1>1, <2>1, <2>2 DEF Steady
<1> QED BY <1>2, <1>3, <1>4 DEF Finger

\* Time goes by as long as the press, or the pause, is short.
LEMMA Passes ==
  ASSUME KeyInv, Stay, ~(Settled(Hold) /\ Settled(Rest))
  PROVE  since' = since + 1
  BY DEF Stay

-----------------------------------------------------------------------------
\* A key that is down waits until its contact has bounced,
LEMMA PressWaits ==
  ASSUME KeyInv, down, state = Wait, ScanEdge, Stay
  PROVE  Pressed' /\ btn_key_r = None /\ btn_key_r' = None
<1>1. /\ pushed' = pushed /\ down' = down /\ since \in Nat /\ contact \in BOOLEAN
      /\ state_count \in 0 .. Scan /\ key_flag \in BOOLEAN /\ key_count \in Nat
      /\ btn_key_r = None /\ pushed # None
      /\ ~key_flag => key_count = 0 /\ since <= Bounce + 1
      /\ key_flag => Counting
      /\ since > Bounce => contact
  BY DEF KeyInv, KeyTypes, Pressed, Steady, Stay
<1>2. (Low <=> contact) /\ Column \in 0 .. 3 /\ Column' = Column
  BY <1>1, Wires DEF Column
<1>3. since' = since + 1
  <2>1. since < Hold
    BY <1>1, Times DEF Counting
  <2> QED BY <1>1, <2>1, Passes, Times DEF Settled
<1>4. btn_key_r' = None
  <2>1. next_state \in {1, Wait}
    BY States
  <2>2. next_state # Found
    BY <2>1 DEF Wait, Found
  <2> QED BY <1>1, <2>2 DEF ScanEdge, NextKey
<1>5. CASE key_flag /\ key_sample /\ Turn
  <2>1. key_count >= Half /\ state_count = Scan
    BY <1>5 DEF key_sample, Turn
  <2>2. since > Bounce /\ Low
    BY <1>1, <1>2, <1>5, <2>1, Times DEF Counting
  <2>3. state' = 1 /\ state_count' = 0 /\ ~key_flag'
    BY <1>5, <2>2, Counts, States
  <2>4. /\ since' > Bounce
        /\ since' <= Bounce + 3 + Half + Scan + (state' - 1) * (Scan + 1) + state_count'
    BY <1>1, <1>3, <1>5, <2>1, <2>2, <2>3, Times DEF Counting
  <2> QED BY <1>1, <1>2, <1>4, <2>3, <2>4, Times DEF Pressed, Wait, Found
<1>6. CASE key_flag /\ ~(key_sample /\ Turn)
  <2>1. key_count + 1 <= Half + state_count' /\ state' = Wait
    <3>1. CASE Turn
      <4>1. ~key_sample /\ key_count < Half
        BY <1>1, <1>6, <3>1, Times DEF key_sample
      <4> QED BY <1>1, <3>1, <4>1, Counts, States, Times
    <3>2. CASE ~Turn
      BY <1>1, <1>6, <3>2, Counts, Times DEF Counting
    <3> QED BY <3>1, <3>2
  <2>2. key_count + 1 < 2 * Half
    BY <1>1, <2>1, Counts, Times
  <2>3. key_flag' /\ key_count' = key_count + 1
    BY <1>6, <2>2, Counts
  <2>4. Counting'
    BY <1>1, <1>3, <1>6, <2>1, <2>3, Times DEF Counting
  <2> QED BY <1>1, <1>4, <2>1, <2>3, <2>4 DEF Pressed, Wait, Found
<1>7. CASE ~key_flag
  <2>1. ~key_sample /\ key_count' = 0 /\ state' = Wait
    BY <1>1, <1>7, Counts, States, Times DEF key_sample
  <2>2. key_flag' <=> contact
    BY <1>2, <1>7, <2>1, Counts DEF Restarts, Wait, Found
  <2>3. ~key_flag' => since' <= Bounce + 1
    BY <1>1, <1>3, <2>2, Times
  <2>4. key_flag' => Counting'
    BY <1>1, <1>3, <1>7, <2>1, Counts, Times DEF Counting
  <2> QED BY <1>1, <1>4, <2>1, <2>3, <2>4 DEF Pressed, Wait, Found
<1> QED BY <1>1, <1>4, <1>5, <1>6, <1>7

\* is found in its column,
LEMMA PressScans ==
  ASSUME KeyInv, down, state \in 1 .. 4, ScanEdge, Stay
  PROVE  /\ Pressed' /\ btn_key_r' \in {None, pushed}
         /\ btn_key_r' = pushed \/ btn_key_r' = btn_key_r
<1>1. /\ pushed' = pushed /\ down' = down /\ since \in Nat /\ contact \in BOOLEAN
      /\ state_count \in 0 .. Scan /\ key_flag = FALSE /\ key_count \in Nat
      /\ pushed # None /\ btn_key_r \in {None, pushed}
      /\ since > Bounce /\ contact /\ state <= Column + 1
      /\ since <= Bounce + 3 + Half + Scan + (state - 1) * (Scan + 1) + state_count
      /\ state <= Column => btn_key_r = None
  BY DEF KeyInv, KeyTypes, Pressed, Steady, Stay
<1>2. (Low <=> state = Column + 1) /\ Column \in 0 .. 3 /\ Column' = Column
  BY <1>1, Wires DEF Column
<1>3. since' = since + 1
  <2>1. (state - 1) * (Scan + 1) <= 3 * (Scan + 1)
    <3>1. state = 1 \/ state = 2 \/ state = 3 \/ state = 4
      OBVIOUS
    <3> QED BY <3>1, Times
  <2>2. (state - 1) * (Scan + 1) \in Int
    BY Times
  <2>3. since < Hold
    <3> DEFINE p == (state - 1) * (Scan + 1)
    <3>1. p <= 3 * (Scan + 1) /\ p \in Int
          /\ since <= Bounce + 3 + Half + Scan + p + state_count
      BY <1>1, <2>1, <2>2
    <3> HIDE DEF p
    <3> QED BY <1>1, <3>1, Times
  <2> QED BY <1>1, <2>3, Passes, Times DEF Settled
<1>4. key_flag' = FALSE /\ key_count' = 0
  <2>1. ~Restarts
    BY DEF Restarts, Wait, Found
  <2> QED BY <1>1, <2>1, Counts
<1>5. CASE state = Column + 1
  <2>1. next_state = Found
    BY <1>2, <1>5, States
  <2>2. btn_key_r' = pushed
    BY <2>1 DEF ScanEdge, NextKey, Wait, Found
  <2>3. CASE Turn
    <3>1. state' = Found
      BY <2>1, <2>3, Counts
    <3> QED BY <1>1, <1>3, <1>4, <2>2, <3>1, Times DEF Pressed, Wait, Found
  <2>4. CASE ~Turn
    <3>1. state' = state /\ state_count' = state_count + 1
      BY <2>4, Counts
    <3>2. since' <= Bounce + 3 + Half + Scan + (state' - 1) * (Scan + 1) + state_count'
      <4> DEFINE p == (state - 1) * (Scan + 1)
      <4>1. p \in Int
        BY Times
      <4>2. since <= Bounce + 3 + Half + Scan + p + state_count
        BY <1>1
      <4> HIDE DEF p
      <4>3. since + 1 <= Bounce + 3 + Half + Scan + p + (state_count + 1)
        BY <1>1, <4>1, <4>2, Times
      <4> QED BY <1>3, <3>1, <4>3 DEF p
    <3> QED BY <1>1, <1>2, <1>3, <1>4, <1>5, <2>2, <3>1, <3>2, Times DEF Pressed, Wait, Found
  <2> QED BY <1>1, <2>2, <2>3, <2>4
<1>6. CASE state <= Column
  <2>1. ~Low /\ state \in 1 .. 3
    BY <1>2, <1>6
  <2>2. next_state = state + 1 /\ next_state # Found /\ next_state # Wait
    BY <2>1, States DEF Wait, Found
  <2>3. btn_key_r' = None
    BY <1>1, <1>6, <2>2 DEF ScanEdge, NextKey
  <2> DEFINE p == (state - 1) * (Scan + 1)
  <2>4. p \in Int /\ (state + 1 - 1) * (Scan + 1) = p + Scan + 1
    <3>1. state = 1 \/ state = 2 \/ state = 3
      BY <2>1
    <3> QED BY <3>1, Times
  <2>5. since <= Bounce + 3 + Half + Scan + p + state_count
    BY <1>1
  <2>6. CASE Turn
    <3>1. state' = state + 1 /\ state_count' = 0 /\ state_count = Scan
      BY <2>2, <2>6, Counts DEF Turn
    <3>2. since' <= Bounce + 3 + Half + Scan + (state' - 1) * (Scan + 1) + state_count'
      <4> HIDE DEF p
      <4>1. since + 1 <= Bounce + 3 + Half + Scan + (p + Scan + 1) + 0
        BY <1>1, <2>4, <2>5, <3>1, Times
      <4> QED BY <1>3, <2>4, <3>1, <4>1
    <3> QED BY <1>1, <1>2, <1>3, <1>4, <1>6, <2>1, <2>3, <3>1, <3>2, Times DEF Pressed, Wait, Found
  <2>7. CASE ~Turn
    <3>1. state' = state /\ state_count' = state_count + 1
      BY <2>7, Counts
    <3>2. since' <= Bounce + 3 + Half + Scan + (state' - 1) * (Scan + 1) + state_count'
      <4> HIDE DEF p
      <4>1. since + 1 <= Bounce + 3 + Half + Scan + p + (state_count + 1)
        BY <1>1, <2>4, <2>5, Times
      <4> QED BY <1>3, <3>1, <4>1 DEF p
    <3> QED BY <1>1, <1>2, <1>3, <1>4, <1>6, <2>1, <2>3, <3>1, <3>2, Times DEF Pressed, Wait, Found
  <2> QED BY <2>3, <2>6, <2>7
<1> QED BY <1>1, <1>2, <1>5, <1>6

\* and stays found.
LEMMA PressStays ==
  ASSUME KeyInv, down, state = Found, ScanEdge
  PROVE  /\ state' = Found /\ ~key_flag' /\ key_count' = 0 /\ btn_key_r' = pushed
         /\ pushed # None /\ since > Bounce /\ since \in Nat
<1>1. /\ ~key_flag /\ key_count = 0 /\ since > Bounce /\ btn_key_r = pushed /\ contact
      /\ pushed # None /\ since \in Nat
  BY DEF KeyInv, KeyTypes, Pressed, Steady
<1>2. Low
  BY <1>1, Wires
<1>3. next_state = Found
  BY <1>2, States
<1>4. btn_key_r' = pushed
  BY <1>1, <1>3 DEF ScanEdge, NextKey, Wait, Found
<1>5. ~Restarts
  BY <1>2 DEF Restarts, Wait, Found
<1> QED BY <1>1, <1>3, <1>4, <1>5, Counts

\* A key that is up is shown until the contact has bounced,
LEMMA LiftWaits ==
  ASSUME KeyInv, ~down, state = Found, ScanEdge, Stay
  PROVE  /\ Lifted' /\ btn_key_r' \in {None, pushed}
         /\ btn_key_r' = btn_key_r \/ btn_key_r' = None
<1>1. /\ pushed' = pushed /\ down' = down /\ since \in Nat /\ contact \in BOOLEAN
      /\ state_count \in 0 .. Scan /\ key_flag \in BOOLEAN /\ key_count \in Nat
      /\ pushed # None /\ btn_key_r \in {None, pushed}
      /\ ~key_flag => key_count = 0 /\ since <= Bounce + 1 /\ btn_key_r = pushed
      /\ key_flag => /\ Counting
                     /\ key_count <= Half => btn_key_r = pushed
                     /\ key_count > Half => btn_key_r = None
      /\ since > Bounce => ~contact
  BY DEF KeyInv, KeyTypes, Lifted, Steady, Stay
<1>2. Low <=> contact
  BY <1>1, Wires
<1>3. since' = since + 1
  <2>1. since < Rest
    BY <1>1, Times DEF Counting
  <2> QED BY <1>1, <2>1, Passes, Times DEF Settled
<1>4. /\ next_state = Wait => btn_key_r' = None
      /\ next_state = Found => btn_key_r' = btn_key_r
  BY DEF ScanEdge, NextKey, Wait, Found
<1>5. CASE key_flag /\ key_sample
  <2>1. key_count >= Half /\ since > Bounce /\ ~Low /\ next_state = Wait
    BY <1>1, <1>2, <1>5, Times, States DEF key_sample, Counting
  <2>2. CASE Turn
    <3>1. state' = Wait /\ ~key_flag' /\ since' > Bounce /\ btn_key_r' = None
      BY <1>1, <1>3, <1>4, <1>5, <2>1, <2>2, Counts, Times
    <3> QED BY <3>1 DEF Lifted, Wait, Found
  <2>3. CASE ~Turn
    <3>1. key_count + 1 <= Half + state_count' /\ state' = Found
      BY <1>1, <1>5, <2>3, Counts, Times DEF Counting
    <3>2. key_count + 1 < 2 * Half
      BY <1>1, <3>1, Counts, Times
    <3>3. key_flag' /\ key_count' = key_count + 1
      BY <1>5, <2>3, <3>2, Counts
    <3>4. Counting'
      BY <1>1, <1>3, <1>5, <3>1, <3>3, Times DEF Counting
    <3>5. btn_key_r' = None /\ key_count' > Half
      BY <1>1, <1>4, <2>1, <3>3, Times
    <3> QED BY <1>1, <3>1, <3>3, <3>4, <3>5, Times DEF Lifted, Wait, Found
  <2> QED BY <1>4, <2>1, <2>2, <2>3
<1>6. CASE key_flag /\ ~key_sample
  <2>1. key_count < Half /\ next_state = Found
    BY <1>1, <1>6, Times, States DEF key_sample
  <2>2. state' = Found /\ btn_key_r' = pushed
    BY <1>1, <1>4, <1>6, <2>1, Counts, Times
  <2>3. key_flag' /\ key_count' = key_count + 1
    BY <1>1, <1>6, <2>1, Counts, Times
  <2>4. Counting' /\ key_count' <= Half
    BY <1>1, <1>3, <1>6, <2>1, <2>3, Counts, Times DEF Counting
  <2> QED BY <1>1, <2>2, <2>3, <2>4, Times DEF Lifted, Wait, Found
<1>7. CASE ~key_flag
  <2>1. ~key_sample /\ key_count' = 0 /\ next_state = Found
    BY <1>1, <1>7, Counts, States, Times DEF key_sample
  <2>2. state' = Found /\ btn_key_r' = pushed
    BY <1>1, <1>4, <1>7, <2>1, Counts
  <2>3. key_flag' <=> ~contact
    BY <1>2, <1>7, <2>1, Counts DEF Restarts, Wait, Found
  <2>4. ~key_flag' => since' <= Bounce + 1
    BY <1>1, <1>3, <2>3, Times
  <2>5. key_flag' => Counting'
    BY <1>1, <1>3, <1>7, <2>1, Counts, Times DEF Counting
  <2>6. key_flag' => key_count' <= Half
    BY <2>1, Times
  <2>7. btn_key_r = pushed
    BY <1>1, <1>7
  <2>8. Lifted'
    BY <1>1, <2>1, <2>2, <2>4, <2>5, <2>6, Times DEF Lifted, Wait, Found
  <2> QED BY <2>2, <2>7, <2>8
<1> QED BY <1>5, <1>6, <1>7

\* and is gone then.
LEMMA LiftStays ==
  ASSUME KeyInv, ~down, state = Wait, ScanEdge
  PROVE  /\ state' = Wait /\ ~key_flag' /\ key_count' = 0 /\ btn_key_r' = None
         /\ since > Bounce
<1>1. ~key_flag /\ since > Bounce /\ btn_key_r = None /\ ~contact
  BY DEF KeyInv, KeyTypes, Lifted, Steady
<1>2. ~Low
  BY <1>1, Wires
<1>3. next_state = Wait
  BY <1>2, States
<1>4. btn_key_r' = None
  BY <1>3 DEF ScanEdge, NextKey
<1>5. ~Restarts
  BY <1>2 DEF Restarts, Wait, Found
<1> QED BY <1>1, <1>3, <1>4, <1>5, Counts

-----------------------------------------------------------------------------
\* The next press comes when the last is gone, and lasts until it is found.
LEMMA Pushes ==
  ASSUME KeyInv, ScanEdge, NEW k \in Key, Push(k)
  PROVE  /\ state' = Wait /\ Pressed' /\ btn_key_r = None /\ btn_key_r' = None
<1>1. ~down /\ since >= Rest /\ since \in Nat /\ since' = 0
  BY DEF Push, Settled, KeyInv, KeyTypes
<1>2. state = Wait
  BY <1>1, Times DEF KeyInv, KeyTypes, Lifted, Counting
<1>3. state' = Wait /\ ~key_flag' /\ key_count' = 0 /\ btn_key_r' = None
  BY <1>1, <1>2, LiftStays
<1>4. btn_key_r = None
  BY <1>1, <1>2 DEF KeyInv, Lifted
<1> QED BY <1>1, <1>3, <1>4, Times DEF Pressed, Wait, Found

LEMMA Lifts ==
  ASSUME KeyInv, ScanEdge, Lift
  PROVE  /\ Lifted' /\ btn_key_r = pushed /\ btn_key_r' = pushed
<1>1. down /\ since >= Hold /\ since \in Nat /\ since' = 0 /\ pushed' = pushed
  BY DEF Lift, Settled, KeyInv, KeyTypes
<1>2. state = Found
  <2>1. state # Wait
    BY <1>1, Times DEF KeyInv, KeyTypes, Pressed, Counting
  <2>2. ASSUME state \in 1 .. 4 PROVE FALSE
    <3> DEFINE p == (state - 1) * (Scan + 1)
    <3>1. p \in Int /\ p <= 3 * (Scan + 1)
      <4>1. state = 1 \/ state = 2 \/ state = 3 \/ state = 4
        BY <2>2
      <4> QED BY <4>1, Times
    <3>2. since <= Bounce + 3 + Half + Scan + p + state_count /\ state_count \in 0 .. Scan
      BY <1>1, <2>2 DEF KeyInv, KeyTypes, Pressed
    <3> HIDE DEF p
    <3> QED BY <1>1, <3>1, <3>2, Times
  <2> QED BY <2>1, <2>2 DEF KeyInv, KeyTypes
<1>3. /\ state' = Found /\ ~key_flag' /\ key_count' = 0 /\ btn_key_r' = pushed
      /\ pushed # None
  BY <1>1, <1>2, PressStays
<1>4. btn_key_r = pushed
  BY <1>1, <1>2 DEF KeyInv, Pressed
<1> QED BY <1>1, <1>3, <1>4, Times DEF Lifted, Wait, Found

-----------------------------------------------------------------------------
\* One edge of clk, as the program sees it: the register shows the press, or it
\* is cleared, and the finger moves only when it is settled.
Seen == \/ down /\ down' /\ pushed' = pushed /\ btn_key_r' \in {btn_key_r, pushed}
        \/ ~down /\ ~down' /\ pushed' = pushed /\ btn_key_r' \in {btn_key_r, None}
        \/ /\ ~down /\ down' /\ pushed' \in Key
           /\ btn_key_r = None /\ btn_key_r' = None
        \/ /\ down /\ ~down' /\ pushed' = pushed
           /\ btn_key_r = pushed /\ btn_key_r' = pushed

LEMMA Edges ==
  ASSUME KeyInv, ScanEdge, Finger
  PROVE  KeyInv' /\ Seen
<1>1. /\ pushed' \in Key \cup {None} /\ down' \in BOOLEAN /\ contact' \in BOOLEAN
      /\ since' \in Nat /\ (pushed' = None => ~down') /\ Steady'
  BY Fingers
<1>2. /\ state' \in {Wait, 1, 2, 3, 4, Found} /\ state_count' \in 0 .. Scan
      /\ key_flag' \in BOOLEAN /\ key_count' \in Nat
  BY Counts, States DEF KeyInv, KeyTypes
<1>3. /\ state \in {Wait, Found} \/ state \in 1 .. 4
      /\ btn_key_r \in {None, pushed} /\ down \in BOOLEAN /\ since \in Nat
  BY DEF KeyInv, KeyTypes
<1> SUFFICES /\ btn_key_r' \in {None, pushed'}
             /\ down' => Pressed'
             /\ ~down' => Lifted'
             /\ Seen
  BY <1>1, <1>2 DEF KeyInv, KeyTypes
<1>4. CASE Stay
  <2>1. pushed' = pushed /\ down' = down /\ since' \in {since, since + 1}
    BY <1>4 DEF Stay
  <2>2. CASE down
    <3>1. CASE state = Wait
      BY <1>4, <2>1, <2>2, <3>1, PressWaits DEF Seen
    <3>2. CASE state \in 1 .. 4
      BY <1>4, <2>1, <2>2, <3>2, PressScans DEF Seen
    <3>3. CASE state = Found
      <4>1. /\ state' = Found /\ ~key_flag' /\ key_count' = 0 /\ btn_key_r' = pushed
            /\ since > Bounce
        BY <2>2, <3>3, PressStays
      <4>2. since' > Bounce
        BY <1>3, <2>1, <4>1, Times
      <4> QED BY <2>1, <2>2, <4>1, <4>2 DEF Seen, Pressed, Wait, Found
    <3> QED BY <1>3, <3>1, <3>2, <3>3
  <2>3. CASE ~down
    <3>1. CASE state = Found
      BY <1>4, <2>1, <2>3, <3>1, LiftWaits DEF Seen
    <3>2. CASE state = Wait
      <4>1. /\ state' = Wait /\ ~key_flag' /\ btn_key_r' = None /\ since > Bounce
        BY <2>3, <3>2, LiftStays
      <4>2. since' > Bounce
        BY <1>3, <2>1, <4>1, Times
      <4> QED BY <2>1, <2>3, <4>1, <4>2 DEF Seen, Lifted, Wait, Found
    <3> QED BY <2>3, <3>1, <3>2 DEF KeyInv, Lifted
  <2> QED BY <1>3, <2>2, <2>3
<1>5. CASE \E k \in Key : Push(k)
  <2>1. PICK k \in Key : Push(k)
    BY <1>5
  <2>2. ~down /\ down' /\ pushed' = k
    BY <2>1 DEF Push
  <2>3. Pressed' /\ btn_key_r = None /\ btn_key_r' = None
    BY <2>1, Pushes
  <2> QED BY <2>2, <2>3 DEF Seen
<1>6. CASE Lift
  <2>1. down /\ ~down' /\ pushed' = pushed
    BY <1>6 DEF Lift
  <2>2. Lifted' /\ btn_key_r = pushed /\ btn_key_r' = pushed
    BY <1>6, Lifts
  <2> QED BY <2>1, <2>2 DEF Seen
<1> QED BY <1>4, <1>5, <1>6 DEF Finger

\* The scanner refines what a program may expect of the register.
LEMMA Pads ==
  ASSUME Seen, down \in BOOLEAN, down' \in BOOLEAN
  PROVE  [Pad!Next]_(Pad!padVars)
<1> SUFFICES Pad!Next \/ UNCHANGED Pad!padVars
  OBVIOUS
<1>1. CASE down /\ down' /\ pushed' = pushed /\ btn_key_r' \in {btn_key_r, pushed}
  <2>1. CASE btn_key_r' = pushed
    BY <1>1, <2>1 DEF Pad!Next, Pad!Show
  <2>2. CASE btn_key_r' = btn_key_r
    BY <1>1, <2>2 DEF Pad!padVars
  <2> QED BY <1>1, <2>1, <2>2
<1>2. CASE ~down /\ ~down' /\ pushed' = pushed /\ btn_key_r' \in {btn_key_r, None}
  <2>1. CASE btn_key_r' = None
    BY <1>2, <2>1 DEF Pad!Next, Pad!Hide
  <2>2. CASE btn_key_r' = btn_key_r
    BY <1>2, <2>2 DEF Pad!padVars
  <2> QED BY <1>2, <2>1, <2>2
<1>3. CASE ~down /\ down' /\ pushed' \in Key /\ btn_key_r = None /\ btn_key_r' = None
  BY <1>3 DEF Pad!Next, Pad!Push
<1>4. CASE down /\ ~down' /\ pushed' = pushed /\ btn_key_r = pushed /\ btn_key_r' = pushed
  BY <1>4 DEF Pad!Next, Pad!Lift
<1> QED BY <1>1, <1>2, <1>3, <1>4 DEF Seen

-----------------------------------------------------------------------------
\* The program, one edge.
Step == Waits \/ Moves

LEMMA Buttons ==
  ASSUME KeyInv
  PROVE  /\ getUserPress(btn_key_r) \in Nat
         /\ getUserPress(btn_key_r) # 0 => /\ btn_key_r = pushed /\ pushed \in Key
                                           /\ pushed[1] = 3
         /\ pushed \in Key /\ pushed[1] = 3 => getUserPress(pushed) # 0
<1>1. btn_key_r \in {None, pushed} /\ pushed \in Key \cup {None}
  BY DEF KeyInv, KeyTypes
<1>2. \A k \in Key : Bit(3 - k[2]) \in Nat \ {0}
  <2>1. SUFFICES ASSUME NEW k \in Key PROVE Bit(3 - k[2]) \in Nat \ {0}
    OBVIOUS
  <2>2. k[2] = 0 \/ k[2] = 1 \/ k[2] = 2 \/ k[2] = 3
    BY Keys
  <2> QED BY <2>2 DEF Bit
<1> QED BY <1>1, <1>2, Keys DEF getUserPress

\* What a move does to the presses that are entered.
LEMMA Enters ==
  ASSUME KeyInv, GameTypes, Step, Len(presses') > Len(presses)
  PROVE  /\ pc = "press" /\ pc' = "release"
         /\ getUserPress(btn_key_r) # 0
<1>1. Len(presses) \in Nat
  BY DEF GameTypes
<1>2. CASE Waits
  BY <1>1, <1>2 DEF Waits
<1>3. CASE Dark
  BY <1>1, <1>3 DEF Dark
<1>4. CASE Press
  BY <1>1, <1>4 DEF Press, Goto
<1>5. CASE Idle \/ Pattern \/ Light \/ Release \/ Flash \/ displayScore
  <2>1. presses' = presses
    BY <1>5 DEF Idle, Pattern, Light, Release, Flash, displayScore
  <2> QED BY <1>1, <2>1
<1> QED BY <1>2, <1>3, <1>4, <1>5 DEF Step, Moves

\* It leaves the loop that waits for the release only when the key is gone.
LEMMA Leaves ==
  ASSUME GameTypes, Step, pc = "release", pc' # "release"
  PROVE  getUserPress(btn_key_r) = 0
<1>1. ~Waits
  BY DEF Waits
<1>2. Release
  BY <1>1 DEF Step, Moves, Idle, Pattern, Light, Dark, Press, Flash, displayScore
<1> QED BY <1>2 DEF Release, Released, Goto

\* It is in that loop only if it has entered a press.
LEMMA Comes ==
  ASSUME GameTypes, Step, pc # "release", pc' = "release"
  PROVE  Len(presses') > Len(presses)
<1>1. ~Waits
  BY DEF Waits
<1>2. Press
  BY <1>1 DEF Step, Moves, Idle, Pattern, Light, Dark, Release, Flash, displayScore, Goto
<1>3. getUserPress(btn_key_r) # 0
  BY <1>2 DEF Press, Goto
<1>4. presses' = Append(presses, pushed)
  BY <1>2, <1>3 DEF Press
<1> QED BY <1>4 DEF GameTypes

\* A press is entered while it is fresh.
LEMMA Freshly ==
  ASSUME KeyInv, GameTypes, Entered, Step, Len(presses') > Len(presses)
  PROVE  fresh
<1>1. pc = "press" /\ getUserPress(btn_key_r) # 0
  BY Enters
<1>2. ~fresh => btn_key_r = None
  BY <1>1 DEF Entered, Over
<1> QED BY <1>1, <1>2 DEF getUserPress

LEMMA EnteredKeeps ==
  ASSUME KeyInv, GameTypes, Entered, ScanEdge, Finger, Step, Freshness
  PROVE  Entered'
<1> SUFFICES ASSUME ~fresh' PROVE Entered'
  BY DEF Entered
<1>1. Seen
  BY Edges
<1>2. /\ btn_key_r \in {None, pushed} /\ pushed \in Key \cup {None}
      /\ (pushed = None => ~down) /\ down \in BOOLEAN /\ down' \in BOOLEAN
      /\ fresh \in BOOLEAN /\ Len(presses) \in Nat
      /\ \A k \in Key : k # None
  BY Keys, Fingers DEF KeyInv, KeyTypes, GameTypes
<1>3. ~(down' /\ ~down) /\ (fresh => ~(Len(presses') <= Len(presses)))
  BY DEF Freshness
<1>4. CASE fresh
  <2>1. Len(presses') > Len(presses)
    <3>1. Len(presses') \in Nat
      <4>1. CASE Waits \/ Idle \/ Pattern \/ Light \/ Release \/ Flash \/ displayScore
        BY <1>2, <4>1 DEF Waits, Idle, Pattern, Light, Release, Flash, displayScore
      <4>2. CASE Dark
        BY <4>2 DEF Dark
      <4>3. CASE Press
        BY <1>2, <1>3, <1>4, <4>3, Buttons DEF Press, GameTypes
      <4> QED BY <4>1, <4>2, <4>3 DEF Step, Moves
    <3> QED BY <1>2, <1>3, <1>4, <3>1
  <2>2. pc' = "release" /\ btn_key_r = pushed /\ pushed \in Key /\ pushed[1] = 3
    BY <2>1, Enters, Buttons
  <2> QED BY <1>1, <1>2, <1>3, <2>2 DEF Seen, Entered, Over
<1>5. CASE ~fresh
  <2>1. /\ pushed = None \/ pushed[1] = 3
        /\ btn_key_r = pushed \/ Over
        /\ pc # "release" => Over
    BY <1>5 DEF Entered
  <2>2. pushed' = pushed
    BY <1>1, <1>3 DEF Seen
  <2>3. Over => Over'
    BY <1>1, <1>3 DEF Seen, Over
  <2>4. btn_key_r = pushed => btn_key_r' = pushed' \/ Over'
    BY <1>1, <1>3, <2>2 DEF Seen, Over
  <2>5. pc' # "release" => Over'
    <3>1. CASE pc # "release"
      BY <2>1, <2>3, <3>1
    <3>2. ASSUME pc = "release", pc' # "release" PROVE Over'
      <4>1. getUserPress(btn_key_r) = 0
        BY <3>2, Leaves
      <4>2. btn_key_r = None \/ Over
        BY <1>2, <2>1, <4>1, Buttons
      <4>3. Over
        BY <1>2, <2>1, <4>2 DEF Over
      <4> QED BY <2>3, <4>3
    <3> QED BY <3>1, <3>2
  <2> QED BY <2>1, <2>2, <2>3, <2>4, <2>5 DEF Entered
<1> QED BY <1>2, <1>4, <1>5

-----------------------------------------------------------------------------
\* The round.
\* With every key given, the score counts what was answered.
LEMMA Scores ==
  ASSUME Kept, Given = NumLights, GameTypes
  PROVE  Right = Cardinality(Answered)
<1>1. \A k \in 1 .. NumLights : keys[k] = getUserPress(presses[k]) /\ keys[k] # 0
  BY DEF Kept
<1>2. \A k \in 1 .. NumLights :
        pattern[k] = keys[k] <=> presses[k][1] = 3 /\ pattern[k] = Bit(3 - presses[k][2])
  BY <1>1 DEF getUserPress
<1>3. Answered = {k \in 1 .. NumLights : pattern[k] = keys[k]}
  BY <1>2 DEF Answered
<1> QED BY <1>3 DEF Right

LEMMA RoundWaits ==
  ASSUME RoundInv, Waits, fresh' \in BOOLEAN
  PROVE  RoundInv'
<1>1. /\ UNCHANGED <<pc, i, pattern, keys, led, num, rg, presses>> /\ wait' \in Nat
  BY DEF Waits, RoundInv, GameTypes
<1>2. Given' = Given
  BY <1>1 DEF Given
<1>3. Kept' <=> Kept
  BY <1>1, <1>2 DEF Kept
<1>4. Answered' = Answered
  BY <1>1 DEF Answered
<1>5. Shown'
  BY <1>1, <1>4 DEF RoundInv, Shown, Scored
<1> QED BY <1>1, <1>3, <1>5 DEF RoundInv, GameTypes

LEMMA RoundMoves ==
  ASSUME KeyInv, RoundInv, Moves, fresh' \in BOOLEAN
  PROVE  RoundInv'
<1>1. /\ NumLights \in Nat \ {0} /\ Poll \in Nat /\ Long \in Nat
      /\ GameTypes /\ Shown
  BY GameAssumption DEF RoundInv
<1>2. CASE Idle
  <2>1. CASE getUserPress(btn_key_r) = 0
    <3>1. UNCHANGED <<pc, i, pattern, keys, led, num, rg, presses>> /\ wait' = Poll
      BY <1>2, <2>1 DEF Idle, Goto
    <3>2. Given' = Given
      BY <3>1 DEF Given
    <3>3. Kept' <=> Kept
      BY <3>1, <3>2 DEF Kept
    <3>4. Answered' = Answered
      BY <3>1 DEF Answered
    <3>5. Shown'
      BY <1>1, <3>1, <3>4 DEF Shown, Scored
    <3> QED BY <1>1, <3>1, <3>3, <3>5 DEF RoundInv, GameTypes
  <2>2. CASE getUserPress(btn_key_r) # 0
    <3>1. UNCHANGED <<i, keys, presses>> /\ wait' = 1 /\ pc' = "pattern"
      BY <1>2, <2>2 DEF Idle, Goto
    <3> QED BY <1>1, <3>1 DEF RoundInv, GameTypes, Shown, Scored
  <2> QED BY <2>1, <2>2
<1>3. CASE Pattern
  <2>1. UNCHANGED <<keys, presses>> /\ wait' = Long /\ pc' = "light" /\ i' = 0
    BY <1>3 DEF Pattern, Goto
  <2> QED BY <1>1, <2>1 DEF RoundInv, GameTypes, Shown, Scored
<1>4. CASE Light
  <2>1. UNCHANGED <<i, keys, presses>> /\ wait' = Long /\ pc' = "dark"
    BY <1>4 DEF Light, Goto
  <2> QED BY <1>1, <2>1 DEF RoundInv, GameTypes, Shown, Scored
<1>5. CASE Dark
  <2>1. keys' = keys /\ presses' = <<>> /\ wait' = Long
    BY <1>5 DEF Dark, Goto
  <2>2. \/ pc' = "light" /\ i' \in 0 .. NumLights - 1
        \/ pc' = "press" /\ i' = 0
    BY <1>1, <1>5 DEF Dark, Goto, GameTypes
  <2>3. presses' \in Seq(Key) /\ Len(presses') = 0
    BY <2>1
  <2>4. pc' = "press" => Given' = 0
    BY <2>2 DEF Given
  <2>5. pc' = "press" => Kept'
    BY <2>3, <2>4 DEF Kept
  <2> QED BY <1>1, <2>1, <2>2, <2>3, <2>5 DEF RoundInv, GameTypes, Shown, Scored
<1>6. CASE Press
  <2>1. pc = "press" /\ Kept /\ Given = i /\ i' = i /\ i \in Nat
    BY <1>6 DEF Press, RoundInv, Given, GameTypes
  <2>2. CASE getUserPress(btn_key_r) = 0
    <3>1. UNCHANGED <<pc, i, keys, presses>> /\ wait' = Poll
      BY <1>6, <2>2 DEF Press, Goto
    <3>2. Given' = Given
      BY <3>1 DEF Given
    <3>3. Kept'
      BY <2>1, <3>1, <3>2 DEF Kept
    <3> QED BY <1>1, <2>1, <3>1, <3>3 DEF RoundInv, GameTypes, Shown, Scored
  <2>3. CASE getUserPress(btn_key_r) # 0
    <3> DEFINE pb == getUserPress(btn_key_r)
    <3>1. /\ keys' = [keys EXCEPT ![i + 1] = pb] /\ presses' = Append(presses, pushed)
          /\ pc' = "release" /\ wait' = Long
      BY <1>6, <2>3 DEF Press, Goto
    <3>2. pb \in Nat /\ pb = getUserPress(pushed) /\ pushed \in Key
      BY <2>3, Buttons
    <3> HIDE DEF pb
    <3>3. /\ keys' \in [1 .. NumLights -> Nat] /\ i + 1 \in 1 .. NumLights
          /\ keys'[i + 1] = pb
          /\ \A k \in 1 .. i : keys'[k] = keys[k]
      BY <1>1, <2>1, <3>1, <3>2 DEF GameTypes
    <3>4. /\ presses' \in Seq(Key) /\ Len(presses') = i + 1 /\ presses'[i + 1] = pushed
          /\ \A k \in 1 .. i : presses'[k] = presses[k]
      BY <1>1, <2>1, <3>1, <3>2 DEF GameTypes, Kept
    <3>5. Given' = i + 1
      BY <2>1, <3>1 DEF Given
    <3>6. ASSUME NEW k \in 1 .. i + 1
          PROVE  keys'[k] = getUserPress(presses'[k]) /\ keys'[k] # 0
      <4>1. CASE k = i + 1
        BY <2>3, <3>2, <3>3, <3>4, <4>1 DEF pb
      <4>2. CASE k \in 1 .. i
        BY <2>1, <3>3, <3>4, <4>2 DEF Kept
      <4> QED BY <2>1, <4>1, <4>2
    <3>7. Kept'
      BY <3>4, <3>5, <3>6 DEF Kept, getUserPress
    <3> QED BY <1>1, <2>1, <3>1, <3>3, <3>4, <3>7 DEF RoundInv, GameTypes, Shown, Scored
  <2> QED BY <2>2, <2>3
<1>7. CASE Release
  <2>1. /\ pc = "release" /\ Kept /\ Given = i + 1 /\ i \in 0 .. NumLights - 1
        /\ UNCHANGED <<keys, presses>>
    BY <1>7 DEF Release, RoundInv, Given, GameTypes
  <2>2. wait' \in Nat /\ i' \in 0 .. NumLights - 1
    BY <1>1, <1>7, <2>1 DEF Release, Goto, GameTypes
  <2>3. CASE ~Released(btn_key_r)
    <3>1. pc' = "release" /\ i' = i
      BY <1>7, <2>1, <2>3 DEF Release, Goto
    <3>2. Given' = Given
      BY <2>1, <3>1 DEF Given
    <3>3. Kept'
      BY <2>1, <3>2 DEF Kept
    <3> QED BY <1>1, <2>1, <2>2, <3>1, <3>3 DEF RoundInv, GameTypes, Shown, Scored
  <2>4. CASE Released(btn_key_r) /\ i + 1 < NumLights
    <3>1. pc' = "press" /\ i' = i + 1
      BY <1>7, <2>1, <2>4 DEF Release, Goto
    <3>2. Given' = Given
      BY <2>1, <3>1 DEF Given
    <3>3. Kept'
      BY <2>1, <3>2 DEF Kept
    <3> QED BY <1>1, <2>1, <2>2, <3>1, <3>3 DEF RoundInv, GameTypes, Shown, Scored
  <2>5. CASE Released(btn_key_r) /\ ~(i + 1 < NumLights)
    <3>1. pc' = "all" /\ i + 1 = NumLights
      BY <1>1, <1>7, <2>1, <2>5 DEF Release, Goto
    <3>2. num' = [count |-> NumLights, score |-> {}]
      BY <1>7, <2>5, <3>1 DEF Release, Counted
    <3>3. Given' = Given
      BY <2>1, <3>1 DEF Given
    <3>4. Kept'
      BY <2>1, <3>3 DEF Kept
    <3> QED BY <1>1, <2>1, <2>2, <3>1, <3>2, <3>4 DEF RoundInv, GameTypes, Shown, Scored
  <2> QED BY <2>3, <2>4, <2>5
<1>8. CASE Flash
  <2>1. /\ pc = "all" /\ pc' = "score" /\ wait' = Long /\ Kept
        /\ UNCHANGED <<i, pattern, keys, num, rg, presses>>
    BY <1>8 DEF Flash, Goto, RoundInv
  <2>2. Given' = Given
    BY <2>1 DEF Given
  <2>3. Kept'
    BY <2>1, <2>2 DEF Kept
  <2> QED BY <1>1, <2>1, <2>3 DEF RoundInv, GameTypes, Shown, Scored
<1>9. CASE displayScore
  <2>1. /\ pc = "score" /\ pc' = "start" /\ wait' = 1 /\ Kept
        /\ UNCHANGED <<i, pattern, keys, presses>>
        /\ num = [count |-> NumLights, score |-> {}]
        /\ num' = [num EXCEPT !.score = @ \cup Bits(Right)]
        /\ rg' = <<1, IF Right = NumLights THEN 1 ELSE 2>>
    BY <1>1, <1>9 DEF displayScore, Goto, RoundInv, Shown
  <2>2. Given = NumLights /\ Given' = NumLights
    BY <2>1 DEF Given
  <2>3. Kept'
    BY <2>1, <2>2 DEF Kept
  <2>4. Right = Cardinality(Answered)
    BY <1>1, <2>1, <2>2, Scores
  <2>5. Answered' = Answered
    BY <2>1 DEF Answered
  <2>6. num' = [count |-> NumLights, score |-> Bits(Right)]
    BY <2>1
  <2>7. rg'[2] = 1 <=> Right = NumLights
    BY <2>1
  <2>8. Scored'
    BY <2>4, <2>5, <2>6, <2>7 DEF Scored
  <2> QED BY <1>1, <2>1, <2>3, <2>8 DEF RoundInv, GameTypes, Shown
<1> QED BY <1>2, <1>3, <1>4, <1>5, <1>6, <1>7, <1>8, <1>9 DEF Moves

-----------------------------------------------------------------------------
LEMMA InitIInv == Init => IInv
<1> SUFFICES ASSUME Init PROVE IInv
  OBVIOUS
<1>1. /\ pushed = None /\ down = FALSE /\ since = Rest /\ contact = FALSE
      /\ state = Wait /\ state_count = 0 /\ key_flag = FALSE /\ key_count = 0
      /\ btn_key_r = None
  BY DEF Init, FingerInit, ScanInit
<1>2. KeyInv
  <2>1. since > Bounce /\ since \in Nat /\ 0 \in 0 .. Scan
    BY <1>1, Times
  <2>2. KeyTypes
    BY <1>1, <2>1 DEF KeyTypes
  <2>3. Steady
    BY <1>1 DEF Steady
  <2>4. Lifted
    BY <1>1, <2>1 DEF Lifted, Wait, Found
  <2> QED BY <1>1, <2>2, <2>3, <2>4 DEF KeyInv
<1>3. /\ pc = "start" /\ wait = 0 /\ i = 0 /\ rg = <<0, 0>>
      /\ keys = [k \in 1 .. NumLights |-> 0] /\ presses = <<>> /\ fresh = FALSE
  BY DEF Init, GameInit
<1>4. Entered
  BY <1>1, <1>3 DEF Entered, Over
<1>5. GameTypes
  <2>1. presses \in Seq(Key)
    BY <1>3
  <2>2. i \in 0 .. NumLights - 1
    BY <1>3, GameAssumption
  <2> QED BY <1>3, <2>1, <2>2 DEF GameTypes
<1>6. RoundInv
  BY <1>3, <1>5 DEF RoundInv, Shown, Scored
<1> QED BY <1>2, <1>4, <1>6 DEF IInv

\* The invariant of an edge, and what each of them does.
LEMMA NextIInv ==
  ASSUME IInv, [Next]_vars
  PROVE  /\ IInv' /\ [Pad!Next]_(Pad!padVars)
         /\ [Len(presses') > Len(presses) => fresh]_vars
<1>1. KeyInv /\ Entered /\ RoundInv /\ GameTypes
  BY DEF IInv, RoundInv
<1>2. CASE Next
  <2>1. ScanEdge /\ Finger /\ Step /\ Freshness
    BY <1>2 DEF Next, Step
  <2>2. KeyInv' /\ Seen
    BY <1>1, <2>1, Edges
  <2>3. Entered'
    BY <1>1, <2>1, EnteredKeeps
  <2>4. fresh' \in BOOLEAN
    BY <2>1, Zenon DEF Freshness
  <2>5. RoundInv'
    BY <1>1, <2>1, <2>4, RoundWaits, RoundMoves DEF Step
  <2>6. [Pad!Next]_(Pad!padVars)
    BY <1>1, <2>2, Pads DEF KeyInv, KeyTypes
  <2>7. Len(presses') > Len(presses) => fresh
    BY <1>1, <2>1, Freshly
  <2> QED BY <2>2, <2>3, <2>5, <2>6, <2>7 DEF IInv
<1>3. CASE UNCHANGED vars
  <2>1. UNCHANGED <<pushed, down, since, contact>>
        /\ UNCHANGED <<state, state_count, key_flag, key_count, btn_key_r>>
        /\ UNCHANGED <<pc, wait, i, pattern, keys, led, num, rg, presses, fresh>>
    BY <1>3 DEF vars, keyVars, finger, scanVars, progVars
  <2>2. KeyInv'
    BY <1>1, <2>1 DEF KeyInv, KeyTypes, Steady, Pressed, Lifted, Counting, Column
  <2>3. Entered'
    BY <1>1, <2>1 DEF Entered, Over
  <2>4. Given' = Given /\ Answered' = Answered
    BY <2>1 DEF Given, Answered
  <2>5. Kept' <=> Kept
    BY <2>1, <2>4 DEF Kept
  <2>6. RoundInv'
    BY <1>1, <2>1, <2>4, <2>5 DEF RoundInv, GameTypes, Shown, Scored
  <2>7. UNCHANGED Pad!padVars
    BY <2>1 DEF Pad!padVars
  <2> QED BY <1>3, <2>2, <2>3, <2>6, <2>7 DEF IInv
<1> QED BY <1>2, <1>3

LEMMA Invariance == Spec => []IInv
<1>1. IInv /\ [Next]_vars => IInv'
  BY NextIInv
<1> QED BY InitIInv, <1>1, PTL DEF Spec

\* The register shows every press once and nothing of the bouncing: confreg's
\* scanner implements what a program may expect of the keyboard, the safety part
\* of ShownOnce (confreg.v:360-405).
THEOREM PressesAreShown == Spec => Pad!SafeSpec
<1>1. Init => Pad!Init
  BY DEF Init, FingerInit, ScanInit, Pad!Init
<1>2. IInv /\ [Next]_vars => [Pad!Next]_(Pad!padVars)
  BY NextIInv
<1> QED BY <1>1, <1>2, Invariance, PTL DEF Spec, Pad!SafeSpec

\* A press is entered once, however long it lasts and however often the register
\* is polled while it does (memory_main.c:121-131).
THEOREM PressesAreEntered == Spec => EachPressOnce
<1>1. IInv /\ [Next]_vars => [Len(presses') > Len(presses) => fresh]_vars
  BY NextIInv
<1> QED BY <1>1, Invariance, PTL DEF Spec, EachPressOnce

\* The score is that of the round, for any number of lights
\* (memory_main.c:138-150).
THEOREM RoundsAreScored == Spec => []Scored
<1>1. IInv => Scored
  BY DEF IInv, RoundInv, Shown
<1> QED BY <1>1, Invariance, PTL
=============================================================================
