---------------------------- MODULE TimerProofs ----------------------------
(***************************************************************************)
(* The handshake of the timer, for every width of the counter and for      *)
(* edges of the two clocks in any order: ConfTypeOK and Handshake are      *)
(* together inductive, and under them each edge is a step of the abstract  *)
(* register or leaves it alone.  Then the program on it, for every pace    *)
(* that DelayAssumption allows: its store comes when the last one has      *)
(* crossed, and its tests see a count of after the store.                  *)
(***************************************************************************)
EXTENDS DelayLoop, TLAPS

IInv == ConfTypeOK /\ Handshake

\* Edges of the two clocks with a bus that writes only when all is quiet.
LEMMA PatientCases ==
  ASSUME PatientNext
  PROVE \/ Tim
        \/ \E bus \in Bus : /\ write_timer(bus) => Quiet
                            /\ Clk(bus) \/ Both(bus)
  BY DEF PatientNext

LEMMA InitIInv ==
  ASSUME ConfInit
  PROVE IInv
<1>1. 0 \in Word
  BY TimerAssumption DEF Word
<1>2. ConfTypeOK
  BY <1>1 DEF ConfInit, ConfTypeOK
<1>3. Handshake
  BY DEF ConfInit, Handshake
<1> QED BY <1>2, <1>3 DEF IInv

LEMMA CountIsWord ==
  ASSUME timer \in Word
  PROVE Count \in Word
  BY TimerAssumption DEF Word, Count

LEMMA TimKeeps ==
  ASSUME IInv, Tim
  PROVE IInv'
<1> USE DEF IInv, Tim, TimerEdge, clkVars
<1>1. ConfTypeOK'
  BY CountIsWord DEF ConfTypeOK
<1>2. Handshake'
  BY DEF Handshake, ConfTypeOK
<1> QED BY <1>1, <1>2

LEMMA ClkKeeps ==
  ASSUME IInv, NEW bus \in Bus, write_timer(bus) => Quiet, Clk(bus)
  PROVE IInv'
<1> USE DEF IInv, Clk, ClkEdge, timerVars
<1>1. ConfTypeOK'
  BY DEF ConfTypeOK, NextBegin, NextRdata, write_timer, Bus
<1>2. Handshake'
  BY DEF Handshake, ConfTypeOK, NextBegin, Quiet, write_timer, Bus
<1> QED BY <1>1, <1>2

LEMMA BothKeeps ==
  ASSUME IInv, NEW bus \in Bus, write_timer(bus) => Quiet, Both(bus)
  PROVE IInv'
<1> USE DEF IInv, Both, ClkEdge, TimerEdge
<1>1. ConfTypeOK'
  BY CountIsWord DEF ConfTypeOK, NextBegin, NextRdata, write_timer, Bus
<1>2. Handshake'
  BY DEF Handshake, ConfTypeOK, NextBegin, Quiet, write_timer, Bus
<1> QED BY <1>1, <1>2

LEMMA StepKeeps ==
  ASSUME IInv, [PatientNext]_confVars
  PROVE IInv'
<1>1. CASE Tim
  BY <1>1, TimKeeps
<1>2. CASE \E bus \in Bus : /\ write_timer(bus) => Quiet
                            /\ Clk(bus) \/ Both(bus)
  BY <1>2, ClkKeeps, BothKeeps
<1>3. CASE UNCHANGED confVars
  BY <1>3 DEF IInv, confVars, clkVars, timerVars, ConfTypeOK, Handshake
<1> QED BY <1>1, <1>2, <1>3, PatientCases

(* The registers of the timer keep their widths, however the edges of the   *)
(* two clocks of confreg.v:192-247 fall.                                    *)
THEOREM TimerTypes == PatientSpec => []ConfTypeOK
<1>1. ConfInit => IInv
  BY InitIInv
<1>2. IInv /\ [PatientNext]_confVars => IInv'
  BY StepKeeps
<1>3. IInv => ConfTypeOK
  BY DEF IInv
<1> QED BY <1>1, <1>2, <1>3, PTL DEF PatientSpec

(* The request, its acknowledgement and the word beside them cross the two  *)
(* clocks of confreg.v:192-242 in order, whatever the edges' order.         *)
THEOREM HandshakeHolds == PatientSpec => []Handshake
<1>1. ConfInit => IInv
  BY InitIInv
<1>2. IInv /\ [PatientNext]_confVars => IInv'
  BY StepKeeps
<1>3. IInv => Handshake
  BY DEF IInv
<1> QED BY <1>1, <1>2, <1>3, PTL DEF PatientSpec

-----------------------------------------------------------------------------
\* A word on its way is one of the words, and stays the word that was written.
LEMMA EdgeOfTimer ==
  ASSUME IInv, TimerEdge, UNCHANGED <<write_timer_begin, conf_wdata_r>>
  PROVE [Reg!Next]_<<timer, pending>>
<1> USE DEF IInv, ConfTypeOK, Handshake, TimerEdge
<1>1. CASE LoadTimer
  <2>1. pending = {conf_wdata_r2}
    BY <1>1 DEF LoadTimer, pending
  <2>2. timer' = conf_wdata_r2 /\ pending' = {}
    BY <1>1 DEF LoadTimer, pending
  <2> QED BY <2>1, <2>2 DEF Reg!Next, Reg!Load
<1>2. CASE ~LoadTimer
  <2>1. timer' = (timer + 1) % Mod
    BY <1>2 DEF Count
  <2>2. pending' = pending
    BY <1>2 DEF LoadTimer, pending
  <2> QED BY <2>1, <2>2 DEF Reg!Next, Reg!Tick, Reg!Count
<1> QED BY <1>1, <1>2

LEMMA EdgeOfClk ==
  ASSUME IInv, NEW bus \in Bus, write_timer(bus) => Quiet, Clk(bus)
  PROVE [Reg!Next]_<<timer, pending>>
<1> USE DEF IInv, ConfTypeOK, Handshake, Clk, ClkEdge, timerVars
<1>1. CASE write_timer(bus)
  <2>1. pending = {} /\ pending' = {bus.conf_wdata} /\ timer' = timer
    BY <1>1 DEF Quiet, pending, NextBegin
  <2>2. bus.conf_wdata \in 0 .. Mod - 1
    BY DEF Bus, Word
  <2> QED BY <2>1, <2>2 DEF Reg!Next, Reg!Write
<1>2. CASE ~write_timer(bus)
  <2>1. pending' = pending /\ timer' = timer
    BY <1>2 DEF pending, NextBegin
  <2> QED BY <2>1
<1> QED BY <1>1, <1>2

LEMMA EdgeOfBoth ==
  ASSUME IInv, NEW bus \in Bus, write_timer(bus) => Quiet, Both(bus)
  PROVE [Reg!Next]_<<timer, pending>>
<1> USE DEF IInv, ConfTypeOK, Handshake, Both, ClkEdge, TimerEdge
<1>1. CASE write_timer(bus)
  <2>1. pending = {} /\ pending' = {bus.conf_wdata}
    BY <1>1 DEF Quiet, pending, NextBegin
  <2>2. timer' = (timer + 1) % Mod
    BY <1>1 DEF Quiet, LoadTimer, Count
  <2>3. bus.conf_wdata \in 0 .. Mod - 1
    BY DEF Bus, Word
  <2> QED BY <2>1, <2>2, <2>3 DEF Reg!Next, Reg!Write, Reg!Count
<1>2. CASE ~write_timer(bus) /\ LoadTimer
  <2>1. pending = {conf_wdata_r2}
    BY <1>2 DEF LoadTimer, pending
  <2>2. timer' = conf_wdata_r2 /\ pending' = {}
    BY <1>2 DEF LoadTimer, pending
  <2> QED BY <2>1, <2>2 DEF Reg!Next, Reg!Load
<1>3. CASE ~write_timer(bus) /\ ~LoadTimer
  <2>1. timer' = (timer + 1) % Mod
    BY <1>3 DEF Count
  <2>2. pending' = pending
    BY <1>3 DEF LoadTimer, pending, NextBegin
  <2> QED BY <2>1, <2>2 DEF Reg!Next, Reg!Tick, Reg!Count
<1> QED BY <1>1, <1>2, <1>3

LEMMA StepRefines ==
  ASSUME IInv, [PatientNext]_confVars
  PROVE [Reg!Next]_<<timer, pending>>
<1>1. CASE Tim
  BY <1>1, EdgeOfTimer DEF Tim, clkVars
<1>2. CASE \E bus \in Bus : /\ write_timer(bus) => Quiet
                            /\ Clk(bus) \/ Both(bus)
  BY <1>2, EdgeOfClk, EdgeOfBoth
<1>3. CASE UNCHANGED confVars
  BY <1>3 DEF confVars, clkVars, timerVars, pending
<1> QED BY <1>1, <1>2, <1>3, PatientCases

(* Both clocks together implement one register that takes over each word   *)
(* written to it once: no write is lost, torn or loaded twice when none    *)
(* comes before the last has been acknowledged (confreg.v:192-247).        *)
THEOREM TimerIsRegister == PatientSpec => Reg!SafeSpec
<1>1. ConfInit => IInv
  BY InitIInv
<1>2. IInv /\ [PatientNext]_confVars => IInv'
  BY StepKeeps
<1>3. ConfInit => Reg!Init
  BY DEF ConfInit, Reg!Init, pending
<1>4. IInv /\ [PatientNext]_confVars => [Reg!Next]_<<timer, pending>>
  BY StepRefines
<1> QED BY <1>1, <1>2, <1>3, <1>4, PTL DEF PatientSpec, Reg!SafeSpec, Reg!regVars

-----------------------------------------------------------------------------
\* The bus cycles of the program are bus cycles, and only StartDelay writes.
LEMMA ProgramCycles ==
  /\ Idle \in Bus /\ ~write_timer(Idle)
  /\ Read \in Bus /\ ~write_timer(Read)
  /\ Store(0) \in Bus
<1>1. 0 \in Word
  BY TimerAssumption DEF Word
<1> QED BY <1>1 DEF Bus, Idle, Read, Store, write_timer

LEMMA ProgramStep ==
  ASSUME [Next]_loopVars, [StartDelay => Quiet]_loopVars
  PROVE [PatientNext]_confVars
<1>1. CASE Between
  BY <1>1 DEF Between, PatientNext
<1>2. CASE StartDelay
  <2>1. Quiet \/ UNCHANGED confVars
    BY <1>2 DEF loopVars
  <2> QED BY <1>2, <2>1, ProgramCycles DEF StartDelay, Aligned, PatientNext
<1>3. CASE Play \/ Compute \/ Again \/ Return
  BY <1>3, ProgramCycles
     DEF Play, Compute, Again, Return, Aligned, PatientNext
<1>4. CASE Poll
  BY <1>4, ProgramCycles DEF Poll, Aligned, PatientNext
<1>5. CASE UNCHANGED loopVars
  BY <1>5 DEF loopVars
<1> QED BY <1>1, <1>2, <1>3, <1>4, <1>5 DEF Next

\* A program whose writes wait uses the two-clock timer as one register.
LEMMA WaitingProgram == Spec /\ WritesWait => []Handshake /\ Reg!SafeSpec
<1>1. Init => ConfInit
  BY DEF Init
<1>2. [Next]_loopVars /\ [StartDelay => Quiet]_loopVars
        => [PatientNext]_confVars
  BY ProgramStep
<1>3. PatientSpec => []Handshake /\ Reg!SafeSpec
  BY TimerIsRegister, HandshakeHolds
<1> QED BY <1>1, <1>2, <1>3, PTL DEF Spec, WritesWait, PatientSpec

-----------------------------------------------------------------------------
(* The program on the timer.  A handshake makes a step at least at every     *)
(* edge of clk, so where the program is says how far it must have come.      *)

\* n edges of clk after a store, or with none under way.
Settled(n) ==
  /\ write_timer_begin =>
       /\ n = 0 /\ beat >= 1 => write_timer_begin_r1
       /\ n >= 1 => write_timer_begin_r1 /\ write_timer_begin_r2
       /\ n >= 2 => write_timer_end_r1
       /\ n >= 3 => write_timer_end_r2
       /\ n < 4
  /\ ~write_timer_begin =>
       /\ n = 4 /\ beat >= 1 => ~write_timer_begin_r1
       /\ n >= 5 => ~write_timer_begin_r1 /\ ~write_timer_begin_r2
       /\ n = 5 /\ beat >= 1 => ~write_timer_begin_r3
       /\ n >= 6 => ~write_timer_begin_r3 /\ ~write_timer_end_r1
       /\ n >= 7 => ~write_timer_end_r2

\* And what the timer and its copies have counted since the store of 0.
Cleared(n) ==
  /\ 2 * n + beat <= elapsed
  /\ conf_wdata_r = 0
  /\ elapsed < 3 => /\ write_timer_begin /\ ~write_timer_begin_r3
                    /\ ~write_timer_end_r1 /\ ~write_timer_end_r2
                    /\ elapsed = 0 => ~write_timer_begin_r1
                    /\ elapsed < 2 => ~write_timer_begin_r2
                    /\ elapsed >= 1 => write_timer_begin_r1
                    /\ elapsed >= 2 => write_timer_begin_r2
  /\ elapsed >= 1 => conf_wdata_r1 = 0
  /\ elapsed >= 2 => conf_wdata_r2 = 0
  /\ elapsed >= 3 => timer <= elapsed
  /\ n >= 2 => timer_r1 <= elapsed
  /\ n >= 3 => timer_r2 <= elapsed

Since(n) == Settled(n) /\ (elapsed < Limit => Cleared(n))

LoopTypes ==
  /\ beat \in 0 .. TimerPerClk - 1 /\ wait \in Nat /\ elapsed \in Nat
  /\ elapsed <= Limit /\ pc \in {"game", "poll", "test"}
\* Where the program is says how long ago the store was.
Paced ==
  /\ pc = "game" => wait <= Pause /\ Settled(FirstRead + 1 + Pause - wait)
  /\ pc = "poll" => \/ Since(FirstRead)
                    \/ wait < FirstRead /\ Since(FirstRead - 1 - wait)
  /\ pc = "test" => /\ Since(FirstRead)
                    /\ elapsed < Limit => conf_rdata <= elapsed
LoopInv == LoopTypes /\ Paced

LEMMA Delays ==
  /\ TimerPerClk \in Nat /\ FirstRead \in Nat /\ Pause \in Nat /\ Limit \in Nat
  /\ PollGaps \subseteq Nat /\ TimerPerClk >= 2 /\ FirstRead >= 4 /\ Pause >= 2
  BY DelayAssumption

\* Time only adds to what is settled.
LEMMA SettledLess == \A n \in Nat : Settled(n + 1) => Settled(n)
  BY DEF Settled
LEMMA SinceLess ==
  ASSUME LoopTypes, NEW n \in Nat, Since(n + 1)
  PROVE  Since(n)
<1>1. Settled(n)
  BY SettledLess DEF Since
<1>2. elapsed < Limit => Cleared(n)
  BY Delays DEF Since, Cleared, LoopTypes
<1> QED BY <1>1, <1>2 DEF Since

LEMMA SinceLessAll == LoopTypes => \A n \in Nat : Since(n + 1) => Since(n)
  BY SinceLess
LEMMA SinceLessNext == LoopTypes' => \A n \in Nat : Since(n + 1)' => Since(n)'
<1>1. (LoopTypes => \A n \in Nat : Since(n + 1) => Since(n))'
  BY SinceLessAll, PTL
<1> QED BY <1>1

\* An edge of timer_clk alone.
LEMMA TimSettles ==
  ASSUME ConfTypeOK, LoopTypes, Between, NEW n \in Nat, Settled(n)
  PROVE  Settled(n)'
  BY DEF Settled, Between, Tim, TimerEdge, clkVars, ConfTypeOK, LoopTypes

LEMMA TimClears ==
  ASSUME ConfTypeOK, LoopTypes, Between, NEW n \in Nat, Since(n)
  PROVE  Since(n)'
<1>1. Settled(n)'
  BY TimSettles DEF Since
<1>2. ASSUME elapsed' < Limit PROVE Cleared(n)'
  <2>1. elapsed' = elapsed + 1 /\ elapsed < Limit /\ beat' = beat + 1
    BY <1>2, Delays DEF Between, Capped, LoopTypes
  <2>2. Cleared(n)
    BY <2>1 DEF Since
  <2>3. timer \in Nat /\ Count \in Nat /\ Count <= timer + 1
    BY TimerAssumption DEF ConfTypeOK, Word, Count
  <2> QED BY <2>1, <2>2, <2>3, Delays
          DEF Cleared, Between, Tim, TimerEdge, clkVars, LoadTimer, LoopTypes, ConfTypeOK
<1> QED BY <1>1, <1>2 DEF Since

\* An edge of both clocks without a store.
LEMMA BothSettles ==
  ASSUME ConfTypeOK, LoopTypes, NEW bus, Aligned(bus), ~write_timer(bus),
         NEW n \in Nat, Settled(n)
  PROVE  Settled(n + 1)'
<1>1. beat >= 1 /\ beat' = 0
  BY Delays DEF Aligned
<1> QED BY <1>1 DEF Settled, Aligned, Both, ClkEdge, TimerEdge, NextBegin, ConfTypeOK

LEMMA BothClears ==
  ASSUME ConfTypeOK, LoopTypes, NEW bus, Aligned(bus), ~write_timer(bus), Passes,
         NEW n \in Nat, Since(n)
  PROVE  Since(n + 1)'
<1>1. Settled(n + 1)'
  BY BothSettles DEF Since
<1>2. ASSUME elapsed' < Limit PROVE Cleared(n + 1)'
  <2>1. elapsed' = elapsed + 1 /\ elapsed < Limit /\ beat >= 1 /\ beat' = 0
    BY <1>2, Delays DEF Passes, Aligned, Capped, LoopTypes
  <2>2. Cleared(n)
    BY <2>1 DEF Since
  <2>3. timer \in Nat /\ Count \in Nat /\ Count <= timer + 1
    BY TimerAssumption DEF ConfTypeOK, Word, Count
  <2>4. elapsed \in Nat /\ (n >= 1 => elapsed >= 3)
    BY <2>1, <2>2 DEF Cleared, LoopTypes
  <2> QED BY <2>1, <2>2, <2>3, <2>4
          DEF Cleared, Aligned, Both, ClkEdge, TimerEdge, NextBegin, LoadTimer, ConfTypeOK
<1> QED BY <1>1, <1>2 DEF Since

\* The store itself, when all is quiet.
LEMMA StoreStarts ==
  ASSUME StartDelay, Quiet
  PROVE  Since(0)'
  BY DEF StartDelay, Quiet, Since, Settled, Cleared, Aligned, Both, ClkEdge, TimerEdge,
         NextBegin, Store, write_timer

\* A store meets a handshake that is over, and a test the count it asked for.
LEMMA Waits ==
  ASSUME ConfTypeOK, LoopInv
  PROVE  /\ StartDelay => Quiet
         /\ Return => elapsed = Limit
<1>1. ASSUME StartDelay PROVE Quiet
  <2>1. Settled(FirstRead + 1 + Pause)
    BY <1>1, Delays DEF StartDelay, LoopInv, Paced
  <2>2. FirstRead + 1 + Pause >= 7 /\ FirstRead + 1 + Pause \in Nat
    BY Delays
  <2> QED BY <2>1, <2>2 DEF Settled, Quiet
<1>2. ASSUME Return PROVE elapsed = Limit
  <2>1. conf_rdata \in Nat
    BY TimerAssumption DEF ConfTypeOK, Word
  <2> QED BY <1>2, <2>1, Delays DEF Return, LoopInv, LoopTypes, Paced
<1> QED BY <1>1, <1>2

LEMMA LoopTypesKeep ==
  ASSUME LoopTypes, Next
  PROVE  LoopTypes'
<1>1. elapsed' \in Nat /\ elapsed' <= Limit
  BY Delays DEF LoopTypes, Next, Between, StartDelay, Play, Compute, Poll, Again, Return,
                Passes, Capped
<1>2. beat' \in 0 .. TimerPerClk - 1
  BY Delays DEF LoopTypes, Next, Between, StartDelay, Play, Compute, Poll, Again, Return,
                Aligned
<1>3. pc' \in {"game", "poll", "test"}
  BY DEF LoopTypes, Next, Between, StartDelay, Play, Compute, Poll, Again, Return, Waiting
<1>4. wait' \in Nat
  <2>1. wait \in Nat
    BY DEF LoopTypes
  <2>2. CASE Between \/ Play \/ Poll
    BY <2>1, <2>2 DEF Between, Play, Poll
  <2>3. CASE StartDelay
    <3>1. wait' = FirstRead - 1
      BY <2>3 DEF StartDelay
    <3> QED BY <3>1, Delays
  <2>5. CASE Return
    BY <2>5, Delays DEF Return
  <2>6. CASE Again
    <3>1. wait' \in PollGaps
      BY <2>6 DEF Again
    <3> QED BY <3>1, Delays
  <2>4. CASE Compute
    BY <2>1, <2>4 DEF Compute, Waiting
  <2> QED BY <2>2, <2>3, <2>4, <2>5, <2>6 DEF Next
<1> QED BY <1>1, <1>2, <1>3, <1>4 DEF LoopTypes

LEMMA PacedKeeps ==
  ASSUME ConfTypeOK, LoopInv, Next
  PROVE  Paced'
<1>0. /\ LoopTypes'
      /\ \A n \in Nat : Since(n + 1)' => Since(n)'
  <2>1. LoopTypes'
    BY LoopTypesKeep DEF LoopInv
  <2> QED BY <2>1, SinceLessNext
<1>1. /\ LoopTypes /\ Paced /\ ~write_timer(Idle) /\ ~write_timer(Read)
      /\ wait \in Nat /\ elapsed \in Nat /\ elapsed' \in Nat
  BY <1>0, ProgramCycles DEF LoopInv, LoopTypes
<1>2. CASE Between
  <2>1. pc' = pc /\ wait' = wait /\ conf_rdata' = conf_rdata
    BY <1>2 DEF Between, Tim, clkVars
  <2>2. \A n \in Nat : (Settled(n) => Settled(n)') /\ (Since(n) => Since(n)')
    BY <1>1, <1>2, TimSettles, TimClears
  <2>3. elapsed' < Limit => elapsed < Limit /\ elapsed <= elapsed'
    BY <1>1, <1>2, Delays DEF Between, Capped
  <2>4. conf_rdata \in Nat
    BY TimerAssumption DEF ConfTypeOK, Word
  <2>5. CASE pc = "game"
    <3>1. wait <= Pause /\ Settled(FirstRead + 1 + Pause - wait)
      BY <1>1, <2>5 DEF Paced
    <3>2. PICK n \in Nat : n = FirstRead + 1 + Pause - wait
      BY <1>1, <3>1, Delays
    <3>3. Settled(n)'
      BY <2>2, <3>1, <3>2
    <3>4. FirstRead + 1 + Pause - wait' = n
      BY <2>1, <3>2
    <3> QED BY <2>1, <2>5, <3>1, <3>3, <3>4 DEF Paced
  <2>6. CASE pc = "poll"
    <3>1. CASE Since(FirstRead)
      <4>1. Since(FirstRead)'
        BY <2>2, <3>1, Delays
      <4> QED BY <2>1, <2>6, <4>1 DEF Paced
    <3>2. CASE wait < FirstRead /\ Since(FirstRead - 1 - wait)
      <4>1. PICK n \in Nat : n = FirstRead - 1 - wait
        BY <1>1, <3>2, Delays
      <4>2. Since(n)'
        BY <2>2, <3>2, <4>1
      <4>3. FirstRead - 1 - wait' = n
        BY <2>1, <4>1
      <4> QED BY <2>1, <2>6, <3>2, <4>2, <4>3 DEF Paced
    <3> QED BY <1>1, <2>6, <3>1, <3>2 DEF Paced
  <2>7. CASE pc = "test"
    <3>1. Since(FirstRead)'
      BY <1>1, <2>2, <2>7, Delays DEF Paced
    <3>2. elapsed' < Limit => conf_rdata' <= elapsed'
      BY <1>1, <2>1, <2>3, <2>4, <2>7 DEF Paced
    <3> QED BY <2>1, <2>7, <3>1, <3>2 DEF Paced
  <2> QED BY <1>1, <2>5, <2>6, <2>7 DEF LoopTypes
<1>3. CASE StartDelay
  <2>1. Since(0)'
    BY <1>3, StoreStarts, Waits
  <2>2. pc' = "poll" /\ wait' = FirstRead - 1
    BY <1>3 DEF StartDelay
  <2>3. FirstRead - 1 - wait' = 0 /\ wait' < FirstRead
    BY <2>2, Delays
  <2> QED BY <2>1, <2>2, <2>3 DEF Paced
<1>4. CASE Play
  <2>1. pc = "game" /\ wait = 0 /\ pc' = "game" /\ wait' = 0 /\ Aligned(Idle)
    BY <1>4 DEF Play
  <2>2. PICK n \in Nat : n = FirstRead + 1 + Pause
    BY Delays
  <2>3. Settled(n)
    <3>1. FirstRead + 1 + Pause - wait = n
      BY <2>1, <2>2, Delays
    <3> QED BY <1>1, <2>1, <3>1 DEF Paced
  <2>4. Settled(n + 1)'
    BY <1>1, <2>1, <2>3, BothSettles
  <2>5. Settled(n)'
    BY <2>2, <2>4, Delays DEF Settled
  <2>6. FirstRead + 1 + Pause - wait' = n /\ wait' <= Pause
    BY <2>1, <2>2, Delays
  <2> QED BY <2>1, <2>5, <2>6 DEF Paced
<1>5. CASE Compute
  <2>1. pc' = pc /\ wait > 0 /\ wait' = wait - 1 /\ Aligned(Idle) /\ Passes
    BY <1>5 DEF Compute, Waiting
  <2>2. \A n \in Nat : Since(n) => Since(n + 1)'
    BY <1>1, <2>1, BothClears
  <2>3. CASE pc = "game"
    <3>1. wait <= Pause /\ Settled(FirstRead + 1 + Pause - wait)
      BY <1>1, <2>3 DEF Paced
    <3>2. PICK n \in Nat : n = FirstRead + 1 + Pause - wait
      BY <1>1, <3>1, Delays
    <3>4. n + 1 = FirstRead + 1 + Pause - wait' /\ wait' <= Pause
      BY <1>1, <2>1, <3>1, <3>2, Delays
    <3>3. Settled(n + 1)'
      BY <1>1, <2>1, <3>1, <3>2, BothSettles
    <3> QED BY <2>1, <2>3, <3>3, <3>4 DEF Paced
  <2>4. CASE pc = "poll"
    <3>1. CASE Since(FirstRead)
      <4>1. Since(FirstRead)'
        <5>1. Since(FirstRead + 1)'
          BY <2>2, <3>1, Delays
        <5> QED BY <5>1, Delays, <1>0
      <4> QED BY <2>1, <2>4, <4>1 DEF Paced
    <3>2. CASE wait < FirstRead /\ Since(FirstRead - 1 - wait)
      <4>1. PICK n \in Nat : n = FirstRead - 1 - wait
        BY <1>1, <3>2, Delays
      <4>2. n + 1 = FirstRead - 1 - wait' /\ wait' < FirstRead
        BY <1>1, <2>1, <3>2, <4>1, Delays
      <4>3. Since(n + 1)'
        BY <2>2, <3>2, <4>1
      <4> QED BY <2>1, <2>4, <4>2, <4>3 DEF Paced
    <3> QED BY <1>1, <2>4, <3>1, <3>2 DEF Paced
  <2>5. CASE pc = "test"
    <3>1. Since(FirstRead + 1)'
      BY <1>1, <2>2, <2>5, Delays DEF Paced
    <3>2. Since(FirstRead)'
      BY <3>1, Delays, <1>0
    <3>3. conf_rdata' = conf_rdata
      BY <2>1 DEF Aligned, Both, ClkEdge, NextRdata, Idle
    <3>4. elapsed' < Limit => elapsed < Limit /\ elapsed <= elapsed'
      BY <1>1, <2>1, Delays DEF Passes, Capped
    <3>5. conf_rdata \in Nat
      BY TimerAssumption DEF ConfTypeOK, Word
    <3>6. elapsed' < Limit => conf_rdata' <= elapsed'
      BY <1>1, <2>5, <3>3, <3>4, <3>5 DEF Paced
    <3> QED BY <2>1, <2>5, <3>2, <3>6 DEF Paced
  <2> QED BY <1>1, <2>3, <2>4, <2>5 DEF LoopTypes
<1>6. CASE Poll
  <2>1. pc = "poll" /\ wait = 0 /\ pc' = "test" /\ wait' = 0 /\ Aligned(Read) /\ Passes
    BY <1>6 DEF Poll
  <2>2. PICK n \in {FirstRead - 1, FirstRead} : Since(n)
    <3>1. FirstRead - 1 - wait = FirstRead - 1
      BY <2>1, Delays
    <3> QED BY <1>1, <2>1, <3>1 DEF Paced
  <2>3. n \in Nat /\ n >= 3 /\ n + 1 \in {FirstRead, FirstRead + 1}
    BY <2>2, Delays
  <2>4. Since(n + 1)'
    BY <1>1, <2>1, <2>2, <2>3, BothClears
  <2>5. Since(FirstRead)'
    BY <2>3, <2>4, Delays, <1>0
  <2>6. conf_rdata' = timer_r2
    BY <2>1 DEF Aligned, Both, ClkEdge, NextRdata, Read, Idle
  <2>7. elapsed' < Limit => elapsed < Limit /\ elapsed <= elapsed'
    BY <1>1, <2>1, Delays DEF Passes, Capped
  <2>8. elapsed < Limit => timer_r2 <= elapsed
    BY <2>2, <2>3 DEF Since, Cleared
  <2>9. timer_r2 \in Nat
    BY TimerAssumption DEF ConfTypeOK, Word
  <2>10. elapsed' < Limit => conf_rdata' <= elapsed'
    BY <1>1, <2>6, <2>7, <2>8, <2>9
  <2> QED BY <2>1, <2>5, <2>10 DEF Paced
<1>7. CASE Again
  <2>1. pc = "test" /\ pc' = "poll" /\ Aligned(Idle) /\ Passes
    BY <1>7 DEF Again
  <2>2. Since(FirstRead + 1)'
    BY <1>1, <2>1, BothClears, Delays DEF Paced
  <2>3. Since(FirstRead)'
    BY <2>2, Delays, <1>0
  <2> QED BY <2>1, <2>3 DEF Paced
<1>8. CASE Return
  <2>1. pc = "test" /\ pc' = "game" /\ wait' = Pause /\ Aligned(Idle)
    BY <1>8 DEF Return
  <2>2. Settled(FirstRead + 1)'
    BY <1>1, <2>1, BothSettles, Delays DEF Paced, Since
  <2>3. FirstRead + 1 + Pause - wait' = FirstRead + 1 /\ wait' <= Pause
    BY <2>1, Delays
  <2> QED BY <2>1, <2>2, <2>3 DEF Paced
<1> QED BY <1>2, <1>3, <1>4, <1>5, <1>6, <1>7, <1>8 DEF Next

LEMMA InitLoop ==
  ASSUME Init
  PROVE  IInv /\ LoopInv
<1>1. IInv
  BY InitIInv DEF Init
<1>2. LoopTypes
  BY Delays DEF Init, LoopTypes
<1>3. Paced
  BY Delays DEF Init, ConfInit, Paced, Settled
<1> QED BY <1>1, <1>2, <1>3 DEF LoopInv

LEMMA LoopStep ==
  ASSUME IInv, LoopInv, [Next]_loopVars
  PROVE  /\ IInv' /\ LoopInv'
         /\ [PatientNext]_confVars
         /\ [StartDelay => Quiet]_loopVars
         /\ [Return => elapsed = Limit]_loopVars
<1>1. (StartDelay => Quiet) /\ (Return => elapsed = Limit)
  BY Waits DEF IInv
<1>2. [PatientNext]_confVars
  BY <1>1, ProgramStep
<1>3. IInv'
  BY <1>2, StepKeeps
<1>4. LoopInv'
  <2>1. CASE Next
    BY <2>1, LoopTypesKeep, PacedKeeps DEF IInv, LoopInv
  <2>2. CASE UNCHANGED loopVars
    BY <2>2 DEF loopVars, confVars, clkVars, timerVars, LoopInv, LoopTypes, Paced, Since,
                Settled, Cleared
  <2> QED BY <2>1, <2>2
<1> QED BY <1>1, <1>2, <1>3, <1>4

(* The program never writes while the handshake of its last write goes on,  *)
(* for clocks, polls and pauses no faster than DelayAssumption says: the    *)
(* way from the store to the return gives the four registers of it the time *)
(* (memory_main.c:58-65 on confreg.v:192-247).                              *)
THEOREM WritesAreApart == Spec => WritesWait
<1>1. Init => IInv /\ LoopInv
  BY InitLoop
<1>2. IInv /\ LoopInv /\ [Next]_loopVars
        => IInv' /\ LoopInv' /\ [StartDelay => Quiet]_loopVars
  BY LoopStep
<1> QED BY <1>1, <1>2, PTL DEF Spec, WritesWait

(* delay() never returns early, for every limit: the count it tests is      *)
(* always one taken after its own store had crossed, never what the timer   *)
(* held before (memory_main.c:57-65, timer_r2 of confreg.v:220-242).        *)
THEOREM DelaysAreFull == Spec => DelayLasts
<1>1. Init => IInv /\ LoopInv
  BY InitLoop
<1>2. IInv /\ LoopInv /\ [Next]_loopVars
        => IInv' /\ LoopInv' /\ [Return => elapsed = Limit]_loopVars
  BY LoopStep
<1> QED BY <1>1, <1>2, PTL DEF Spec, DelayLasts

(* So the program uses the two-clock timer as one register that takes over  *)
(* each word written to it once, and the handshake goes through its phases, *)
(* with nothing assumed of the program but its pace (memory_main.c:58-65 on *)
(* confreg.v:192-247).                                                      *)
THEOREM ProgramOnRegister == Spec => []Handshake /\ Reg!SafeSpec
  BY WritesAreApart, WaitingProgram, PTL
=============================================================================
