----------------------------- MODULE DelayLoop -----------------------------
(***************************************************************************)
(* A program on the timer: delay() of memory_main.c clears it and polls it *)
(* through get_us() until enough time has gone, over and over.  The two    *)
(* clocks come from one PLL and are aligned: an edge of clk is always an   *)
(* edge of timer_clk, with TimerPerClk edges of timer_clk from one to the  *)
(* next.  The times between the accesses are those of the compiled code    *)
(* (obj/test.s) on a pipeline that completes one instruction per cycle.    *)
(***************************************************************************)
EXTENDS ConfTimer

CONSTANTS
  TimerPerClk,   \* timer_clk is 100 MHz and clk 50 MHz: 2
  FirstRead,     \* clk edges from the store to the first load
  PollGaps,      \* clk edges between a test and the next load
  Pause,         \* clk edges from the last test to the next store
  Limit          \* 1000*reps microseconds in ticks of timer_clk

\* A store has crossed to timer_clk, and the count back, by the fourth edge of
\* clk; its handshake is over when the test behind it and a pause are.
ASSUME DelayAssumption ==
  /\ {TimerPerClk, FirstRead, Pause, Limit} \cup PollGaps \subseteq Nat
  /\ TimerPerClk >= 2 /\ FirstRead >= 4 /\ Pause >= 2

VARIABLES beat,     \* timer_clk edges since the last edge of clk
          pc,       \* "game", or in delay(): "poll", "test"
          wait,     \* clk edges until the next access
          elapsed   \* timer_clk edges since the store, up to Limit

loopVars == <<confVars, beat, pc, wait, elapsed>>

Init == ConfInit /\ beat = 0 /\ pc = "game" /\ wait = 0 /\ elapsed = 0

\* The edges that time goes by: TimerPerClk - 1 of timer_clk alone, then one
\* of both.
Capped(n) == IF n < Limit THEN n ELSE Limit
Between == /\ beat < TimerPerClk - 1
           /\ Tim /\ beat' = beat + 1 /\ elapsed' = Capped(elapsed + 1)
           /\ UNCHANGED <<pc, wait>>
Aligned(bus) == beat = TimerPerClk - 1 /\ Both(bus) /\ beat' = 0
Passes == elapsed' = Capped(elapsed + 1)

Waiting == wait > 0 /\ wait' = wait - 1 /\ UNCHANGED pc

\* SOC_TIMER = 0;
StartDelay == /\ pc = "game" /\ wait = 0
              /\ Aligned(Store(0)) /\ elapsed' = 0
              /\ pc' = "poll" /\ wait' = FirstRead - 1
Play == /\ pc = "game" /\ wait = 0
        /\ Aligned(Idle) /\ Passes /\ UNCHANGED <<pc, wait>>
Compute == Waiting /\ Aligned(Idle) /\ Passes

\* while (get_us() < 1000*reps)
Poll == /\ pc = "poll" /\ wait = 0
        /\ Aligned(Read) /\ Passes /\ pc' = "test" /\ UNCHANGED wait
Again == /\ pc = "test" /\ conf_rdata < Limit
         /\ Aligned(Idle) /\ Passes
         /\ pc' = "poll" /\ wait' \in PollGaps
Return == /\ pc = "test" /\ conf_rdata >= Limit
          /\ Aligned(Idle) /\ Passes
          /\ pc' = "game" /\ wait' = Pause

Next == Between \/ StartDelay \/ Play \/ Compute \/ Poll \/ Again \/ Return
Spec == Init /\ [][Next]_loopVars /\ WF_loopVars(Next)

-----------------------------------------------------------------------------
(* delay() never returns early: its first load is far enough behind the     *)
(* store that the write has crossed to timer_clk and the new count back, so *)
(* it never tests what the timer held before (memory_main.c:57-65).         *)
DelayLasts == [][Return => elapsed = Limit]_loopVars

(* The program never writes while the handshake of its last write goes on.  *)
WritesWait == [][StartDelay => Quiet]_loopVars

(* delay() returns: the counter does not run past the limit between polls.  *)
DelayReturns == pc = "poll" ~> pc = "game"

(* Together with the program the two-clock timer is one register that takes *)
(* over each word written to it, once, and in the end.                      *)
OneRegister == Reg!Spec
=============================================================================
