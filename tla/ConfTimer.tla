----------------------------- MODULE ConfTimer -----------------------------
(***************************************************************************)
(* The timer of confreg.v.  The bus side runs on clk, the counter on       *)
(* timer_clk; a written word and the request to load it cross over two     *)
(* registers, and so do the acknowledgement and the count on the way back. *)
(* A step is an edge of one clock or of both.                              *)
(***************************************************************************)
EXTENDS Naturals

CONSTANT Mod   \* 2^32 in the design

ASSUME TimerAssumption == Mod \in Nat \ {0}

VARIABLES
  \* on clk
  write_timer_begin, conf_wdata_r, write_timer_end_r1, write_timer_end_r2,
  timer_r1, timer_r2, conf_rdata,
  \* on timer_clk
  write_timer_begin_r1, write_timer_begin_r2, write_timer_begin_r3,
  conf_wdata_r1, conf_wdata_r2, timer

clkVars == <<write_timer_begin, conf_wdata_r, write_timer_end_r1,
             write_timer_end_r2, timer_r1, timer_r2, conf_rdata>>
timerVars == <<write_timer_begin_r1, write_timer_begin_r2,
               write_timer_begin_r3, conf_wdata_r1, conf_wdata_r2, timer>>
confVars == <<clkVars, timerVars>>

Word == 0 .. Mod - 1

\* What the bridge shows confreg in a cycle, when the address is the timer's.
Bus == [conf_en : BOOLEAN, conf_we : BOOLEAN, conf_wdata : Word]
Idle == [conf_en |-> FALSE, conf_we |-> FALSE, conf_wdata |-> 0]
Read == [Idle EXCEPT !.conf_en = TRUE]
Store(d) == [conf_en |-> TRUE, conf_we |-> TRUE, conf_wdata |-> d]
write_timer(bus) == bus.conf_en /\ bus.conf_we

\* The request is never withdrawn, or stands for one cycle only.
NextBegin_Bug(bus) == write_timer(bus) \/ write_timer_begin
NextBeginPulse_Bug(bus) == write_timer(bus)
\* A write wins over the acknowledgement of an earlier one.
NextBegin(bus) == \/ write_timer(bus)
                  \/ write_timer_begin /\ ~write_timer_end_r2

\* Only a write enables the register.
NextRdata_Bug(bus) == IF write_timer(bus) THEN timer_r2 ELSE conf_rdata
\* conf_rdata_reg: every access samples timer_r2, a write too.
NextRdata(bus) == IF bus.conf_en THEN timer_r2 ELSE conf_rdata

ClkEdge(bus) ==
  /\ write_timer_begin' = NextBegin(bus)
  /\ conf_wdata_r' = IF write_timer(bus) THEN bus.conf_wdata
                     ELSE conf_wdata_r
  /\ write_timer_end_r1' = write_timer_begin_r2
  /\ write_timer_end_r2' = write_timer_end_r1
  /\ timer_r1' = timer /\ timer_r2' = timer_r1
  /\ conf_rdata' = NextRdata(bus)

\* The counter is loaded when the request goes.
LoadTimer_Bug == ~write_timer_begin_r2 /\ write_timer_begin_r3
LoadTimer == write_timer_begin_r2 /\ ~write_timer_begin_r3

\* The counter has the width of the register, or one bit more.
Count_Bug == (timer + 1) % (2 * Mod)
Count == (timer + 1) % Mod

TimerEdge ==
  /\ write_timer_begin_r1' = write_timer_begin
  /\ write_timer_begin_r2' = write_timer_begin_r1
  /\ write_timer_begin_r3' = write_timer_begin_r2
  /\ conf_wdata_r1' = conf_wdata_r /\ conf_wdata_r2' = conf_wdata_r1
  /\ timer' = IF LoadTimer THEN conf_wdata_r2 ELSE Count

\* The data registers have no reset.
ConfInit ==
  /\ write_timer_begin = FALSE
  /\ write_timer_end_r1 = FALSE /\ write_timer_end_r2 = FALSE
  /\ write_timer_begin_r1 = FALSE /\ write_timer_begin_r2 = FALSE
  /\ write_timer_begin_r3 = FALSE
  /\ conf_wdata_r \in Word
  /\ conf_wdata_r1 = conf_wdata_r /\ conf_wdata_r2 = conf_wdata_r
  /\ timer = 0 /\ timer_r1 = 0 /\ timer_r2 = 0 /\ conf_rdata = 0

\* One step of time: an edge of clk, of timer_clk, or of both at once.
Clk(bus) == ClkEdge(bus) /\ UNCHANGED timerVars
Tim == TimerEdge /\ UNCHANGED clkVars
Both(bus) == ClkEdge(bus) /\ TimerEdge

\* No trace of the last write is left in either direction.
Quiet == /\ ~write_timer_begin
         /\ ~write_timer_begin_r1 /\ ~write_timer_begin_r2
         /\ ~write_timer_begin_r3
         /\ ~write_timer_end_r1 /\ ~write_timer_end_r2

\* Edges in any order, with a bus that writes only when all is quiet: the
\* code does not look, so a write that comes earlier may be lost.
PatientNext ==
  \/ Tim
  \/ \E bus \in Bus : /\ write_timer(bus) => Quiet
                      /\ Clk(bus) \/ Both(bus)
PatientSpec == ConfInit /\ [][PatientNext]_confVars

-----------------------------------------------------------------------------
\* Type invariant.
ConfTypeOK ==
  /\ write_timer_begin \in BOOLEAN
  /\ write_timer_end_r1 \in BOOLEAN /\ write_timer_end_r2 \in BOOLEAN
  /\ write_timer_begin_r1 \in BOOLEAN /\ write_timer_begin_r2 \in BOOLEAN
  /\ write_timer_begin_r3 \in BOOLEAN
  /\ conf_wdata_r \in Word /\ conf_wdata_r1 \in Word
  /\ conf_wdata_r2 \in Word
  /\ timer \in Word /\ timer_r1 \in Word /\ timer_r2 \in Word
  /\ conf_rdata \in Word

(* The handshake goes through its phases in order: a request stands until   *)
(* it has come back, its copies are set and cleared one after the other,    *)
(* and until the counter has been loaded the copies of the word that travel *)
(* beside the request are the word written (confreg.v:195-242).            *)
Handshake ==
  /\ write_timer_begin =>
       /\ write_timer_begin_r3 => write_timer_begin_r2
       /\ write_timer_begin_r2 => write_timer_begin_r1
       /\ write_timer_end_r2 => write_timer_end_r1
       /\ write_timer_end_r1 => write_timer_begin_r2
  /\ ~write_timer_begin =>
       /\ write_timer_begin_r1 => write_timer_begin_r2
       /\ write_timer_begin_r2 =>
            /\ write_timer_end_r1
            /\ write_timer_begin_r1 \/ write_timer_begin_r3
       /\ write_timer_end_r1 => write_timer_end_r2
  /\ ~write_timer_begin_r3 =>
       /\ write_timer_begin_r1 => conf_wdata_r1 = conf_wdata_r
       /\ write_timer_begin_r2 => conf_wdata_r2 = conf_wdata_r

\* The word on its way to the counter, if any.
pending == IF /\ write_timer_begin \/ write_timer_begin_r1
                 \/ write_timer_begin_r2
              /\ ~write_timer_begin_r3
           THEN {conf_wdata_r} ELSE {}

Reg == INSTANCE TimerReg
=============================================================================
