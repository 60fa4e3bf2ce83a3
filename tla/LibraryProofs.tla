---------------------------- MODULE LibraryProofs ----------------------------
(***************************************************************************)
(* Theorems about four parts of the C library, each for every value of its  *)
(* constants: the table of streams keeps its callers apart (Files), a CP0    *)
(* register is read back as it was written (C0), the command loop runs what  *)
(* its line spells (CmdLoop), and strings and blocks are compared and copied *)
(* as CStringSpec says.                                                    *)
(***************************************************************************)
EXTENDS Files, C0, CmdLoop, CStringSpec, SequenceTheorems, WellFoundedInduction, TLAPS

-----------------------------------------------------------------------------
(* The table of streams (stdio.c).                                          *)

\* The types.
FilesTypes ==
  /\ files \in [Stream -> [str : Texts \cup {NoText}, pos : Nat]]
  /\ open \in [Caller -> [stream : Stream \cup {-1}, text : Texts \cup {<<>>}, got : Seq(Nat)]]

\* A stream has one caller.
StreamsApart == \A c, d \in Caller : HasOpen(c) /\ open[c].stream = open[d].stream => c = d

\* A caller's stream has its text, as far as it has been read.
Delivered(c) ==
  LET f == files[open[c].stream]
  IN  /\ open[c].text \in Texts /\ f.str = open[c].text
      /\ f.pos \in 0 .. Len(f.str) /\ f.pos = Len(open[c].got)
      /\ open[c].got = SubSeq(open[c].text, 1, f.pos)

\* The inductive invariant.
FilesInv == FilesTypes /\ StreamsApart /\ \A c \in Caller : HasOpen(c) => Delivered(c)

-----------------------------------------------------------------------------
\* A set of numbers has a least.
LEMMA MinIsThere ==
  ASSUME NEW S \in SUBSET Nat, S # {}
  PROVE  Min(S) \in S /\ \A x \in S : Min(S) <= x
<1>1. PICK x \in S : \A y \in S : ~(<<y, x>> \in OpToRel(<, Nat))
  BY NatLessThanWellFounded, WFMin
<1>2. \A y \in S : ~(y < x)
  BY <1>1, Zenon DEF OpToRel
<1>3. \A y \in S : x <= y
  BY <1>2
<1> QED BY <1>3 DEF Min

\* The texts are sequences of numbers.
LEMMA Texted == \A t \in Texts : t \in Seq(Nat) /\ Len(t) \in Nat /\ t # NoText
  BY FilesAssumption, LenProperties

\* What a read hands over is between nothing and all that is left.
LEMMA Amounts ==
  ASSUME FilesInv, NEW c \in Caller, HasOpen(c)
  PROVE  /\ Left(c) \in Nat
         /\ \A total \in Nat : Min({total, Left(c)}) \in 0 .. Left(c)
         /\ LineEnd(c) \in 0 .. Left(c)
<1>1. Left(c) \in Nat
  <2>1. Delivered(c)
    BY DEF FilesInv
  <2>2. Len(files[open[c].stream].str) \in Nat
    BY <2>1, Texted DEF Delivered
  <2> QED BY <2>1, <2>2 DEF Left, Delivered
<1>2. ASSUME NEW total \in Nat PROVE Min({total, Left(c)}) \in 0 .. Left(c)
  <2>1. {total, Left(c)} \in SUBSET Nat /\ {total, Left(c)} # {}
    BY <1>1
  <2>2. Min({total, Left(c)}) \in Nat /\ Min({total, Left(c)}) <= Left(c)
    BY <2>1, MinIsThere
  <2> QED BY <1>1, <2>2
<1>3. LineEnd(c) \in 0 .. Left(c)
  <2> DEFINE f == files[open[c].stream]
             S == {Left(c)} \cup {n \in 1 .. Left(c) : f.str[f.pos + n] = Newline}
  <2>1. S \in SUBSET Nat /\ S # {} /\ Left(c) \in S
    BY <1>1
  <2>2. LineEnd(c) = Min(S)
    BY DEF LineEnd
  <2> HIDE DEF S
  <2>3. LineEnd(c) \in Nat /\ LineEnd(c) <= Left(c)
    BY <2>1, <2>2, MinIsThere
  <2> QED BY <1>1, <2>3
<1> QED BY <1>1, <1>2, <1>3

-----------------------------------------------------------------------------
\* fread, getc and fgets leave the invariant, whatever the number they hand over.
LEMMA DeliverKeeps ==
  ASSUME FilesInv, NEW c \in Caller, HasOpen(c), NEW n \in 0 .. Left(c), Deliver(c, n)
  PROVE  FilesInv'
<1> DEFINE i == open[c].stream
           f == files[i]
           text == open[c].text
           m == f.pos + n
<1>1. /\ i \in Stream /\ text \in Texts /\ text \in Seq(Nat) /\ Len(text) \in Nat
      /\ f.str = text /\ f.pos \in 0 .. Len(text) /\ f.pos = Len(open[c].got)
      /\ open[c].got = SubSeq(text, 1, f.pos)
  BY Texted DEF FilesInv, FilesTypes, HasOpen, Delivered
<1>2. n \in Nat /\ m \in 0 .. Len(text)
  BY <1>1, Amounts DEF Left
<1>3. /\ files' = [files EXCEPT ![i] = [f EXCEPT !.pos = m]]
      /\ open' = [open EXCEPT ![c] =
                    [open[c] EXCEPT !.got = open[c].got \o SubSeq(text, f.pos + 1, m)]]
  BY <1>1 DEF Deliver
<1>4. open[c].got \o SubSeq(text, f.pos + 1, m) = SubSeq(text, 1, m)
  <2>1. f.pos \in 1 - 1 .. Len(text) /\ m \in f.pos .. Len(text) /\ 1 \in 1 .. Len(text) + 1
    BY <1>1, <1>2
  <2> HIDE DEF m, f, text
  <2>2. SubSeq(text, 1, f.pos) \o SubSeq(text, f.pos + 1, m) = SubSeq(text, 1, m)
    BY <1>1, <2>1, ConcatAdjacentSubSeq
  <2> QED BY <1>1, <2>2
<1>5. SubSeq(text, 1, m) \in Seq(Nat) /\ Len(SubSeq(text, 1, m)) = m
  BY <1>1, <1>2, SubSeqProperties
<1>6. /\ files'[i].str = text /\ files'[i].pos = m
      /\ files'[i] \in [str : Texts \cup {NoText}, pos : Nat]
      /\ \A j \in Stream : j # i => files'[j] = files[j]
  <2>1. f \in [str : Texts \cup {NoText}, pos : Nat] /\ m \in Nat
    BY <1>1, <1>2 DEF FilesInv, FilesTypes
  <2> DEFINE g == [f EXCEPT !.pos = m]
  <2>2. g.str = text /\ g.pos = m /\ g \in [str : Texts \cup {NoText}, pos : Nat]
    BY <1>1, <2>1
  <2>3. files'[i] = g /\ \A j \in Stream : j # i => files'[j] = files[j]
    <3> HIDE DEF g
    <3> QED BY <1>1, <1>3 DEF FilesInv, FilesTypes, g
  <2> HIDE DEF g
  <2> QED BY <2>2, <2>3
<1>7. /\ open'[c].stream = i /\ open'[c].text = text /\ open'[c].got = SubSeq(text, 1, m)
      /\ open'[c] \in [stream : Stream \cup {-1}, text : Texts \cup {<<>>}, got : Seq(Nat)]
      /\ \A d \in Caller : d # c => open'[d] = open[d]
  BY <1>1, <1>3, <1>4, <1>5 DEF FilesInv, FilesTypes
<1>8. FilesTypes'
  BY <1>3, <1>6, <1>7 DEF FilesInv, FilesTypes
<1>9. StreamsApart'
  BY <1>7 DEF FilesInv, StreamsApart, HasOpen
<1>10. ASSUME NEW d \in Caller, HasOpen(d)' PROVE Delivered(d)'
  <2>1. CASE d = c
    BY <1>1, <1>2, <1>5, <1>6, <1>7, <2>1 DEF Delivered
  <2>2. CASE d # c
    <3>1. open'[d] = open[d] /\ HasOpen(d) /\ Delivered(d)
      BY <1>7, <1>10, <2>2 DEF HasOpen, FilesInv
    <3>2. open[d].stream # i /\ open[d].stream \in Stream
      BY <2>2, <3>1 DEF FilesInv, FilesTypes, StreamsApart, HasOpen
    <3> QED BY <1>6, <3>1, <3>2 DEF Delivered
  <2> QED BY <2>1, <2>2
<1> QED BY <1>8, <1>9, <1>10 DEF FilesInv

\* fopen gives a free stream away, which is nobody else's.
LEMMA OpenKeeps ==
  ASSUME FilesInv, NEW c \in Caller, NEW str \in Texts, fopen(c, str)
  PROVE  FilesInv'
<1> DEFINE i == Min(Free)
<1>1. i \in Stream /\ files[i].str = NoText /\ ~HasOpen(c)
  <2>1. Free \in SUBSET Nat /\ Free # {}
    BY DEF fopen, Free, Stream
  <2>2. i \in Free
    BY <2>1, MinIsThere
  <2> QED BY <2>2 DEF Free, fopen
<1>2. /\ files' = [files EXCEPT ![i] = [str |-> str, pos |-> 0]]
      /\ open' = [open EXCEPT ![c] = [stream |-> i, text |-> str, got |-> <<>>]]
  BY DEF fopen
<1> HIDE DEF i
<1>3. str \in Seq(Nat) /\ Len(str) \in Nat /\ str # NoText
  BY Texted
<1>4. /\ files'[i] = [str |-> str, pos |-> 0]
      /\ \A j \in Stream : j # i => files'[j] = files[j]
  BY <1>1, <1>2 DEF FilesInv, FilesTypes
<1>5. /\ open'[c] = [stream |-> i, text |-> str, got |-> <<>>]
      /\ \A d \in Caller : d # c => open'[d] = open[d]
  BY <1>2 DEF FilesInv, FilesTypes
<1>6. FilesTypes'
  BY <1>1, <1>2 DEF FilesInv, FilesTypes
<1>7. \A d \in Caller : HasOpen(d) => open[d].stream # i /\ open[d].stream \in Stream
  BY <1>1, Texted DEF FilesInv, FilesTypes, HasOpen, Delivered
<1>8. i # -1
  BY <1>1 DEF Stream
<1>9. StreamsApart'
  BY <1>1, <1>5, <1>7, <1>8 DEF FilesInv, StreamsApart, HasOpen
<1>10. ASSUME NEW d \in Caller, HasOpen(d)' PROVE Delivered(d)'
  <2>1. CASE d = c
    <3>1. SubSeq(str, 1, 0) = <<>> /\ Len(<<>>) = 0 /\ 0 \in 0 .. Len(str)
      BY <1>3, SubSeqEmpty
    <3>2. /\ open'[d].stream = i /\ open'[d].text = str /\ open'[d].got = <<>>
          /\ files'[i].str = str /\ files'[i].pos = 0
      BY <1>4, <1>5, <2>1
    <3> QED BY <1>3, <3>1, <3>2 DEF Delivered
  <2>2. CASE d # c
    <3>1. open'[d] = open[d] /\ HasOpen(d) /\ Delivered(d)
      BY <1>5, <1>10, <2>2 DEF HasOpen, FilesInv
    <3> QED BY <1>4, <1>7, <3>1 DEF Delivered
  <2> QED BY <2>1, <2>2
<1> QED BY <1>6, <1>9, <1>10 DEF FilesInv

\* fclose takes a stream back from its caller alone.
LEMMA CloseKeeps ==
  ASSUME FilesInv, NEW c \in Caller, fclose(c)
  PROVE  FilesInv'
<1>1. /\ HasOpen(c) /\ files' = [files EXCEPT ![open[c].stream] = Closed]
      /\ open' = [open EXCEPT ![c] = None]
  BY DEF fclose
<1>2. \A d \in Caller : d # c => open'[d] = open[d]
  BY <1>1
<1>3. open'[c] = None /\ \A j \in Stream : j # open[c].stream => files'[j] = files[j]
  BY <1>1 DEF FilesInv, FilesTypes
<1>4. FilesTypes'
  <2>1. Closed \in [str : Texts \cup {NoText}, pos : Nat]
    BY DEF Closed
  <2>2. None \in [stream : Stream \cup {-1}, text : Texts \cup {<<>>}, got : Seq(Nat)]
    BY DEF None
  <2> QED BY <1>1, <2>1, <2>2 DEF FilesInv, FilesTypes
<1>5. ~HasOpen(c)'
  BY <1>3 DEF HasOpen, None
<1>6. StreamsApart'
  BY <1>2, <1>5 DEF FilesInv, StreamsApart, HasOpen
<1>7. ASSUME NEW d \in Caller, HasOpen(d)' PROVE Delivered(d)'
  <2>1. d # c /\ open'[d] = open[d] /\ HasOpen(d) /\ Delivered(d)
    BY <1>2, <1>5, <1>7 DEF HasOpen, FilesInv
  <2>2. open[d].stream # open[c].stream /\ open[d].stream \in Stream
    BY <1>1, <2>1 DEF FilesInv, FilesTypes, StreamsApart, HasOpen
  <2> QED BY <1>3, <2>1, <2>2 DEF Delivered
<1> QED BY <1>4, <1>6, <1>7 DEF FilesInv

\* Before the first call no stream is open.
LEMMA FilesInitInv == FilesInit => FilesInv
<1> SUFFICES ASSUME FilesInit PROVE FilesInv
  OBVIOUS
<1>1. FilesTypes
  BY DEF FilesInit, FilesTypes, Closed, None
<1>2. \A c \in Caller : ~HasOpen(c)
  BY DEF FilesInit, HasOpen, None
<1> QED BY <1>1, <1>2 DEF FilesInv, StreamsApart

\* Every call keeps the invariant.
LEMMA FilesStep == FilesInv /\ [FilesNext]_fvars => FilesInv'
<1> SUFFICES ASSUME FilesInv, [FilesNext]_fvars PROVE FilesInv'
  OBVIOUS
<1>1. CASE UNCHANGED fvars
  BY <1>1 DEF fvars, FilesInv, FilesTypes, StreamsApart, HasOpen, Delivered
<1>2. ASSUME NEW c \in Caller, NEW str \in Texts, fopen(c, str) PROVE FilesInv'
  BY <1>2, OpenKeeps
<1>3. ASSUME NEW c \in Caller, NEW n \in 0 .. MaxRead, fread(c, n) PROVE FilesInv'
  <2>1. HasOpen(c) /\ Deliver(c, Min({n, Left(c)}))
    BY <1>3 DEF fread
  <2>2. Min({n, Left(c)}) \in 0 .. Left(c)
    <3>1. n \in Nat
      BY FilesAssumption
    <3> QED BY <2>1, <3>1, Amounts
  <2> QED BY <2>1, <2>2, DeliverKeeps
<1>4. ASSUME NEW c \in Caller, getc(c) PROVE FilesInv'
  <2>1. HasOpen(c) /\ Deliver(c, Min({1, Left(c)}))
    BY <1>4 DEF getc
  <2>2. Min({1, Left(c)}) \in 0 .. Left(c)
    BY <2>1, Amounts
  <2> QED BY <2>1, <2>2, DeliverKeeps
<1>5. ASSUME NEW c \in Caller, fgets(c) PROVE FilesInv'
  <2>1. HasOpen(c) /\ Deliver(c, LineEnd(c))
    BY <1>5 DEF fgets
  <2> QED BY <2>1, Amounts, DeliverKeeps
<1>6. ASSUME NEW c \in Caller, fclose(c) PROVE FilesInv'
  BY <1>6, CloseKeeps
<1> QED BY <1>1, <1>2, <1>3, <1>4, <1>5, <1>6 DEF FilesNext

(* Every caller reads the text it opened, from the start, in order and each   *)
(* character once, whatever the others open, read and close: fopen, fread,    *)
(* getc, fgets and fclose (stdio.c) on a table of any size.                  *)
THEOREM StreamsKeepApart == FilesSpec => []InOrder
<1>1. FilesInv => InOrder
  BY DEF FilesInv, InOrder, Delivered
<1> QED BY <1>1, FilesInitInv, FilesStep, PTL DEF FilesSpec

-----------------------------------------------------------------------------
(* The accessors of the CP0 registers (mipsregs.h, common.h).               *)

\* What a table made of two has in it.
LEMMA BesideIs ==
  ASSUME NEW f, NEW g
  PROVE  /\ DOMAIN Beside(f, g) = DOMAIN f \cup DOMAIN g
         /\ \A x \in DOMAIN f : Beside(f, g)[x] = f[x]
         /\ \A x \in DOMAIN g : x \notin DOMAIN f => Beside(f, g)[x] = g[x]
BY DEF Beside

\* An entry of the first table is found.
LEMMA InFirst == ASSUME NEW f, NEW g, NEW x \in DOMAIN f
  PROVE x \in DOMAIN Beside(f, g) /\ Beside(f, g)[x] = f[x]
BY DEF Beside

\* An entry of the second table is found where the first has none.
LEMMA InSecond == ASSUME NEW f, NEW g, NEW x \in DOMAIN g, x \notin DOMAIN f
  PROVE x \in DOMAIN Beside(f, g) /\ Beside(f, g)[x] = g[x]
BY DEF Beside


\* The widths there are; the accessors that build are of 32 bits, only those
\* an interrupt changes name Compare or EPC, and one names Status.
Plain(table) ==
  \A x \in DOMAIN table : 
     /\ table[x].width \in {"32", "64", "ulong"}
     /\ x \in BuildSet => table[x].width = "32"
     /\ x \notin Ticks => table[x].reg # <<11, 0>> /\ table[x].reg # <<14, 0>>
     /\ x # "status" => table[x].reg # <<12, 0>>

\* The registers up to 16.
LEMMA PlainLower == Plain(c0_mmu) /\ Plain(c0_control)
BY DEF Plain, c0_mmu, c0_control, R32, RUL, R64, Ctrl, Ticks, BuildSet

\* The registers 18 and 19.
LEMMA PlainWatch == Plain(c0_watchlo) /\ Plain(c0_watchhi)
BY DEF Plain, c0_watchlo, c0_watchhi, R32, RUL, R64, Ctrl, Ticks, BuildSet

\* The registers from 20 to 25.
LEMMA PlainMiddle == Plain(c0_diag) /\ Plain(c0_perf)
BY DEF Plain, c0_diag, c0_perf, R32, RUL, R64, Ctrl, Ticks, BuildSet

\* The registers from 26 on, and those of release 2.
LEMMA PlainUpper == Plain(c0_error) /\ Plain(c0_release2)
BY DEF Plain, c0_error, c0_release2, R32, RUL, R64, Ctrl, Ticks, BuildSet

\* Two plain tables make a plain one.
LEMMA PlainBeside == ASSUME NEW f, NEW g, Plain(f), Plain(g) PROVE Plain(Beside(f, g))
<1> DEFINE h == Beside(f, g)
<1>1. /\ DOMAIN h = DOMAIN f \cup DOMAIN g
      /\ \A x \in DOMAIN f : h[x] = f[x]
      /\ \A x \in DOMAIN g : x \notin DOMAIN f => h[x] = g[x]
  BY BesideIs
<1> HIDE DEF h
<1>2. Plain(h)
  BY <1>1 DEF Plain
<1> QED BY <1>2 DEF h

\* All of mipsregs.h is plain.
LEMMA AllPlain == Plain(mipsregs)
<1>1. Plain(Beside(c0_mmu, c0_control)) BY PlainLower, PlainBeside
<1>2. Plain(c0_watch) BY PlainWatch, PlainBeside DEF c0_watch
<1>3. Plain(Beside(c0_error, c0_release2)) BY PlainUpper, PlainBeside
<1>4. Plain(Beside(c0_perf, Beside(c0_error, c0_release2))) BY PlainMiddle, <1>3, PlainBeside
<1>5. Plain(c0_upper) BY PlainMiddle, <1>4, PlainBeside DEF c0_upper
<1>6. Plain(Beside(c0_watch, c0_upper)) BY <1>2, <1>5, PlainBeside
<1> QED BY <1>1, <1>6, PlainBeside DEF mipsregs

\* The registers the tick changes.
LEMMA TickedRegisters == mipsregs["compare"].reg = <<11, 0>> /\ mipsregs["epc"].reg = <<14, 0>>
<1> DEFINE m == Beside(c0_mmu, c0_control)
           h == Beside(c0_watch, c0_upper)
<1>1. "compare" \in DOMAIN c0_mmu /\ c0_mmu["compare"].reg = <<11, 0>> BY DEF c0_mmu, R32
<1>2. "epc" \in DOMAIN c0_control /\ c0_control["epc"].reg = <<14, 0>> BY DEF c0_control, RUL
<1>3. "epc" \notin DOMAIN c0_mmu BY DEF c0_mmu
<1>4. m["compare"] = c0_mmu["compare"] /\ "compare" \in DOMAIN m BY <1>1, InFirst
<1>5. m["epc"] = c0_control["epc"] /\ "epc" \in DOMAIN m BY <1>2, <1>3, InSecond
<1>6. mipsregs = Beside(m, h) BY DEF mipsregs
<1> HIDE DEF m, h
<1>7. mipsregs["compare"] = m["compare"] BY <1>4, <1>6, InFirst
<1>8. mipsregs["epc"] = m["epc"] BY <1>5, <1>6, InFirst
<1> QED BY <1>1, <1>2, <1>4, <1>5, <1>7, <1>8

\* The register of the interrupt enable.
LEMMA StatusRegister == mipsregs["status"].reg = StatusReg
<1> DEFINE m == Beside(c0_mmu, c0_control)
           h == Beside(c0_watch, c0_upper)
<1>1. "status" \in DOMAIN c0_control /\ c0_control["status"].reg = <<12, 0>>
  BY DEF c0_control, R32
<1>2. "status" \notin DOMAIN c0_mmu BY DEF c0_mmu
<1>3. m["status"] = c0_control["status"] /\ "status" \in DOMAIN m BY <1>1, <1>2, InSecond
<1>4. mipsregs = Beside(m, h) BY DEF mipsregs
<1> HIDE DEF m, h
<1>5. mipsregs["status"] = m["status"] BY <1>3, <1>4, InFirst
<1> QED BY <1>1, <1>3, <1>5 DEF StatusReg

\* Every entry of f is one of g.
PartOf(f, g) == \A x \in DOMAIN f : x \in DOMAIN g /\ g[x] = f[x]

\* common.h up to register 11 says what mipsregs.h says,
LEMMA LowPart == PartOf(common_low, c0_mmu)
BY DEF PartOf, common_low, c0_mmu

\* and so do its registers 12 to 16,
LEMMA ControlPart == PartOf(common_control, c0_control)
BY DEF PartOf, common_control, c0_control, R32, RUL

\* and its registers 18 and 19.
LEMMA WatchPart == PartOf(common_watch, c0_watch)
<1>1. \A x \in DOMAIN common_watch : x \in DOMAIN c0_watchlo => c0_watchlo[x] = common_watch[x]
  BY DEF common_watch, c0_watchlo
<1>2. \A x \in DOMAIN common_watch : x \notin DOMAIN c0_watchlo
        => x \in DOMAIN c0_watchhi /\ c0_watchhi[x] = common_watch[x]
  BY DEF common_watch, c0_watchlo, c0_watchhi
<1> SUFFICES ASSUME NEW x \in DOMAIN common_watch
             PROVE  x \in DOMAIN c0_watch /\ c0_watch[x] = common_watch[x]
  BY DEF PartOf
<1>4. CASE x \in DOMAIN c0_watchlo
  BY <1>1, <1>4, InFirst DEF c0_watch
<1>5. CASE x \notin DOMAIN c0_watchlo
  BY <1>2, <1>5, InSecond DEF c0_watch
<1> QED BY <1>4, <1>5

\* No name is in two of the tables: the control registers,
LEMMA ControlApart == \A x \in DOMAIN c0_control : x \notin DOMAIN c0_mmu
BY DEF c0_mmu, c0_control

\* and the watch registers.
LEMMA WatchApart == \A x \in DOMAIN c0_watch : x \notin DOMAIN c0_mmu \cup DOMAIN c0_control
<1>1. \A x \in DOMAIN c0_watchlo : x \notin DOMAIN c0_mmu \cup DOMAIN c0_control
BY DEF c0_mmu, c0_control, c0_watchlo
<1>2. \A x \in DOMAIN c0_watchhi : x \notin DOMAIN c0_mmu \cup DOMAIN c0_control
BY DEF c0_mmu, c0_control, c0_watchhi
<1> QED BY <1>1, <1>2, BesideIs DEF c0_watch

\* Two parts of a table make a part of it.
LEMMA PartOfBeside ==
  ASSUME NEW f, NEW g, NEW h, PartOf(f, h), PartOf(g, h)
  PROVE  PartOf(Beside(f, g), h)
<1> SUFFICES ASSUME NEW x \in DOMAIN Beside(f, g)
             PROVE  x \in DOMAIN h /\ h[x] = Beside(f, g)[x]
  BY DEF PartOf
<1>1. CASE x \in DOMAIN f
  BY <1>1, InFirst DEF PartOf
<1>2. CASE x \notin DOMAIN f
  <2>1. x \in DOMAIN g BY <1>2, BesideIs
  <2> QED BY <1>2, <2>1, InSecond DEF PartOf
<1> QED BY <1>1, <1>2

\* Every accessor of common.h is one of mipsregs.h, of the same register and width.
LEMMA CommonPart == PartOf(common, mipsregs)
<1>1. PartOf(c0_mmu, Beside(c0_mmu, c0_control)) BY InFirst DEF PartOf
<1>2. PartOf(c0_control, Beside(c0_mmu, c0_control)) BY ControlApart, InSecond DEF PartOf
<1>3. PartOf(c0_watch, Beside(c0_watch, c0_upper)) BY InFirst DEF PartOf
<1> DEFINE m == Beside(c0_mmu, c0_control)
           h == Beside(c0_watch, c0_upper)
<1>4. PartOf(m, mipsregs) BY InFirst DEF PartOf, mipsregs
<1>5. DOMAIN m = DOMAIN c0_mmu \cup DOMAIN c0_control BY BesideIs
<1>6. mipsregs = Beside(m, h) BY DEF mipsregs
<1>7. PartOf(c0_watch, mipsregs)
  <2> SUFFICES ASSUME NEW x \in DOMAIN c0_watch
               PROVE  x \in DOMAIN mipsregs /\ mipsregs[x] = c0_watch[x]
    BY DEF PartOf
  <2>1. x \notin DOMAIN m BY <1>5, WatchApart
  <2>2. x \in DOMAIN h /\ h[x] = c0_watch[x] BY InFirst
  <2> HIDE DEF m, h
  <2> QED BY <1>6, <2>1, <2>2, InSecond
<1> HIDE DEF m, h
<1>8. PartOf(common_low, mipsregs) BY LowPart, <1>1, <1>4 DEF PartOf, m
<1>9. PartOf(common_control, mipsregs) BY ControlPart, <1>2, <1>4 DEF PartOf, m
<1>10. PartOf(common_watch, mipsregs) BY WatchPart, <1>7 DEF PartOf
<1> QED BY <1>8, <1>9, <1>10, PartOfBeside DEF common
-----------------------------------------------------------------------------
\* The instructions of the accessors.
Instruction == {"mfc0", "mtc0", "dmfc0 M", "dmfc0 L", "dmtc0 L", "dsll L,M", "dsll L",
                "dsll M", "dsra M", "dsra L", "dsrl L", "or L,M", "or set",
                "and ~clear", "or val", "mtc0 new", "save", "restore"}

\* The types; a register of one word is to hold no more than one.
C0Types ==
  /\ long \in {32, 64} /\ StatusReg \in DOMAIN c0
  /\ \A reg \in DOMAIN c0 : c0[reg] \in Register
  /\ thread \in [at : {"idle", "write", "build", "read"}, name : DOMAIN mipsregs,
                 by : {"mipsregs", "common"}, code : Seq(Instruction),
                 M : Register, L : Register, flags : BOOLEAN, bits : Register,
                 val : Register, want : Register, before : Register]
  /\ thread.name \in DOMAIN Header[thread.by]
  /\ thread.at # "idle" => thread.name \notin Ticks
  /\ ~Wide(thread.name) => thread.want.hi = {}

\* Status is as it was, unless it is the register of the access; while
\* interrupts are off, as it was but for them.
Kept(t) == t.name # "status" => Stat = t.before
Off(t) == Stat = WithIE(t.before, FALSE) /\ t.flags = (IE \in t.before.lo)

\* While a value of two words is written: the halves on their way.
SplitWriting(t) ==
  \/ t.code = write_64bit_split /\ Kept(t) /\ t.M.lo = t.want.hi /\ t.L.lo = t.want.lo
  \/ /\ Off(t)
     /\ \/ /\ t.code = <<"dsll L", "dsrl L", "dsll M", "or L,M", "dmtc0 L", "restore">>
           /\ t.M.lo = t.want.hi /\ t.L.lo = t.want.lo
        \/ /\ t.code = <<"dsrl L", "dsll M", "or L,M", "dmtc0 L", "restore">>
           /\ t.M.lo = t.want.hi /\ t.L.hi = t.want.lo
        \/ /\ t.code = <<"dsll M", "or L,M", "dmtc0 L", "restore">>
           /\ t.M.lo = t.want.hi /\ t.L.lo = t.want.lo /\ t.L.hi = {}
        \/ /\ t.code = <<"or L,M", "dmtc0 L", "restore">>
           /\ t.M.hi = t.want.hi /\ t.M.lo = {} /\ t.L.lo = t.want.lo /\ t.L.hi = {}
        \/ t.code = <<"dmtc0 L", "restore">> /\ t.L = t.want
        \/ t.code = <<"restore">> /\ Held = t.want
\* While a register is written.
Writing(t) ==
  \/ t.code = <<>> /\ Kept(t) /\ Held = t.want
  \/ ~Wide(t.name) /\ t.code = <<"mtc0">> /\ Kept(t) /\ t.L.lo = t.want.lo
  \/ Wide(t.name) /\ long = 64 /\ t.code = <<"dmtc0 L">> /\ Kept(t) /\ t.L = t.want
  \/ Wide(t.name) /\ long = 32 /\ SplitWriting(t)

\* While bits are changed: what is left to be done makes the wanted value.
Building(t) ==
  /\ Kept(t) /\ ~Wide(t.name)
  /\ \/ t.code = <<>> /\ Held = t.want
     \/ t.code = <<"mtc0 new">> /\ t.M.lo = t.want.lo
     \/ t.code = <<"or set", "mtc0 new">> /\ t.L.lo \cup t.bits.lo = t.want.lo
     \/ t.code = set_c0 /\ Held.lo \cup t.bits.lo = t.want.lo
     \/ t.code = <<"and ~clear", "mtc0 new">> /\ t.L.lo \ t.bits.lo = t.want.lo
     \/ t.code = clear_c0 /\ Held.lo \ t.bits.lo = t.want.lo
     \/ /\ t.code = <<"or val", "mtc0 new">>
        /\ t.M.lo \cup (t.val.lo \cap t.bits.lo) = t.want.lo
     \/ /\ t.code = <<"and ~clear", "or val", "mtc0 new">>
        /\ (t.L.lo \ t.bits.lo) \cup (t.val.lo \cap t.bits.lo) = t.want.lo
     \/ /\ t.code = change_c0
        /\ (Held.lo \ t.bits.lo) \cup (t.val.lo \cap t.bits.lo) = t.want.lo

\* While a value of two words is read.
SplitReading(t) ==
  \/ t.code = read_64bit_split /\ Kept(t)
  \/ /\ Off(t)
     /\ \/ t.code = <<"dmfc0 M", "dsll L,M", "dsra M", "dsra L", "restore">>
        \/ /\ t.code = <<"dsll L,M", "dsra M", "dsra L", "restore">>
           /\ t.M = t.want
        \/ /\ t.code = <<"dsra M", "dsra L", "restore">>
           /\ t.M = t.want /\ t.L.hi = t.want.lo
        \/ /\ t.code = <<"dsra L", "restore">>
           /\ t.M.lo = t.want.hi /\ t.L.hi = t.want.lo
        \/ t.code = <<"restore">> /\ t.M.lo = t.want.hi /\ t.L.lo = t.want.lo
\* While a register is read, which holds what is to be read.
Reading(t) ==
  /\ Held = t.want
  /\ \/ t.code = <<>> /\ Kept(t) /\ Result = t.want
     \/ ~Wide(t.name) /\ t.code = <<"mfc0">> /\ Kept(t)
     \/ Wide(t.name) /\ long = 64 /\ t.code = <<"dmfc0 L">> /\ Kept(t)
     \/ Wide(t.name) /\ long = 32 /\ SplitReading(t)

\* What is left of an access makes the value that is wanted.
C0Inv ==
  /\ C0Types
  /\ CASE thread.at = "idle" -> thread.code = <<>>
       [] thread.at = "write" -> Writing(thread)
       [] thread.at = "build" -> Building(thread)
       [] thread.at = "read" -> Reading(thread)
-----------------------------------------------------------------------------
\* The instructions make registers of registers.
LEMMA Shut ==
  /\ NoOnes \in Register
  /\ \A x \in Register : /\ Low(x) \in Register /\ High(x) \in Register
                         /\ Raised(x) \in Register /\ SignExtended(x) \in Register
  /\ \A x, y \in Register : /\ Or(x, y) \in Register /\ And(x, y) \in Register
                            /\ AndNot(x, y) \in Register
BY DEF Register, NoOnes, Low, High, Raised, SignExtended, Or, And, AndNot

\* The halves that shifts and extensions leave.
LEMMA Halves ==
  \A x : /\ Low(x).hi = {} /\ Low(x).lo = x.lo /\ High(x).hi = {} /\ High(x).lo = x.hi
         /\ Raised(x).hi = x.lo /\ Raised(x).lo = {} /\ SignExtended(x).lo = x.lo
BY DEF Low, High, Raised, SignExtended

\* Two halves are a register.
LEMMA Equal ==
  ASSUME NEW x \in Register, NEW y \in Register, x.hi = y.hi, x.lo = y.lo
  PROVE  x = y
BY DEF Register

\* Both headers mean the same.
LEMMA Meant ==
  ASSUME NEW by \in {"mipsregs", "common"}, NEW name \in DOMAIN Header[by]
  PROVE  name \in DOMAIN mipsregs /\ Header[by][name] = mipsregs[name]
<1>1. CASE by = "mipsregs" BY <1>1 DEF Header
<1>2. CASE by = "common" BY <1>2, CommonPart DEF Header, PartOf
<1> QED BY <1>1, <1>2

\* Which instructions an access takes, by the width of the register and of a word.
LEMMA Codes ==
  ASSUME NEW by \in {"mipsregs", "common"}, NEW name \in DOMAIN Header[by],
         long \in {32, 64}
  PROVE  /\ ~Wide(name) => ReadCode(by, name) = <<"mfc0">> /\ WriteCode(by, name) = <<"mtc0">>
         /\ Wide(name) /\ long = 64 => /\ ReadCode(by, name) = <<"dmfc0 L">>
                                       /\ WriteCode(by, name) = <<"dmtc0 L">>
         /\ Wide(name) /\ long = 32 => /\ ReadCode(by, name) = read_64bit_split
                                       /\ WriteCode(by, name) = write_64bit_split
<1> DEFINE w == mipsregs[name].width
<1>1. Header[by][name].width = w /\ w \in {"32", "64", "ulong"}
  BY Meant, AllPlain DEF Plain
<1>2. Wide(name) <=> w = "64" \/ (w = "ulong" /\ long = 64)
  BY <1>1 DEF Wide
<1> HIDE DEF w
<1>3. CASE w = "32"
  BY <1>1, <1>2, <1>3 DEF ReadCode, WriteCode, read_32bit, write_32bit,
     common_read_32bit, common_write_32bit
<1>4. CASE w = "64"
  <2>1. ReadCode(by, name) = read_64bit /\ WriteCode(by, name) = write_64bit
    BY <1>1, <1>4 DEF ReadCode, WriteCode
  <2>2. CASE long = 32
    <3>1. ReadCode(by, name) = read_64bit_split /\ WriteCode(by, name) = write_64bit_split
      BY <2>1, <2>2 DEF read_64bit, write_64bit
    <3> QED BY <1>2, <1>4, <2>2, <3>1
  <2>3. CASE long = 64
    <3>1. long # 32
      BY <2>3
    <3>2. ReadCode(by, name) = <<"dmfc0 L">> /\ WriteCode(by, name) = <<"dmtc0 L">>
      BY <2>1, <3>1, Zenon DEF read_64bit, write_64bit
    <3> QED BY <1>2, <1>4, <2>3, <3>1, <3>2, Zenon
  <2> QED BY <2>2, <2>3
<1>5. CASE w = "ulong"
  <2>1. ReadCode(by, name) = read_ulong /\ WriteCode(by, name) = write_ulong
    BY <1>1, <1>5 DEF ReadCode, WriteCode
  <2>2. Wide(name) <=> long = 64
    BY <1>2, <1>5
  <2>3. CASE long = 32
    <3>1. ReadCode(by, name) = <<"mfc0">> /\ WriteCode(by, name) = <<"mtc0">>
      BY <2>1, <2>3 DEF read_ulong, write_ulong, read_32bit, write_32bit
    <3> QED BY <2>2, <2>3, <3>1
  <2>4. CASE long = 64
    <3>1. long # 32
      BY <2>4
    <3>2. ReadCode(by, name) = <<"dmfc0 L">> /\ WriteCode(by, name) = <<"dmtc0 L">>
      BY <2>1, <3>1, Zenon DEF read_ulong, write_ulong, read_64bit, write_64bit
    <3> QED BY <2>2, <2>4, <3>1, <3>2, Zenon
  <2> QED BY <2>3, <2>4
<1> QED BY <1>1, <1>3, <1>4, <1>5

\* A register holds a register's value.
LEMMA HeldType == C0Types => Held \in Register
BY Shut DEF C0Types, Held

\* So does Status, with interrupts on or off.
LEMMA StatusTypes ==
  ASSUME C0Types
  PROVE  Stat \in Register /\ \A x \in Register, on \in BOOLEAN : WithIE(x, on) \in Register
<1>1. Stat \in Register BY DEF C0Types, Stat
<1>2. ASSUME NEW x \in Register, NEW on \in BOOLEAN PROVE WithIE(x, on) \in Register
  <2>1. CASE on BY <2>1, C0Assumption DEF WithIE, Register
  <2>2. CASE ~on BY <2>2, C0Assumption DEF WithIE, Register
  <2> QED BY <2>1, <2>2
<1> QED BY <1>1, <1>2

\* What an instruction does, field by field.
LEMMA Executed ==
  ASSUME C0Types, Execute, NEW i, i = Head(thread.code)
  PROVE  /\ thread'.at = thread.at /\ thread'.name = thread.name /\ thread'.by = thread.by
         /\ thread'.bits = thread.bits /\ thread'.val = thread.val /\ thread'.want = thread.want
         /\ thread'.before = thread.before /\ thread'.code = Tail(thread.code)
         /\ thread'.flags = IF i = "save" THEN Enabled ELSE thread.flags
         /\ thread'.M = AfterM(i) /\ thread'.L = AfterL(i)
         /\ long' = long
BY DEF Execute, C0Types

\* One register becomes x, the others stay.
Becomes(reg, x) ==
  /\ DOMAIN c0' = {reg} \cup DOMAIN c0 /\ c0'[reg] = x
  /\ \A r \in DOMAIN c0 : r # reg => c0'[r] = c0[r]

\* So it does when the table is replaced by one with another entry.
LEMMA ReplacedIs ==
  ASSUME NEW reg, NEW x, c0' = Replaced(reg, x) PROVE Becomes(reg, x)
<1> DEFINE f == [r \in {reg} |-> x]
<1>1. DOMAIN f = {reg} /\ f[reg] = x OBVIOUS
<1>2. c0' = Beside(f, c0) BY DEF Replaced
<1> HIDE DEF f
<1>3. c0'[reg] = x BY <1>1, <1>2, InFirst
<1>4. DOMAIN c0' = {reg} \cup DOMAIN c0 BY <1>1, <1>2, BesideIs
<1>5. \A r \in DOMAIN c0 : r # reg => c0'[r] = c0[r] BY <1>1, <1>2, InSecond
<1> QED BY <1>3, <1>4, <1>5 DEF Becomes

\* An instruction writes the register of the access, or the interrupt enable.
LEMMA Effects ==
  ASSUME C0Types, Execute, NEW i, i = Head(thread.code)
  PROVE  /\ i \in Writes => Becomes(Target, WordTo(i))
         /\ i = "save" => Becomes(StatusReg, WithIE(Stat, FALSE))
         /\ i = "restore" => Becomes(StatusReg, WithIE(Stat, thread.flags))
         /\ i \notin Writes \cup {"save", "restore"} => c0' = c0
<1>1. CASE i \in Writes
  <2>1. c0' = Replaced(Target, WordTo(i)) BY <1>1 DEF Execute
  <2> QED BY <1>1, <2>1, ReplacedIs DEF Writes
<1>2. CASE i = "save"
  <2>1. i \notin Writes /\ ~(i = "restore" /\ thread.flags) BY <1>2 DEF Writes
  <2>2. (i = "restore" /\ thread.flags) = FALSE BY <2>1
  <2>3. c0' = Replaced(StatusReg, WithIE(Stat, FALSE)) BY <1>2, <2>1, <2>2 DEF Execute
  <2> QED BY <1>2, <2>1, <2>3, ReplacedIs
<1>3. CASE i = "restore"
  <2>1. i \notin Writes BY <1>3 DEF Writes
  <2>2. thread.flags \in BOOLEAN BY DEF C0Types
  <2>3. (i = "restore" /\ thread.flags) = thread.flags BY <1>3, <2>2
  <2>4. c0' = Replaced(StatusReg, WithIE(Stat, thread.flags)) BY <1>3, <2>1, <2>3 DEF Execute
  <2> QED BY <1>3, <2>1, <2>4, ReplacedIs
<1>4. CASE i \notin Writes \cup {"save", "restore"}
  <2>1. c0' = c0 BY <1>4 DEF Execute
  <2> QED BY <1>4, <2>1
<1> QED BY <1>1, <1>2, <1>3, <1>4

\* An instruction keeps the types, and changes the register only if it writes it.
LEMMA ExecuteTypes ==
  ASSUME C0Types, Execute
  PROVE  /\ C0Types' /\ Target' = Target
         /\ Head(thread.code) \notin {"save", "restore"} \/ Target # StatusReg =>
              Held' = IF Head(thread.code) \in Writes THEN WordTo(Head(thread.code)) ELSE Held
<1> DEFINE i == Head(thread.code)
<1>1. AfterM(i) \in Register /\ AfterL(i) \in Register
  BY Shut, HeldType DEF AfterM, AfterL, C0Types
<1>2. WordTo(i) \in Register \/ i \notin Writes
  BY Shut DEF WordTo, Writes, C0Types
<1>3. Tail(thread.code) \in Seq(Instruction)
  BY HeadTailProperties DEF C0Types, Execute
<1>4. Target' = Target
  BY Executed DEF Target
<1>5. Stat \in Register /\ WithIE(Stat, FALSE) \in Register /\ WithIE(Stat, thread.flags) \in Register
  BY StatusTypes DEF C0Types
<1>6. /\ \A reg \in DOMAIN c0 : c0[reg] \in Register
      /\ StatusReg \in DOMAIN c0
  BY DEF C0Types
<1> HIDE DEF i
<1> DEFINE Typed == StatusReg \in DOMAIN c0' /\ \A reg \in DOMAIN c0' : c0'[reg] \in Register
           Leaves == Typed /\ (i \notin {"save", "restore"} \/ Target # StatusReg =>
                                 Held' = IF i \in Writes THEN WordTo(i) ELSE Held)
<1>7. ASSUME i \in Writes PROVE Leaves
  <2>1. /\ DOMAIN c0' = {Target} \cup DOMAIN c0 /\ c0'[Target] = WordTo(i)
        /\ \A r \in DOMAIN c0 : r # Target => c0'[r] = c0[r]
    BY <1>7, Effects DEF i, Becomes
  <2>2. Typed BY <1>2, <1>6, <1>7, <2>1
  <2>3. Held' = WordTo(i) BY <1>4, <2>1 DEF Held
  <2> QED BY <1>7, <2>2, <2>3
<1>8. ASSUME i \in {"save", "restore"} PROVE Leaves
  <2>1. PICK x \in Register : Becomes(StatusReg, x) BY <1>5, <1>8, Effects DEF i
  <2>2. i \notin Writes BY <1>8 DEF Writes
  <2>3. Typed BY <1>6, <2>1 DEF Becomes
  <2>4. Target # StatusReg => Held' = Held BY <1>4, <2>1 DEF Held, Becomes
  <2> QED BY <1>8, <2>2, <2>3, <2>4
<1>9. ASSUME i \notin Writes \cup {"save", "restore"} PROVE Leaves
  <2>1. c0' = c0 BY <1>9, Effects DEF i
  <2>2. Held' = Held BY <1>4, <2>1 DEF Held
  <2> QED BY <1>6, <1>9, <2>1, <2>2
<1>10. Leaves
  BY <1>7, <1>8, <1>9
<1>11. long' = long
  BY DEF Execute
<1>12. thread' \in [at : {"idle", "write", "build", "read"}, name : DOMAIN mipsregs,
                   by : {"mipsregs", "common"}, code : Seq(Instruction),
                   M : Register, L : Register, flags : BOOLEAN, bits : Register,
                   val : Register, want : Register, before : Register]
  <2>1. Enabled \in BOOLEAN BY DEF Enabled
  <2> QED BY <1>1, <1>3, <2>1 DEF Execute, C0Types, i
<1>13. Wide(thread.name)' = Wide(thread.name)
  BY Executed DEF Wide
<1>14. /\ thread'.name \in DOMAIN Header[thread'.by]
       /\ thread'.at # "idle" => thread'.name \notin Ticks
       /\ ~Wide(thread.name)' => thread'.want.hi = {}
  BY <1>13, Executed DEF C0Types
<1> QED BY <1>4, <1>10, <1>11, <1>12, <1>14 DEF C0Types, i

\* Only the accessors of Status access it, and they take one word.
LEMMA StatusNamed ==
  ASSUME C0Types
  PROVE  /\ Target = StatusReg <=> thread.name = "status"
         /\ Wide(thread.name) => thread.name # "status"
<1>1. thread.name \in DOMAIN mipsregs /\ Target = mipsregs[thread.name].reg
  BY Meant DEF C0Types, Target
<1>2. Target = StatusReg <=> thread.name = "status"
  BY <1>1, StatusRegister, AllPlain DEF Plain, StatusReg
<1>3. thread.name = "status" => mipsregs[thread.name].width = "32"
  BY <1>1, AllPlain DEF Plain, BuildSet
<1> QED BY <1>2, <1>3 DEF Wide

\* No other instruction touches Status, unless it is the register of the access;
LEMMA Untouched ==
  ASSUME C0Types, Execute, Head(thread.code) \notin {"save", "restore"}
  PROVE  /\ Kept(thread) => Kept(thread)'
         /\ Wide(thread.name) /\ Off(thread) => Off(thread)'
<1> DEFINE i == Head(thread.code)
<1>1. thread.name # "status" => Stat' = Stat
  <2>1. StatusReg \in DOMAIN c0 BY DEF C0Types
  <2>2. thread.name # "status" => Target # StatusReg BY StatusNamed
  <2>3. CASE i \in Writes BY <2>1, <2>2, <2>3, Effects DEF Stat, Becomes
  <2>4. CASE i \notin Writes
    <3>1. c0' = c0 BY <2>4, Effects
    <3> QED BY <3>1 DEF Stat
  <2> QED BY <2>3, <2>4
<1>2. /\ thread'.name = thread.name /\ thread'.before = thread.before
      /\ thread'.flags = thread.flags
  BY Executed
<1>3. Wide(thread.name) => thread.name # "status" BY StatusNamed
<1>4. Kept(thread) => Kept(thread)' BY <1>1, <1>2 DEF Kept
<1>5. Wide(thread.name) /\ Off(thread) => Off(thread)' BY <1>1, <1>2, <1>3 DEF Off, WithIE
<1> QED BY <1>4, <1>5

\* local_irq_save turns interrupts off,
LEMMA Saves ==
  ASSUME C0Types, Execute, Head(thread.code) = "save", Kept(thread), Wide(thread.name)
  PROVE  Off(thread)' /\ Held' = Held
<1>1. thread.name # "status" /\ Target # StatusReg BY StatusNamed
<1>2. Held' = Held BY <1>1, ExecuteTypes DEF Writes
<1>3. Stat = thread.before BY <1>1 DEF Kept
<1>4. Stat' = WithIE(Stat, FALSE) BY Effects DEF Stat, Becomes
<1>5. thread'.before = thread.before /\ thread'.flags = (IE \in thread.before.lo)
  BY <1>3, Executed DEF Enabled
<1> QED BY <1>2, <1>3, <1>4, <1>5 DEF Off, WithIE

\* and local_irq_restore leaves Status as it was.
LEMMA Restores ==
  ASSUME C0Types, Execute, Head(thread.code) = "restore", Off(thread), Wide(thread.name)
  PROVE  Kept(thread)' /\ Held' = Held
<1>1. thread.name # "status" /\ Target # StatusReg BY StatusNamed
<1>2. Held' = Held BY <1>1, ExecuteTypes DEF Writes
<1>3. thread.before \in Register BY DEF C0Types
<1>4. WithIE(WithIE(thread.before, FALSE), IE \in thread.before.lo) = thread.before
  <2>1. CASE IE \in thread.before.lo
    <3>1. WithIE(WithIE(thread.before, FALSE), TRUE) = thread.before
      BY <1>3, <2>1 DEF WithIE, Register
    <3>2. (IE \in thread.before.lo) = TRUE BY <2>1
    <3> QED BY <3>1, <3>2
  <2>2. CASE IE \notin thread.before.lo
    <3>1. WithIE(WithIE(thread.before, FALSE), FALSE) = thread.before
      BY <1>3, <2>2 DEF WithIE, Register
    <3>2. (IE \in thread.before.lo) = FALSE BY <2>2
    <3> QED BY <3>1, <3>2
  <2> QED BY <2>1, <2>2
<1>5. Stat' = WithIE(Stat, thread.flags) BY Effects DEF Stat, Becomes
<1>6. Stat' = thread.before
  <2>1. Stat = WithIE(thread.before, FALSE) /\ thread.flags = (IE \in thread.before.lo) BY DEF Off
  <2> QED BY <1>4, <1>5, <2>1
<1>7. thread'.before = thread.before BY Executed
<1> QED BY <1>2, <1>6, <1>7 DEF Kept
-----------------------------------------------------------------------------
\* The first of some instructions, and those behind it.
Begins(code, i, rest) == code # <<>> /\ Head(code) = i /\ Tail(code) = rest

\* A row of instructions begins with its first.
LEMMA Rows ==
  ASSUME NEW a, NEW b, NEW c, NEW d, NEW e, NEW f, NEW g
  PROVE  /\ Begins(<<a>>, a, <<>>)
         /\ Begins(<<a, b>>, a, <<b>>)
         /\ Begins(<<a, b, c>>, a, <<b, c>>)
         /\ Begins(<<a, b, c, d>>, a, <<b, c, d>>)
         /\ Begins(<<a, b, c, d, e>>, a, <<b, c, d, e>>)
         /\ Begins(<<a, b, c, d, e, f>>, a, <<b, c, d, e, f>>)
         /\ Begins(<<a, b, c, d, e, f, g>>, a, <<b, c, d, e, f, g>>)
<1>1. Begins(<<a>>, a, <<>>)
  BY DEF Begins
<1>2. Begins(<<a, b>>, a, <<b>>)
  BY DEF Begins
<1>3. Begins(<<a, b, c>>, a, <<b, c>>)
  BY DEF Begins
<1>4. Begins(<<a, b, c, d>>, a, <<b, c, d>>)
  BY DEF Begins
<1>5. Begins(<<a, b, c, d, e>>, a, <<b, c, d, e>>)
  BY DEF Begins
<1>6. Begins(<<a, b, c, d, e, f>>, a, <<b, c, d, e, f>>)
  BY DEF Begins
<1>7. Begins(<<a, b, c, d, e, f, g>>, a, <<b, c, d, e, f, g>>)
  BY DEF Begins
<1> QED BY <1>1, <1>2, <1>3, <1>4, <1>5, <1>6, <1>7

\* The rows of the accessors, taken apart.
LEMMA Row ==
  /\ Begins(write_64bit_split, "save",
            <<"dsll L", "dsrl L", "dsll M", "or L,M", "dmtc0 L", "restore">>)
  /\ Begins(<<"dsll L", "dsrl L", "dsll M", "or L,M", "dmtc0 L", "restore">>, "dsll L",
            <<"dsrl L", "dsll M", "or L,M", "dmtc0 L", "restore">>)
  /\ Begins(<<"dsrl L", "dsll M", "or L,M", "dmtc0 L", "restore">>, "dsrl L",
            <<"dsll M", "or L,M", "dmtc0 L", "restore">>)
  /\ Begins(<<"dsll M", "or L,M", "dmtc0 L", "restore">>, "dsll M",
            <<"or L,M", "dmtc0 L", "restore">>)
  /\ Begins(<<"or L,M", "dmtc0 L", "restore">>, "or L,M", <<"dmtc0 L", "restore">>)
  /\ Begins(<<"dmtc0 L", "restore">>, "dmtc0 L", <<"restore">>)
  /\ Begins(<<"restore">>, "restore", <<>>)
  /\ Begins(read_64bit_split, "save", <<"dmfc0 M", "dsll L,M", "dsra M", "dsra L", "restore">>)
  /\ Begins(<<"dmfc0 M", "dsll L,M", "dsra M", "dsra L", "restore">>, "dmfc0 M",
            <<"dsll L,M", "dsra M", "dsra L", "restore">>)
  /\ Begins(<<"dsll L,M", "dsra M", "dsra L", "restore">>, "dsll L,M",
            <<"dsra M", "dsra L", "restore">>)
  /\ Begins(<<"dsra M", "dsra L", "restore">>, "dsra M", <<"dsra L", "restore">>)
  /\ Begins(<<"dsra L", "restore">>, "dsra L", <<"restore">>)
  /\ Begins(set_c0, "mfc0", <<"or set", "mtc0 new">>)
  /\ Begins(<<"or set", "mtc0 new">>, "or set", <<"mtc0 new">>)
  /\ Begins(<<"mtc0 new">>, "mtc0 new", <<>>)
  /\ Begins(clear_c0, "mfc0", <<"and ~clear", "mtc0 new">>)
  /\ Begins(<<"and ~clear", "mtc0 new">>, "and ~clear", <<"mtc0 new">>)
  /\ Begins(change_c0, "mfc0", <<"and ~clear", "or val", "mtc0 new">>)
  /\ Begins(<<"and ~clear", "or val", "mtc0 new">>, "and ~clear", <<"or val", "mtc0 new">>)
  /\ Begins(<<"or val", "mtc0 new">>, "or val", <<"mtc0 new">>)
  /\ Begins(<<"mtc0">>, "mtc0", <<>>)
  /\ Begins(<<"dmtc0 L">>, "dmtc0 L", <<>>)
  /\ Begins(<<"mfc0">>, "mfc0", <<>>)
  /\ Begins(<<"dmfc0 L">>, "dmfc0 L", <<>>)
<1>1. Begins(write_64bit_split, "save",
             <<"dsll L", "dsrl L", "dsll M", "or L,M", "dmtc0 L", "restore">>)
  BY Rows DEF write_64bit_split
<1>2. Begins(<<"dsll L", "dsrl L", "dsll M", "or L,M", "dmtc0 L", "restore">>, "dsll L",
             <<"dsrl L", "dsll M", "or L,M", "dmtc0 L", "restore">>)
  BY Rows
<1>3. Begins(<<"dsrl L", "dsll M", "or L,M", "dmtc0 L", "restore">>, "dsrl L",
             <<"dsll M", "or L,M", "dmtc0 L", "restore">>)
  BY Rows
<1>4. Begins(<<"dsll M", "or L,M", "dmtc0 L", "restore">>, "dsll M",
             <<"or L,M", "dmtc0 L", "restore">>)
  BY Rows
<1>5. Begins(<<"or L,M", "dmtc0 L", "restore">>, "or L,M", <<"dmtc0 L", "restore">>)
  BY Rows
<1>6. Begins(<<"dmtc0 L", "restore">>, "dmtc0 L", <<"restore">>)
  BY Rows
<1>7. Begins(<<"restore">>, "restore", <<>>)
  BY Rows
<1>8. Begins(read_64bit_split, "save", <<"dmfc0 M", "dsll L,M", "dsra M", "dsra L", "restore">>)
  BY Rows DEF read_64bit_split
<1>9. Begins(<<"dmfc0 M", "dsll L,M", "dsra M", "dsra L", "restore">>, "dmfc0 M",
             <<"dsll L,M", "dsra M", "dsra L", "restore">>)
  BY Rows
<1>10. Begins(<<"dsll L,M", "dsra M", "dsra L", "restore">>, "dsll L,M",
              <<"dsra M", "dsra L", "restore">>)
  BY Rows
<1>11. Begins(<<"dsra M", "dsra L", "restore">>, "dsra M", <<"dsra L", "restore">>)
  BY Rows
<1>12. Begins(<<"dsra L", "restore">>, "dsra L", <<"restore">>)
  BY Rows
<1>13. Begins(set_c0, "mfc0", <<"or set", "mtc0 new">>)
  BY Rows DEF set_c0
<1>14. Begins(<<"or set", "mtc0 new">>, "or set", <<"mtc0 new">>)
  BY Rows
<1>15. Begins(<<"mtc0 new">>, "mtc0 new", <<>>)
  BY Rows
<1>16. Begins(clear_c0, "mfc0", <<"and ~clear", "mtc0 new">>)
  BY Rows DEF clear_c0
<1>17. Begins(<<"and ~clear", "mtc0 new">>, "and ~clear", <<"mtc0 new">>)
  BY Rows
<1>18. Begins(change_c0, "mfc0", <<"and ~clear", "or val", "mtc0 new">>)
  BY Rows DEF change_c0
<1>19. Begins(<<"and ~clear", "or val", "mtc0 new">>, "and ~clear", <<"or val", "mtc0 new">>)
  BY Rows
<1>20. Begins(<<"or val", "mtc0 new">>, "or val", <<"mtc0 new">>)
  BY Rows
<1>21. Begins(<<"mtc0">>, "mtc0", <<>>)
  BY Rows
<1>22. Begins(<<"dmtc0 L">>, "dmtc0 L", <<>>)
  BY Rows
<1>23. Begins(<<"mfc0">>, "mfc0", <<>>)
  BY Rows
<1>24. Begins(<<"dmfc0 L">>, "dmfc0 L", <<>>)
  BY Rows
<1> QED
  BY <1>1, <1>2, <1>3, <1>4, <1>5, <1>6, <1>7, <1>8, <1>9, <1>10, <1>11, <1>12,
     <1>13, <1>14, <1>15, <1>16, <1>17, <1>18, <1>19, <1>20, <1>21, <1>22, <1>23, <1>24

\* Each instruction of a write leaves less to be done.
LEMMA WriteStep ==
  ASSUME C0Types, Execute, Writing(thread)
  PROVE  Writing(thread)'
<1> DEFINE t == thread
           u == thread'
           i == Head(thread.code)
<1>1. /\ t.M \in Register /\ t.L \in Register /\ t.want \in Register
      /\ u.M \in Register /\ u.L \in Register
      /\ ~Wide(t.name) => t.want.hi = {}
  BY ExecuteTypes DEF C0Types
<1>2. /\ u.name = t.name /\ u.want = t.want /\ u.before = t.before /\ u.code = Tail(t.code)
      /\ u.M = AfterM(i) /\ u.L = AfterL(i)
      /\ long' = long
  BY Executed
<1>3. i \notin {"save", "restore"} => Held' = IF i \in Writes THEN WordTo(i) ELSE Held
  BY ExecuteTypes
<1>9. i \notin {"save", "restore"} =>
        (Kept(t) => Kept(t)') /\ (Wide(t.name) /\ Off(t) => Off(t)')
  BY Untouched
<1>4. Wide(t.name)' = Wide(t.name)
  BY <1>2 DEF Wide
<1>5. t.code # <<>>
  BY DEF Execute
<1>6. CASE ~Wide(t.name) /\ t.code = <<"mtc0">> /\ Kept(t) /\ t.L.lo = t.want.lo
  <2>1. i = "mtc0" /\ u.code = <<>>
    BY <1>2, <1>6, Row DEF Begins
  <2>2. Held' = t.want
    BY <1>1, <1>3, <1>6, <2>1, Equal, Shut DEF Writes, WordTo, Low
  <2> QED BY <1>2, <1>6, <1>9, <2>1, <2>2 DEF Writing
<1>7. CASE Wide(t.name) /\ long = 64 /\ t.code = <<"dmtc0 L">> /\ Kept(t) /\ t.L = t.want
  <2>1. i = "dmtc0 L" /\ u.code = <<>>
    BY <1>2, <1>7, Row DEF Begins
  <2> QED BY <1>2, <1>3, <1>7, <1>9, <2>1 DEF Writing, Writes, WordTo
<1>8. CASE Wide(t.name) /\ long = 32 /\ SplitWriting(t)
  <2> SUFFICES SplitWriting(t)' \/ (u.code = <<>> /\ Kept(t)' /\ Held' = u.want)
    BY <1>2, <1>4, <1>8 DEF Writing
  <2>1. CASE t.code = write_64bit_split /\ Kept(t) /\ t.M.lo = t.want.hi /\ t.L.lo = t.want.lo
    <3>1. i = "save" /\ u.code = <<"dsll L", "dsrl L", "dsll M", "or L,M", "dmtc0 L", "restore">>
      BY <1>2, <2>1, Row DEF Begins
    <3>2. Off(t)' BY <1>8, <2>1, <3>1, Saves
    <3> QED BY <1>2, <2>1, <3>1, <3>2 DEF SplitWriting, AfterM, AfterL
  <2>2. CASE /\ t.code = <<"dsll L", "dsrl L", "dsll M", "or L,M", "dmtc0 L", "restore">>
             /\ Off(t) /\ t.M.lo = t.want.hi /\ t.L.lo = t.want.lo
    <3>1. i = "dsll L" /\ u.code = <<"dsrl L", "dsll M", "or L,M", "dmtc0 L", "restore">>
      BY <1>2, <2>2, Row DEF Begins
    <3>2. u.M = t.M /\ u.L = Raised(t.L)
      BY <1>2, <3>1 DEF AfterM, AfterL
    <3>3. u.L.hi = t.L.lo
      BY <3>2, Halves
    <3> QED BY <1>2, <1>8, <1>9, <2>2, <3>1, <3>2, <3>3 DEF SplitWriting
  <2>3. CASE /\ t.code = <<"dsrl L", "dsll M", "or L,M", "dmtc0 L", "restore">>
             /\ Off(t) /\ t.M.lo = t.want.hi /\ t.L.hi = t.want.lo
    <3>1. i = "dsrl L" /\ u.code = <<"dsll M", "or L,M", "dmtc0 L", "restore">>
      BY <1>2, <2>3, Row DEF Begins
    <3>2. u.M = t.M /\ u.L = High(t.L)
      BY <1>2, <3>1 DEF AfterM, AfterL
    <3>3. u.L.lo = t.L.hi /\ u.L.hi = {}
      BY <3>2, Halves
    <3> QED BY <1>2, <1>8, <1>9, <2>3, <3>1, <3>2, <3>3 DEF SplitWriting
  <2>4. CASE /\ t.code = <<"dsll M", "or L,M", "dmtc0 L", "restore">>
             /\ Off(t) /\ t.M.lo = t.want.hi /\ t.L.lo = t.want.lo /\ t.L.hi = {}
    <3>1. i = "dsll M" /\ u.code = <<"or L,M", "dmtc0 L", "restore">>
      BY <1>2, <2>4, Row DEF Begins
    <3>2. u.M = Raised(t.M) /\ u.L = t.L
      BY <1>2, <3>1 DEF AfterM, AfterL
    <3>3. u.M.hi = t.M.lo /\ u.M.lo = {}
      BY <3>2, Halves
    <3> QED BY <1>2, <1>8, <1>9, <2>4, <3>1, <3>2, <3>3 DEF SplitWriting
  <2>5. CASE /\ t.code = <<"or L,M", "dmtc0 L", "restore">>
             /\ Off(t) /\ t.M.hi = t.want.hi /\ t.M.lo = {} /\ t.L.lo = t.want.lo /\ t.L.hi = {}
    <3>1. i = "or L,M" /\ u.code = <<"dmtc0 L", "restore">>
      BY <1>2, <2>5, Row DEF Begins
    <3>2. u.L = Or(t.L, t.M)
      BY <1>2, <3>1 DEF AfterL
    <3>3. u.L.hi = t.L.hi \cup t.M.hi /\ u.L.lo = t.L.lo \cup t.M.lo
      BY <3>2 DEF Or
    <3>4. u.L.hi = t.want.hi /\ u.L.lo = t.want.lo
      BY <2>5, <3>3
    <3>5. u.L = t.want
      BY <1>1, <3>4, Equal
    <3> QED BY <1>2, <1>8, <1>9, <2>5, <3>1, <3>5 DEF SplitWriting
  <2>6. CASE t.code = <<"dmtc0 L", "restore">> /\ Off(t) /\ t.L = t.want
    <3>1. i = "dmtc0 L" /\ u.code = <<"restore">>
      BY <1>2, <2>6, Row DEF Begins
    <3> QED BY <1>2, <1>3, <1>8, <1>9, <2>6, <3>1 DEF SplitWriting, Writes, WordTo
  <2>7. CASE t.code = <<"restore">> /\ Off(t) /\ Held = t.want
    <3>1. i = "restore" /\ u.code = <<>>
      BY <1>2, <2>7, Row DEF Begins
    <3>2. Kept(t)' /\ Held' = Held BY <1>8, <2>7, <3>1, Restores
    <3> QED BY <1>2, <2>7, <3>1, <3>2
  <2> QED BY <1>8, <2>1, <2>2, <2>3, <2>4, <2>5, <2>6, <2>7 DEF SplitWriting
<1> QED BY <1>5, <1>6, <1>7, <1>8 DEF Writing

\* Each instruction of set, clear or change leaves less to be done.
LEMMA BuildStep ==
  ASSUME C0Types, Execute, Building(thread)
  PROVE  Building(thread)'
<1> DEFINE t == thread
           u == thread'
           i == Head(thread.code)
<1>1. /\ t.L \in Register /\ t.want \in Register /\ t.want.hi = {}
      /\ u.M \in Register /\ Held \in Register
  BY ExecuteTypes, HeldType DEF C0Types, Building
<1>2. /\ u.name = t.name /\ u.want = t.want /\ u.before = t.before /\ u.code = Tail(t.code)
      /\ u.bits = t.bits /\ u.val = t.val
      /\ u.M = AfterM(i) /\ u.L = AfterL(i)
      /\ long' = long
  BY Executed
<1>3. i \notin {"save", "restore"} => Held' = IF i \in Writes THEN WordTo(i) ELSE Held
  BY ExecuteTypes
<1>15. i \notin {"save", "restore"} => Kept(t)'
  BY Untouched DEF Building
<1>4. ~Wide(t.name)' /\ ~Wide(t.name)
  BY <1>2 DEF Wide, Building
<1>5. t.code # <<>>
  BY DEF Execute
<1>6. CASE t.code = <<"mtc0 new">> /\ t.M.lo = t.want.lo
  <2>1. i = "mtc0 new" /\ u.code = <<>>
    BY <1>2, <1>6, Row DEF Begins
  <2>2. Held' = Low(t.M)
    BY <1>3, <2>1 DEF Writes, WordTo
  <2>3. Low(t.M) = t.want
    <3>1. Low(t.M) \in Register /\ Low(t.M).hi = {} /\ Low(t.M).lo = t.M.lo
      BY Shut, Halves DEF C0Types
    <3>2. t.M.lo = t.want.lo
      BY <1>6
    <3> QED BY <1>1, <3>1, <3>2, Equal
  <2> QED BY <1>2, <1>4, <1>15, <2>1, <2>2, <2>3 DEF Building
<1>7. CASE t.code = <<"or set", "mtc0 new">> /\ t.L.lo \cup t.bits.lo = t.want.lo
  <2>1. i = "or set" /\ u.code = <<"mtc0 new">>
    BY <1>2, <1>7, Row DEF Begins
  <2>2. u.M = Or(t.L, t.bits)
    BY <1>2, <2>1 DEF AfterM
  <2>3. u.M.lo = t.L.lo \cup t.bits.lo
    BY <2>2 DEF Or
  <2> QED BY <1>2, <1>4, <1>7, <1>15, <2>1, <2>3 DEF Building
<1>8. CASE t.code = <<"and ~clear", "mtc0 new">> /\ t.L.lo \ t.bits.lo = t.want.lo
  <2>1. i = "and ~clear" /\ u.code = <<"mtc0 new">>
    BY <1>2, <1>8, Row DEF Begins
  <2>2. u.M = AndNot(t.L, t.bits)
    BY <1>2, <2>1 DEF AfterM
  <2>3. u.M.lo = t.L.lo \ t.bits.lo
    BY <2>2 DEF AndNot
  <2> QED BY <1>2, <1>4, <1>8, <1>15, <2>1, <2>3 DEF Building
<1>9. CASE /\ t.code = <<"and ~clear", "or val", "mtc0 new">>
           /\ (t.L.lo \ t.bits.lo) \cup (t.val.lo \cap t.bits.lo) = t.want.lo
  <2>1. i = "and ~clear" /\ u.code = <<"or val", "mtc0 new">>
    BY <1>2, <1>9, Row DEF Begins
  <2>2. u.M = AndNot(t.L, t.bits)
    BY <1>2, <2>1 DEF AfterM
  <2>3. u.M.lo = t.L.lo \ t.bits.lo
    BY <2>2 DEF AndNot
  <2> QED BY <1>2, <1>4, <1>9, <1>15, <2>1, <2>3 DEF Building
<1>10. CASE /\ t.code = <<"or val", "mtc0 new">>
            /\ t.M.lo \cup (t.val.lo \cap t.bits.lo) = t.want.lo
  <2>1. i = "or val" /\ u.code = <<"mtc0 new">>
    BY <1>2, <1>10, Row DEF Begins
  <2>2. u.M = Or(t.M, And(t.val, t.bits))
    BY <1>2, <2>1 DEF AfterM
  <2>3. u.M.lo = t.M.lo \cup (t.val.lo \cap t.bits.lo)
    BY <2>2 DEF Or, And
  <2> QED BY <1>2, <1>4, <1>10, <1>15, <2>1, <2>3 DEF Building
<1>11. ASSUME NEW rest, Begins(t.code, "mfc0", rest)
       PROVE  u.code = rest /\ u.L.lo = Held.lo /\ Kept(t)'
  <2>1. i = "mfc0" /\ u.code = rest
    BY <1>2, <1>11 DEF Begins
  <2>2. u.L = SignExtended(Held)
    BY <1>2, <2>1 DEF AfterL
  <2> QED BY <1>2, <1>4, <1>15, <2>1, <2>2, Halves
<1>12. CASE t.code = set_c0 /\ Held.lo \cup t.bits.lo = t.want.lo
  BY <1>2, <1>4, <1>11, <1>12, Row DEF Building
<1>13. CASE t.code = clear_c0 /\ Held.lo \ t.bits.lo = t.want.lo
  BY <1>2, <1>4, <1>11, <1>13, Row DEF Building
<1>14. CASE /\ t.code = change_c0
            /\ (Held.lo \ t.bits.lo) \cup (t.val.lo \cap t.bits.lo) = t.want.lo
  BY <1>2, <1>4, <1>11, <1>14, Row DEF Building
<1> QED
  BY <1>5, <1>6, <1>7, <1>8, <1>9, <1>10, <1>12, <1>13, <1>14 DEF Building

\* Each instruction of a read leaves less to be done.
LEMMA ReadStep ==
  ASSUME C0Types, Execute, Reading(thread)
  PROVE  Reading(thread)'
<1> DEFINE t == thread
           u == thread'
           i == Head(thread.code)
<1>1. /\ t.M \in Register /\ t.want \in Register /\ Held \in Register
      /\ u.M \in Register /\ u.L \in Register /\ long \in {32, 64}
      /\ ~Wide(t.name) => t.want.hi = {}
  BY ExecuteTypes, HeldType DEF C0Types
<1>2. /\ u.name = t.name /\ u.want = t.want /\ u.before = t.before /\ u.code = Tail(t.code)
      /\ u.M = AfterM(i) /\ u.L = AfterL(i)
      /\ long' = long
  BY Executed
<1>3. i \notin Writes \cup {"save", "restore"} => Held' = u.want
  BY <1>2, ExecuteTypes DEF Reading
<1>9. i \notin {"save", "restore"} =>
        (Kept(t) => Kept(t)') /\ (Wide(t.name) /\ Off(t) => Off(t)')
  BY Untouched
<1>4. Wide(t.name)' = Wide(t.name)
  BY <1>2 DEF Wide
<1>5. t.code # <<>> /\ Held = t.want
  BY DEF Execute, Reading
<1>6. CASE ~Wide(t.name) /\ t.code = <<"mfc0">> /\ Kept(t)
  <2>1. i = "mfc0" /\ u.code = <<>>
    BY <1>2, <1>6, Row DEF Begins
  <2>2. u.L = SignExtended(t.want)
    BY <1>2, <1>5, <2>1 DEF AfterL
  <2>3. Low(u.L) = t.want
    <3>1. Low(u.L) \in Register /\ Low(u.L).hi = {} /\ Low(u.L).lo = t.want.lo
      <4>1. SignExtended(t.want).lo = t.want.lo
        BY Halves
      <4> QED BY <1>1, <2>2, <4>1, Shut, Halves
    <3>2. t.want.hi = {}
      BY <1>1, <1>6
    <3> QED BY <1>1, <3>1, <3>2, Equal
  <2>4. Result' = u.want
    BY <1>2, <1>4, <1>6, <2>3 DEF Result
  <2> QED BY <1>2, <1>3, <1>6, <1>9, <2>1, <2>4 DEF Reading, Writes
<1>7. CASE Wide(t.name) /\ long = 64 /\ t.code = <<"dmfc0 L">> /\ Kept(t)
  <2>1. i = "dmfc0 L" /\ u.code = <<>>
    BY <1>2, <1>7, Row DEF Begins
  <2>2. u.L = t.want
    BY <1>2, <1>5, <2>1 DEF AfterL
  <2>3. Result' = u.want
    BY <1>2, <1>4, <1>7, <2>2 DEF Result
  <2> QED BY <1>2, <1>3, <1>7, <1>9, <2>1, <2>3 DEF Reading, Writes
<1>8. CASE Wide(t.name) /\ long = 32 /\ SplitReading(t)
  <2>1. CASE t.code = read_64bit_split /\ Kept(t)
    <3>1. i = "save" /\ u.code = <<"dmfc0 M", "dsll L,M", "dsra M", "dsra L", "restore">>
      BY <1>2, <2>1, Row DEF Begins
    <3>2. Off(t)' /\ Held' = Held BY <1>8, <2>1, <3>1, Saves
    <3>3. SplitReading(t)'
      BY <1>2, <2>1, <3>1, <3>2 DEF SplitReading
    <3> QED BY <1>2, <1>4, <1>5, <1>8, <3>1, <3>2, <3>3 DEF Reading
  <2>2. CASE t.code = <<"dmfc0 M", "dsll L,M", "dsra M", "dsra L", "restore">> /\ Off(t)
    <3>1. i = "dmfc0 M" /\ u.code = <<"dsll L,M", "dsra M", "dsra L", "restore">>
      BY <1>2, <2>2, Row DEF Begins
    <3>2. u.M = t.want
      BY <1>2, <1>5, <3>1 DEF AfterM
    <3>3. SplitReading(t)'
      BY <1>2, <1>8, <1>9, <2>2, <3>1, <3>2 DEF SplitReading
    <3> QED BY <1>2, <1>3, <1>4, <1>8, <3>1, <3>3 DEF Reading, Writes
  <2>3. CASE t.code = <<"dsll L,M", "dsra M", "dsra L", "restore">> /\ Off(t) /\ t.M = t.want
    <3>1. i = "dsll L,M" /\ u.code = <<"dsra M", "dsra L", "restore">>
      BY <1>2, <2>3, Row DEF Begins
    <3>2. u.M = t.M /\ u.L = Raised(t.M)
      BY <1>2, <3>1 DEF AfterM, AfterL
    <3>3. u.L.hi = t.M.lo
      BY <3>2, Halves
    <3>4. SplitReading(t)'
      BY <1>2, <1>8, <1>9, <2>3, <3>1, <3>2, <3>3 DEF SplitReading
    <3> QED BY <1>2, <1>3, <1>4, <1>8, <3>1, <3>4 DEF Reading, Writes
  <2>4. CASE /\ t.code = <<"dsra M", "dsra L", "restore">>
             /\ Off(t) /\ t.M = t.want /\ t.L.hi = t.want.lo
    <3>1. i = "dsra M" /\ u.code = <<"dsra L", "restore">>
      BY <1>2, <2>4, Row DEF Begins
    <3>2. u.M = SignExtended(High(t.M)) /\ u.L = t.L
      BY <1>2, <3>1 DEF AfterM, AfterL
    <3>3. u.M.lo = t.M.hi
      BY <3>2 DEF SignExtended, High
    <3>4. SplitReading(t)'
      BY <1>2, <1>8, <1>9, <2>4, <3>1, <3>2, <3>3 DEF SplitReading
    <3> QED BY <1>2, <1>3, <1>4, <1>8, <3>1, <3>4 DEF Reading, Writes
  <2>5. CASE /\ t.code = <<"dsra L", "restore">>
             /\ Off(t) /\ t.M.lo = t.want.hi /\ t.L.hi = t.want.lo
    <3>1. i = "dsra L" /\ u.code = <<"restore">>
      BY <1>2, <2>5, Row DEF Begins
    <3>2. u.L = SignExtended(High(t.L)) /\ u.M = t.M
      BY <1>2, <3>1 DEF AfterM, AfterL
    <3>3. u.L.lo = t.L.hi
      BY <3>2 DEF SignExtended, High
    <3>4. SplitReading(t)'
      BY <1>2, <1>8, <1>9, <2>5, <3>1, <3>2, <3>3 DEF SplitReading
    <3> QED BY <1>2, <1>3, <1>4, <1>8, <3>1, <3>4 DEF Reading, Writes
  <2>6. CASE t.code = <<"restore">> /\ Off(t) /\ t.M.lo = t.want.hi /\ t.L.lo = t.want.lo
    <3>1. i = "restore" /\ u.code = <<>>
      BY <1>2, <2>6, Row DEF Begins
    <3>2. u.L = t.L /\ u.M = t.M
      BY <1>2, <3>1 DEF AfterM, AfterL
    <3>3. Or(Raised(u.M), Low(u.L)) \in Register
      BY <1>1, Shut
    <3>4. Or(Raised(u.M), Low(u.L)).hi = t.want.hi /\ Or(Raised(u.M), Low(u.L)).lo = t.want.lo
      <4>1. t.M.lo = t.want.hi /\ t.L.lo = t.want.lo
        BY <2>6
      <4>2. Raised(t.M).hi = t.M.lo /\ Raised(t.M).lo = {} /\ Low(t.L).hi = {} /\ Low(t.L).lo = t.L.lo
        BY Halves
      <4>3. /\ Or(Raised(t.M), Low(t.L)).hi = Raised(t.M).hi \cup Low(t.L).hi
            /\ Or(Raised(t.M), Low(t.L)).lo = Raised(t.M).lo \cup Low(t.L).lo
        BY DEF Or
      <4> QED BY <3>2, <4>1, <4>2, <4>3
    <3>5. Or(Raised(u.M), Low(u.L)) = t.want
      BY <1>1, <3>3, <3>4, Equal
    <3>6. Result' = u.want
      BY <1>2, <1>4, <1>8, <3>5 DEF Result
    <3>7. Kept(t)' /\ Held' = Held BY <1>8, <2>6, <3>1, Restores
    <3> QED BY <1>2, <1>5, <2>6, <3>1, <3>6, <3>7 DEF Reading
  <2> QED BY <1>8, <2>1, <2>2, <2>3, <2>4, <2>5, <2>6 DEF SplitReading
<1> QED BY <1>5, <1>6, <1>7, <1>8 DEF Reading
-----------------------------------------------------------------------------
\* The rows of instructions are sequences.
LEMMA InRows ==
  ASSUME NEW a \in Instruction, NEW b \in Instruction, NEW c \in Instruction,
         NEW d \in Instruction, NEW e \in Instruction, NEW f \in Instruction,
         NEW g \in Instruction
  PROVE  /\ <<a, b, c, d>> \in Seq(Instruction)
         /\ <<a, b, c, d, e, f>> \in Seq(Instruction)
         /\ <<a, b, c, d, e, f, g>> \in Seq(Instruction)
OBVIOUS

\* The accessors are rows of instructions.
LEMMA AreRows ==
  /\ \A a \in {"mfc0", "mtc0", "dmfc0 L", "dmtc0 L"} : <<a>> \in Seq(Instruction)
  /\ write_64bit_split \in Seq(Instruction) /\ read_64bit_split \in Seq(Instruction)
  /\ set_c0 \in Seq(Instruction) /\ clear_c0 \in Seq(Instruction)
  /\ change_c0 \in Seq(Instruction)
<1>1. /\ "mfc0" \in Instruction /\ "mtc0" \in Instruction /\ "dmfc0 M" \in Instruction
      /\ "dmfc0 L" \in Instruction /\ "dmtc0 L" \in Instruction /\ "dsll L,M" \in Instruction
      /\ "dsll L" \in Instruction /\ "dsll M" \in Instruction /\ "dsra M" \in Instruction
      /\ "dsra L" \in Instruction /\ "dsrl L" \in Instruction /\ "or L,M" \in Instruction
      /\ "or set" \in Instruction /\ "and ~clear" \in Instruction /\ "or val" \in Instruction
      /\ "mtc0 new" \in Instruction /\ "save" \in Instruction /\ "restore" \in Instruction
  BY DEF Instruction
<1>2. write_64bit_split \in Seq(Instruction)
  BY <1>1, InRows DEF write_64bit_split
<1>3. read_64bit_split \in Seq(Instruction)
  BY <1>1, InRows DEF read_64bit_split
<1>4. set_c0 \in Seq(Instruction) /\ clear_c0 \in Seq(Instruction)
  <2>1. \A a, b, c \in Instruction : <<a, b, c>> \in Seq(Instruction)
    OBVIOUS
  <2>2. set_c0 \in Seq(Instruction)
    BY <1>1, <2>1 DEF set_c0
  <2>3. clear_c0 \in Seq(Instruction)
    BY <1>1, <2>1 DEF clear_c0
  <2> QED BY <2>2, <2>3
<1>5. change_c0 \in Seq(Instruction)
  BY <1>1, InRows DEF change_c0
<1>6. \A a \in {"mfc0", "mtc0", "dmfc0 L", "dmtc0 L"} : <<a>> \in Seq(Instruction)
  <2>1. \A a \in Instruction : <<a>> \in Seq(Instruction)
    OBVIOUS
  <2> QED BY <1>1, <2>1
<1> QED BY <1>2, <1>3, <1>4, <1>5, <1>6

\* At first no thread has an access under way.
LEMMA C0InitInv == C0Init => C0Inv
<1> SUFFICES ASSUME C0Init PROVE C0Inv
  OBVIOUS
<1>1. "index" \in DOMAIN mipsregs
  <2>1. "index" \in DOMAIN c0_mmu
    BY DEF c0_mmu
  <2> QED BY <2>1, InFirst DEF mipsregs
<1>2. thread = NoAccess /\ <<>> \in Seq(Instruction)
  BY DEF C0Init
<1>3. thread.name \in DOMAIN Header[thread.by]
  BY <1>1, <1>2 DEF NoAccess, Header
<1>4. thread.at = "idle" /\ thread.code = <<>> /\ thread.want.hi = {}
  BY <1>2 DEF NoAccess, NoOnes
<1>5. long \in {32, 64}
  BY DEF C0Init
<1>6. StatusReg \in DOMAIN c0 /\ \A reg \in DOMAIN c0 : c0[reg] \in Register
  BY DEF C0Init, Holding, Register
<1>7. thread \in [at : {"idle", "write", "build", "read"}, name : DOMAIN mipsregs,
                  by : {"mipsregs", "common"}, code : Seq(Instruction),
                  M : Register, L : Register, flags : BOOLEAN, bits : Register,
                  val : Register, want : Register, before : Register]
  BY <1>1, <1>2, Shut DEF NoAccess
<1> QED BY <1>3, <1>4, <1>5, <1>6, <1>7 DEF C0Inv, C0Types

\* A write begins with its value in M and L.
LEMMA WriteInv ==
  ASSUME C0Inv, Write
  PROVE  C0Inv'
<1> DEFINE u == thread'
<1>1. PICK header \in DOMAIN Header :
        \E name \in Names(header) : \E v \in Values(name) :
          u = [NoAccess EXCEPT
            !.at = "write", !.name = name, !.by = header, !.code = WriteCode(header, name),
            !.M = SignExtended(High(v)),
            !.L = IF Wide(name) /\ long = 64 THEN v ELSE SignExtended(Low(v)),
            !.want = v, !.before = Stat]
  BY DEF Write
<1>a. PICK name \in Names(header) : \E v \in Values(name) :
          u = [NoAccess EXCEPT
            !.at = "write", !.name = name, !.by = header, !.code = WriteCode(header, name),
            !.M = SignExtended(High(v)),
            !.L = IF Wide(name) /\ long = 64 THEN v ELSE SignExtended(Low(v)),
            !.want = v, !.before = Stat]
  BY <1>1
<1>b. PICK v \in Values(name) :
          u = [NoAccess EXCEPT
            !.at = "write", !.name = name, !.by = header, !.code = WriteCode(header, name),
            !.M = SignExtended(High(v)),
            !.L = IF Wide(name) /\ long = 64 THEN v ELSE SignExtended(Low(v)),
            !.want = v, !.before = Stat]
  BY <1>a
<1>2. long' = long /\ c0' = c0
  BY DEF Write
<1>3. /\ header \in {"mipsregs", "common"} /\ name \in DOMAIN Header[header]
      /\ name \notin Ticks /\ name \in DOMAIN mipsregs
  <2>1. header \in {"mipsregs", "common"}
    BY DEF Header
  <2>2. name \in DOMAIN Header[header] /\ name \notin Ticks
    BY DEF Names
  <2> QED BY <2>1, <2>2, Meant
<1>4. v \in Register /\ (~Wide(name) => v.hi = {}) /\ long \in {32, 64} /\ Stat \in Register
  BY StatusTypes DEF Values, C0Inv, C0Types
<1>5. /\ u.at = "write" /\ u.name = name /\ u.by = header /\ u.want = v /\ u.before = Stat
      /\ u.code = WriteCode(header, name)
      /\ u.M = SignExtended(High(v))
      /\ u.L = IF Wide(name) /\ long = 64 THEN v ELSE SignExtended(Low(v))
  BY <1>b DEF NoAccess
<1>6. WriteCode(header, name) \in Seq(Instruction)
  BY <1>3, <1>4, Codes, AreRows
<1>7. u.M \in Register /\ u.L \in Register
  BY <1>4, <1>5, Shut
<1>8. u \in [at : {"idle", "write", "build", "read"}, name : DOMAIN mipsregs,
             by : {"mipsregs", "common"}, code : Seq(Instruction),
             M : Register, L : Register, flags : BOOLEAN, bits : Register,
             val : Register, want : Register, before : Register]
  BY <1>b, <1>3, <1>4, <1>5, <1>6, <1>7, Shut DEF NoAccess
<1>9. Wide(name)' = Wide(name)
  BY <1>2 DEF Wide
<1>10. C0Types'
  BY <1>2, <1>3, <1>4, <1>5, <1>8, <1>9 DEF C0Types, C0Inv
<1>11. u.M.lo = v.hi /\ (~Wide(name) \/ long = 32 => u.L.lo = v.lo)
  <2>1. SignExtended(High(v)).lo = v.hi /\ SignExtended(Low(v)).lo = v.lo
    BY DEF SignExtended, High, Low
  <2>2. long = 32 => long # 64
    OBVIOUS
  <2> QED BY <1>5, <2>1, <2>2
<1>13. Kept(thread)'
  BY <1>2, <1>5 DEF Kept, Stat
<1>12. Writing(thread)'
  <2>1. CASE ~Wide(name)
    BY <1>2, <1>3, <1>4, <1>5, <1>9, <1>13, <1>11, <2>1, Codes DEF Writing
  <2>2. CASE Wide(name) /\ long = 64
    BY <1>2, <1>3, <1>4, <1>5, <1>9, <1>13, <2>2, Codes DEF Writing
  <2>3. CASE Wide(name) /\ long = 32
    BY <1>2, <1>3, <1>4, <1>5, <1>9, <1>13, <1>11, <2>3, Codes DEF Writing, SplitWriting
  <2> QED BY <1>4, <2>1, <2>2, <2>3
<1> QED BY <1>5, <1>10, <1>12 DEF C0Inv

\* Between two accesses the register holds what it is to hold.
LEMMA Settled ==
  ASSUME C0Inv, thread.at \in {"write", "build"}, thread.code = <<>>
  PROVE  Held = thread.want /\ Kept(thread)
<1>1. \A i, rest : ~Begins(thread.code, i, rest)
  BY DEF Begins
<1>2. CASE thread.at = "write"
  <2>1. Writing(thread)
    BY <1>2 DEF C0Inv
  <2>2. ~SplitWriting(thread)
    BY <1>1, Row DEF SplitWriting
  <2> QED BY <1>1, <2>1, <2>2, Row DEF Writing
<1>3. CASE thread.at = "build"
  <2>1. Building(thread)
    BY <1>3 DEF C0Inv
  <2> QED BY <1>1, <2>1, Row DEF Building
<1> QED BY <1>2, <1>3

\* A change begins with the register that has been written.
LEMMA BuildInv ==
  ASSUME C0Inv, Build
  PROVE  C0Inv'
<1> DEFINE t == thread
           u == thread'
<1>1. PICK op \in {"set", "clear", "change"}, b \in SUBSET Bits, v \in SUBSET Bits :
        u = [t EXCEPT
          !.at = "build", !.by = "mipsregs", !.bits = Argument(b), !.val = Argument(v),
          !.code = CASE op = "set" -> set_c0 [] op = "clear" -> clear_c0
                     [] OTHER -> change_c0,
          !.want = Named(op, t.want, Argument(b), Argument(v))]
  BY DEF Build
<1>2. long' = long /\ c0' = c0
  BY DEF Build
<1>3. t.at = "write" /\ t.code = <<>> /\ t.name \in BuildSet /\ C0Types
  BY DEF Build, C0Inv
<1>4. t.name \in DOMAIN mipsregs /\ t.name \notin Ticks /\ t.want \in Register
  BY <1>3 DEF C0Types
<1>5. Held = t.want /\ Kept(t)
  BY <1>3, Settled
<1> DEFINE code == CASE op = "set" -> set_c0 [] op = "clear" -> clear_c0
                     [] OTHER -> change_c0
           want == Named(op, t.want, Argument(b), Argument(v))
<1>6. code \in Seq(Instruction)
  BY AreRows
<1>7. Argument(b) \in Register /\ Argument(v) \in Register
  BY DEF Argument, SignExtended, Register
<1>8. want \in Register /\ want.hi = {}
  BY DEF Named, Register
<1>9. u = [t EXCEPT !.at = "build", !.by = "mipsregs", !.bits = Argument(b),
                    !.val = Argument(v), !.code = code, !.want = want]
  BY <1>1
<1>10. /\ u.at = "build" /\ u.name = t.name /\ u.by = "mipsregs" /\ u.code = code
       /\ u.bits = Argument(b) /\ u.val = Argument(v) /\ u.want = want
       /\ u.before = t.before
  BY <1>3, <1>9 DEF C0Types
<1>11. want.lo = {k \in Bits : IF k \notin u.bits.lo THEN k \in Held.lo
                               ELSE op = "set" \/ (op = "change" /\ k \in u.val.lo)}
  BY <1>5, <1>10 DEF Named
<1>12. /\ op = "set" => code = set_c0
       /\ op = "clear" => code = clear_c0
       /\ op = "change" => code = change_c0
  OBVIOUS
<1> HIDE DEF code, want
<1>13. u \in [at : {"idle", "write", "build", "read"}, name : DOMAIN mipsregs,
              by : {"mipsregs", "common"}, code : Seq(Instruction),
              M : Register, L : Register, flags : BOOLEAN, bits : Register,
              val : Register, want : Register, before : Register]
  BY <1>3, <1>6, <1>7, <1>8, <1>9 DEF C0Types
<1>14. ~Wide(thread.name)'
  <2>1. mipsregs[t.name].width = "32"
    BY <1>3, <1>4, AllPlain DEF Plain
  <2> QED BY <1>10, <2>1 DEF Wide
<1>15. u.name \in DOMAIN Header[u.by]
  BY <1>4, <1>10 DEF Header
<1>16. C0Types'
  BY <1>2, <1>3, <1>4, <1>8, <1>10, <1>13, <1>15 DEF C0Types
<1>17. Held' = Held
  <2>1. Target' = Target
    BY <1>3, <1>10, <1>15, Meant DEF Target, C0Types
  <2> QED BY <1>2, <2>1 DEF Held
<1>18. Held.lo \subseteq Bits /\ u.bits.lo \subseteq Bits /\ u.val.lo \subseteq Bits
  BY <1>4, <1>5, <1>7, <1>10 DEF Register
<1>19. u.want.lo = want.lo /\ Kept(thread)'
  BY <1>2, <1>5, <1>10 DEF Kept, Stat
<1>20. CASE op = "set"
  <2>1. Held.lo \cup u.bits.lo = want.lo
    BY <1>11, <1>18, <1>20
  <2>2. Building(thread)'
    BY <1>10, <1>12, <1>14, <1>17, <1>19, <1>20, <2>1 DEF Building
  <2> QED BY <1>10, <1>16, <2>2 DEF C0Inv
<1>21. CASE op = "clear"
  <2>1. Held.lo \ u.bits.lo = want.lo
    BY <1>11, <1>18, <1>21
  <2>2. Building(thread)'
    BY <1>10, <1>12, <1>14, <1>17, <1>19, <1>21, <2>1 DEF Building
  <2> QED BY <1>10, <1>16, <2>2 DEF C0Inv
<1>22. CASE op = "change"
  <2>1. (Held.lo \ u.bits.lo) \cup (u.val.lo \cap u.bits.lo) = want.lo
    BY <1>11, <1>18, <1>22
  <2>2. Building(thread)'
    BY <1>10, <1>12, <1>14, <1>17, <1>19, <1>22, <2>1 DEF Building
  <2> QED BY <1>10, <1>16, <2>2 DEF C0Inv
<1> QED BY <1>20, <1>21, <1>22

\* A read begins with the register that has been written or changed.
LEMMA ReadInv ==
  ASSUME C0Inv, Read
  PROVE  C0Inv'
<1> DEFINE t == thread
           u == thread'
<1>1. PICK header \in DOMAIN Header :
        /\ t.name \in DOMAIN Header[header]
        /\ u = [t EXCEPT !.at = "read", !.by = header, !.M = NoOnes, !.L = NoOnes,
                         !.code = ReadCode(header, t.name)]
  BY DEF Read
<1>2. long' = long /\ c0' = c0
  BY DEF Read
<1>3. t.at \in {"write", "build"} /\ t.code = <<>> /\ C0Types
  BY DEF Read, C0Inv
<1>4. Held = t.want /\ Kept(t)
  BY <1>3, Settled
<1>5. header \in {"mipsregs", "common"}
  BY DEF Header
<1>6. ReadCode(header, t.name) \in Seq(Instruction)
  BY <1>1, <1>3, <1>5, Codes, AreRows DEF C0Types
<1>7. /\ u.at = "read" /\ u.name = t.name /\ u.by = header /\ u.code = ReadCode(header, t.name)
      /\ u.want = t.want /\ u.before = t.before
  BY <1>1, <1>3 DEF C0Types
<1>8. u \in [at : {"idle", "write", "build", "read"}, name : DOMAIN mipsregs,
             by : {"mipsregs", "common"}, code : Seq(Instruction),
             M : Register, L : Register, flags : BOOLEAN, bits : Register,
             val : Register, want : Register, before : Register]
  BY <1>1, <1>3, <1>5, <1>6, Shut DEF C0Types
<1>9. Wide(t.name)' = Wide(t.name) /\ u.name = t.name
  BY <1>2, <1>7 DEF Wide
<1>10. C0Types'
  BY <1>1, <1>2, <1>3, <1>7, <1>8, <1>9 DEF C0Types
<1>11. Target' = Target
  BY <1>1, <1>3, <1>5, <1>7, Meant DEF Target, C0Types
<1>12. Held' = u.want
  BY <1>2, <1>4, <1>7, <1>11 DEF Held
<1>14. Kept(thread)'
  BY <1>2, <1>4, <1>7 DEF Kept, Stat
<1>13. Reading(thread)'
  <2>1. CASE ~Wide(t.name)
    BY <1>1, <1>2, <1>3, <1>4, <1>5, <1>7, <1>9, <1>12, <1>14, <2>1, Codes DEF Reading, C0Types
  <2>2. CASE Wide(t.name) /\ long = 64
    BY <1>1, <1>2, <1>3, <1>4, <1>5, <1>7, <1>9, <1>12, <1>14, <2>2, Codes DEF Reading, C0Types
  <2>3. CASE Wide(t.name) /\ long = 32
    BY <1>1, <1>2, <1>3, <1>4, <1>5, <1>7, <1>9, <1>12, <1>14, <2>3, Codes
       DEF Reading, SplitReading, C0Types
  <2> QED BY <1>3, <2>1, <2>2, <2>3 DEF C0Types
<1> QED BY <1>7, <1>10, <1>13 DEF C0Inv

\* The tick spoils the upper halves of M and L only where they are not needed.
LEMMA TickInv ==
  ASSUME C0Inv, Tick
  PROVE  C0Inv'
<1> DEFINE t == thread
           u == thread'
<1>1. PICK v \in {x \in Register : x.hi = {}} :
        c0' = Beside([r \in {mipsregs["compare"].reg, mipsregs["epc"].reg} |-> v], c0)
  BY DEF Tick
<1>2. /\ long' = long /\ Enabled
      /\ u = IF long = 64 THEN t
             ELSE [t EXCEPT !.M = SignExtended(@), !.L = SignExtended(@)]
      /\ C0Types
  BY DEF Tick, C0Inv, C0Types
<1>3. u \in [at : {"idle", "write", "build", "read"}, name : DOMAIN mipsregs,
             by : {"mipsregs", "common"}, code : Seq(Instruction),
             M : Register, L : Register, flags : BOOLEAN, bits : Register,
             val : Register, want : Register, before : Register]
  BY <1>2, Shut DEF C0Types
<1>4. /\ u.at = t.at /\ u.name = t.name /\ u.by = t.by /\ u.code = t.code /\ u.bits = t.bits
      /\ u.val = t.val /\ u.want = t.want /\ u.before = t.before /\ u.flags = t.flags
      /\ long = 64 => u.M = t.M /\ u.L = t.L
  BY <1>2 DEF C0Types
<1>5. u.M.lo = t.M.lo /\ u.L.lo = t.L.lo
  BY <1>2, Halves DEF C0Types
<1> DEFINE f == [r \in {mipsregs["compare"].reg, mipsregs["epc"].reg} |-> v]
<1>6. DOMAIN f = {<<11, 0>>, <<14, 0>>} /\ \A reg \in DOMAIN f : f[reg] \in Register
  BY TickedRegisters
<1>7. c0' = Beside(f, c0)
  BY <1>1
<1> HIDE DEF f
<1>16. StatusReg \in DOMAIN c0' /\ Stat' = Stat
  <2>1. StatusReg \in DOMAIN c0 /\ StatusReg \notin DOMAIN f
    BY <1>2, <1>6 DEF C0Types, StatusReg
  <2> QED BY <1>7, <2>1, InSecond DEF Stat
<1>17. Kept(t) => Kept(t)'
  BY <1>4, <1>16 DEF Kept
<1>18. ~Off(t)
  BY <1>2 DEF Off, WithIE, Enabled
<1>8. \A reg \in DOMAIN c0' : c0'[reg] \in Register
  <2> TAKE reg \in DOMAIN c0'
  <2>1. CASE reg \in DOMAIN f
    BY <1>6, <1>7, <2>1, InFirst
  <2>2. CASE reg \notin DOMAIN f
    <3>1. reg \in DOMAIN c0
      BY <1>7, <2>2, BesideIs
    <3> QED BY <1>2, <1>7, <2>2, <3>1, InSecond DEF C0Types
  <2> QED BY <2>1, <2>2
<1>9. Wide(t.name)' = Wide(t.name) /\ u.name = t.name
  BY <1>2, <1>4 DEF Wide
<1>10. C0Types'
  BY <1>2, <1>3, <1>4, <1>8, <1>9, <1>16 DEF C0Types
<1>11. t.at # "idle" => Held' = Held
  <2> SUFFICES ASSUME t.at # "idle" PROVE Held' = Held
    OBVIOUS
  <2>1. t.name \in DOMAIN mipsregs /\ t.name \notin Ticks /\ Target = mipsregs[t.name].reg
    BY <1>2, Meant DEF C0Types, Target
  <2>2. Target \notin DOMAIN f
    BY <1>6, <2>1, AllPlain DEF Plain
  <2>3. Target' = Target
    BY <1>4 DEF Target
  <2>4. Target \in DOMAIN c0' <=> Target \in DOMAIN c0
    <3>1. DOMAIN c0' = DOMAIN f \cup DOMAIN c0
      BY <1>7, BesideIs
    <3> QED BY <2>2, <3>1
  <2>5. Target \in DOMAIN c0 => c0'[Target] = c0[Target]
    BY <1>7, <2>2, InSecond
  <2> QED BY <2>3, <2>4, <2>5 DEF Held
<1>12. CASE t.at = "idle"
  BY <1>4, <1>10, <1>12 DEF C0Inv
<1>13. CASE t.at = "write"
  <2>1. Writing(t)
    BY <1>13 DEF C0Inv
  <2>2. Writing(thread)'
    BY <1>2, <1>4, <1>5, <1>9, <1>11, <1>13, <1>17, <1>18, <2>1 DEF Writing, SplitWriting
  <2> QED BY <1>4, <1>10, <1>13, <2>2 DEF C0Inv
<1>14. CASE t.at = "build"
  <2>1. Building(t)
    BY <1>14 DEF C0Inv
  <2>2. Building(thread)'
    BY <1>2, <1>4, <1>5, <1>9, <1>11, <1>14, <1>17, <2>1 DEF Building
  <2> QED BY <1>4, <1>10, <1>14, <2>2 DEF C0Inv
<1>15. CASE t.at = "read"
  <2>1. Reading(t)
    BY <1>15 DEF C0Inv
  <2>2. Result' = Result
    BY <1>2, <1>4, <1>5, <1>9 DEF Result, Low, Raised, Or, C0Types
  <2>3. Reading(thread)'
    BY <1>2, <1>4, <1>5, <1>9, <1>11, <1>15, <1>17, <1>18, <2>1, <2>2 DEF Reading, SplitReading
  <2> QED BY <1>4, <1>10, <1>15, <2>3 DEF C0Inv
<1> QED BY <1>2, <1>12, <1>13, <1>14, <1>15 DEF C0Types

\* Every step keeps the invariant.
LEMMA C0Step == C0Inv /\ [C0Next]_cvars => C0Inv'
<1> SUFFICES ASSUME C0Inv, [C0Next]_cvars PROVE C0Inv'
  OBVIOUS
<1>1. CASE Execute
  <2>1. C0Types /\ thread'.at = thread.at /\ thread.code # <<>>
    BY <1>1, Executed DEF C0Inv, Execute
  <2>2. C0Types'
    BY <1>1, <2>1, ExecuteTypes
  <2>3. CASE thread.at = "idle"
    BY <2>1, <2>3 DEF C0Inv
  <2>4. CASE thread.at = "write"
    BY <1>1, <2>1, <2>2, <2>4, WriteStep DEF C0Inv
  <2>5. CASE thread.at = "build"
    BY <1>1, <2>1, <2>2, <2>5, BuildStep DEF C0Inv
  <2>6. CASE thread.at = "read"
    BY <1>1, <2>1, <2>2, <2>6, ReadStep DEF C0Inv
  <2> QED BY <2>1, <2>3, <2>4, <2>5, <2>6 DEF C0Types
<1>2. CASE UNCHANGED cvars
  <2>1. long' = long /\ c0' = c0 /\ thread' = thread
    BY <1>2 DEF cvars
  <2>2. C0Types' /\ Held' = Held /\ Result' = Result
    BY <2>1 DEF C0Inv, C0Types, Held, Target, Wide, Result
  <2>3. Wide(thread.name)' = Wide(thread.name)
    BY <2>1 DEF Wide
  <2>8. (Kept(thread) => Kept(thread)') /\ (Off(thread) => Off(thread)')
    BY <2>1 DEF Kept, Off, Stat, WithIE
  <2>4. Writing(thread) => Writing(thread)'
    BY <2>1, <2>2, <2>3, <2>8 DEF Writing, SplitWriting
  <2>5. Building(thread) => Building(thread)'
    BY <2>1, <2>2, <2>3, <2>8 DEF Building
  <2>6. Reading(thread) => Reading(thread)'
    BY <2>1, <2>2, <2>3, <2>8 DEF Reading, SplitReading
  <2>7. thread.at \in {"idle", "write", "build", "read"}
    BY DEF C0Inv, C0Types
  <2> QED BY <2>1, <2>2, <2>4, <2>5, <2>6, <2>7 DEF C0Inv
<1> QED BY <1>1, <1>2, WriteInv, BuildInv, ReadInv, TickInv DEF C0Next

(* What is written to a CP0 register is read from it, and Status is left as it *)
(* was by every access but those of Status.                                 *)
THEOREM RegistersReadBack == C0Spec => []ReadsBack
<1>1. C0Inv => ReadsBack
  <2> SUFFICES ASSUME C0Inv, thread.code = <<>>, thread.at # "idle"
               PROVE  /\ Stat = IF thread.name = "status" THEN thread.want ELSE thread.before
                      /\ thread.at = "read" => Result = thread.want
    BY DEF ReadsBack
  <2>1. /\ Held = thread.want /\ Kept(thread)
        /\ thread.at = "read" => Result = thread.want
    <3>1. CASE thread.at = "read"
      <4>1. Reading(thread)
        BY <3>1 DEF C0Inv
      <4>2. \A i, rest : ~Begins(thread.code, i, rest)
        BY DEF Begins
      <4> QED BY <4>1, <4>2, Row DEF Reading, SplitReading
    <3>2. CASE thread.at # "read"
      BY <3>2, Settled DEF C0Inv, C0Types
    <3> QED BY <3>1, <3>2
  <2>2. thread.name = "status" => Held = Stat
    <3>1. thread.name = "status" => Target = StatusReg
      BY StatusNamed DEF C0Inv
    <3>2. StatusReg \in DOMAIN c0
      BY DEF C0Inv, C0Types
    <3> QED BY <3>1, <3>2 DEF Held, Stat
  <2> QED BY <2>1, <2>2 DEF Kept
<1> QED BY <1>1, C0InitInv, C0Step, PTL DEF C0Spec
-----------------------------------------------------------------------------
(* The command loop (cmdline.c).                                            *)

\* What the buffer holds.
Char == Letters \cup {Space, Nul}

\* What the splitting loop has left of the line in the buffer.
Buffered ==
  state # "overrun" => \A k \in 0 .. cp - 1 :
    cmdbuffer[k] = IF state = "split" /\ k < scan.i /\ typed[k + 1] = Space
                   THEN Nul ELSE typed[k + 1]

\* Where the loop stands.
Stands ==
  /\ scan \in [i : 0 .. CMD_BUFF, p0 : 0 .. CMD_BUFF - 1, c0 : Char]
  /\ state = "split" => /\ 0 < cp /\ scan.i <= cp
                        /\ scan.i = 0 => scan.c0 = Nul /\ scan.p0 = 0 /\ argc = 0
                        /\ scan.i > 0 => scan.c0 = typed[scan.i] /\ scan.p0 < scan.i

\* The word from position a on ends in front of position j of the line.
Ends(line, a, j) == /\ j \in a + 1 .. Len(line)
                    /\ \A k \in a + 1 .. j : line[k] # Space
\* It ends, and with a space, among the first i characters.
EndsIn(line, a, i) == \E j \in 1 .. i - 1 : Ends(line, a, j) /\ line[j + 1] = Space

\* The words noted so far, and the one the loop is in or behind.
Noted ==
  /\ \A m \in 0 .. argc - 1 : argv[m] # NoWord /\ argv[m] < scan.p0
  /\ \A m, n \in 0 .. argc - 1 : m < n => argv[m] < argv[n]
  /\ \A m \in 0 .. argc - 1 :
       argv[m] + 1 \in Starts(typed)
       /\ EndsIn(typed, argv[m], scan.i)
\* The word the loop is in or just behind.
Pending ==
  /\ scan.p0 + 1 \in Starts(typed)
  /\ scan.i > 0 /\ scan.c0 # Space => \A k \in scan.p0 + 1 .. scan.i : typed[k] # Space
  /\ scan.i > 0 /\ scan.c0 = Space => EndsIn(typed, scan.p0, scan.i)
\* Every word that has begun is one of these.
AllSeen ==
  \A s \in Starts(typed) :
    s <= scan.i => s = scan.p0 + 1 \/ \E m \in 0 .. argc - 1 : s = argv[m] + 1
\* The splitting loop on a line that does not begin with a space.
Split == state = "split" /\ typed[1] # Space => Noted /\ Pending /\ AllSeen

\* Whatever the line begins with: where words begin, the empty one in front of a
\* space with them.
Begun ==
  state = "split" =>
    /\ scan.p0 + 1 \in Starts(typed) \cup {1}
    /\ \A m \in 0 .. argc - 1 : argv[m] + 1 \in Starts(typed) \cup {1} /\ argv[m] < scan.p0
    /\ \A m, n \in 0 .. argc - 1 : m < n => argv[m] < argv[n]

\* While no word is noted no second one has begun.
NoneNoted == state = "split" /\ argc = 0 => \A s \in Starts(typed) : s <= scan.i => s = 1
\* Nothing has run while argv[0] is NULL.
Unset == argv[0] = NoWord => ran = Nothing /\ (state = "split" => argc = 0)

\* The inductive invariant.
CmdInv == /\ CmdTypeOK /\ Buffered /\ Stands /\ Split /\ Begun /\ NoneNoted /\ Unset
          /\ Remembers /\ StaysDefined

-----------------------------------------------------------------------------
\* A string of the buffer that shows the line from a on and has NUL at j.
LEMMA StringIs ==
  ASSUME NEW buf \in [0 .. CMD_BUFF - 1 -> Char], NEW line \in Seq(Letters \cup {Space}),
         NEW a \in Nat, NEW j \in Nat, a < j, j <= Len(line), Len(line) < CMD_BUFF,
         \A k \in a .. j - 1 : buf[k] = line[k + 1] /\ line[k + 1] # Space, buf[j] = Nul
  PROVE  String(buf, a) = SubSeq(line, a + 1, j)
<1> DEFINE EndsAt(e) == buf[e] = Nul /\ \A i \in a .. e - 1 : buf[i] # Nul
           end == CHOOSE e \in a .. CMD_BUFF - 1 : EndsAt(e)
<1>. CMD_BUFF \in Nat BY CmdAssumption
<1>1. \A k \in a .. j - 1 : buf[k] # Nul
  <2>. TAKE k \in a .. j - 1
  <2>1. buf[k] = line[k + 1] /\ k + 1 \in 1 .. Len(line) OBVIOUS
  <2>2. line[k + 1] \in Letters BY <2>1
  <2>. QED BY <2>1, <2>2, CmdAssumption
<1>2. EndsAt(j) /\ j \in a .. CMD_BUFF - 1 BY <1>1
<1>3. end \in a .. CMD_BUFF - 1 /\ EndsAt(end) BY <1>2
<1>4. end = j
  <2>1. ~ end < j BY <1>1, <1>3
  <2>2. ~ j < end BY <1>2, <1>3
  <2>. QED BY <2>1, <2>2, <1>3
<1>5. String(buf, a) = [i \in 1 .. j - a |-> buf[a + i - 1]] BY <1>4 DEF String
<1>6. \A i \in 1 .. j - a : buf[a + i - 1] = line[a + i]
  <2>. TAKE i \in 1 .. j - a
  <2>. a + i - 1 \in a .. j - 1 /\ a + i - 1 + 1 = a + i OBVIOUS
  <2>. QED OBVIOUS
<1>7. SubSeq(line, a + 1, j) = [i \in 1 .. j - a |-> line[a + i]]
  <2>1. SubSeq(line, a + 1, j) = [i \in 1 .. j - (a + 1) + 1 |-> line[a + 1 + i - 1]] OBVIOUS
  <2>2. j - (a + 1) + 1 = j - a OBVIOUS
  <2>3. \A i \in 1 .. j - a : a + 1 + i - 1 = a + i OBVIOUS
  <2>. QED BY <2>1, <2>2, <2>3
<1>. QED BY <1>5, <1>6, <1>7

\* Such a string is a word when a space or the end of the line follows it.
LEMMA WordIs ==
  ASSUME NEW buf \in [0 .. CMD_BUFF - 1 -> Char], NEW line \in Seq(Letters \cup {Space}),
         NEW a \in Nat, NEW j \in Nat, a < j, j <= Len(line), Len(line) < CMD_BUFF,
         \A k \in a .. j - 1 : buf[k] = line[k + 1],
         \A k \in a + 1 .. j : line[k] # Space, buf[j] = Nul,
         j = Len(line) \/ line[j + 1] = Space
  PROVE  IsWord(line, a + 1, String(buf, a))
<1>1. \A k \in a .. j - 1 : k + 1 \in a + 1 .. j OBVIOUS
<1>2. String(buf, a) = SubSeq(line, a + 1, j) BY StringIs, <1>1
<1>3. j \in a + 1 .. Len(line) OBVIOUS
<1>. QED BY <1>2, <1>3 DEF IsWord

\* What a command gets as its argc and argv.
Args(buf, av, ac) == [n \in 1 .. ac |-> String(buf, av[n - 1])]

\* At the end of a line argv and the word that is open spell the line.
LEMMA Spelt ==
  ASSUME CmdInv, state = "split", scan.i = cp, cp < CMD_BUFF, Clean(typed), argc + 1 <= V_NUM,
         NEW buf, buf = [cmdbuffer EXCEPT ![cp] = Nul],
         NEW av, av = [argv EXCEPT ![argc] = scan.p0]
  PROVE  /\ av[0] # NoWord
         /\ Spells(typed, Args(buf, av, argc + 1))
<1>1. /\ CmdTypeOK /\ Buffered /\ Stands /\ Noted /\ Pending /\ AllSeen
      /\ typed[1] # Space /\ scan.c0 # Space /\ scan.i > 0
      /\ cp \in 1 .. CMD_BUFF /\ argc \in 0 .. V_NUM - 1 /\ scan.p0 \in 0 .. cp - 1
  <2>1. typed[1] # Space BY DEF Clean
  <2>2. CmdTypeOK /\ Buffered /\ Stands /\ Split BY DEF CmdInv
  <2>3. cp \in 1 .. CMD_BUFF /\ argc \in 0 .. V_NUM - 1 /\ scan.p0 \in 0 .. cp - 1
        /\ scan.c0 = typed[cp] /\ Len(typed) = cp
    BY <2>2, CmdAssumption DEF CmdTypeOK, Stands
  <2>4. scan.c0 # Space BY <2>3 DEF Clean
  <2>. QED BY <2>1, <2>2, <2>3, <2>4 DEF Split
<1>2. /\ typed \in Seq(Letters \cup {Space}) /\ Len(typed) = cp
      /\ buf \in [0 .. CMD_BUFF - 1 -> Char] /\ buf[cp] = Nul
      /\ \A k \in 0 .. cp - 1 : buf[k] = IF typed[k + 1] = Space THEN Nul ELSE typed[k + 1]
  <2>1. typed \in Seq(Letters \cup {Space}) /\ Len(typed) = cp BY <1>1 DEF CmdTypeOK
  <2>2. cmdbuffer \in [0 .. CMD_BUFF - 1 -> Char] /\ Nul \in Char BY <1>1 DEF CmdTypeOK, Char
  <2>3. buf \in [0 .. CMD_BUFF - 1 -> Char] BY <2>2
  <2>4. cp \in 0 .. CMD_BUFF - 1 BY <1>1, CmdAssumption
  <2>5. buf[cp] = Nul BY <2>2, <2>4
  <2>6. ASSUME NEW k \in 0 .. cp - 1
        PROVE  buf[k] = IF typed[k + 1] = Space THEN Nul ELSE typed[k + 1]
    <3>1. k \in 0 .. CMD_BUFF - 1 /\ k # cp /\ k < scan.i BY <1>1, CmdAssumption
    <3>2. buf[k] = cmdbuffer[k] BY <2>2, <3>1
    <3>. QED BY <3>1, <3>2, <1>1 DEF Buffered
  <2>. QED BY <2>1, <2>3, <2>5, <2>6
<1>3. \A m \in 0 .. argc : av[m] = IF m = argc THEN scan.p0 ELSE argv[m]
  BY <1>1 DEF CmdTypeOK
<1>4. \A m \in 0 .. argc - 1 : argv[m] \in 0 .. CMD_BUFF - 1 /\ argv[m] < scan.p0
  <2>. TAKE m \in 0 .. argc - 1
  <2>1. m \in 0 .. V_NUM - 1 BY <1>1, CmdAssumption
  <2>2. argv[m] # NoWord /\ argv[m] < scan.p0 BY <1>1 DEF Noted
  <2>. QED BY <2>1, <2>2, <1>1 DEF CmdTypeOK
<1>5. \A m \in 0 .. argc : av[m] \in 0 .. cp - 1
  <2>. TAKE m \in 0 .. argc
  <2>1. CASE m = argc BY <2>1, <1>1, <1>3
  <2>2. CASE m # argc
    <3>1. m \in 0 .. argc - 1 BY <2>2, <1>1
    <3>2. av[m] = argv[m] BY <2>2, <1>3
    <3>. QED BY <3>1, <3>2, <1>1, <1>4
  <2>. QED BY <2>1, <2>2
<1>6. \A m \in 0 .. argc : av[m] + 1 \in Starts(typed) BY <1>1, <1>3 DEF Noted, Pending
<1>7. \A m, n \in 0 .. argc : m < n => av[m] < av[n]
  <2>. SUFFICES ASSUME NEW m \in 0 .. argc, NEW n \in 0 .. argc, m < n
                PROVE  av[m] < av[n]
    OBVIOUS
  <2>1. m \in 0 .. argc - 1 /\ av[m] = argv[m] BY <1>1, <1>3
  <2>2. CASE n = argc BY <2>1, <2>2, <1>3, <1>4
  <2>3. CASE n # argc
    <3>1. n \in 0 .. argc - 1 /\ av[n] = argv[n] BY <2>3, <1>1, <1>3
    <3>. QED BY <3>1, <2>1, <1>1 DEF Noted
  <2>. QED BY <2>2, <2>3
<1>8. \A s \in Starts(typed) : \E m \in 0 .. argc : s = av[m] + 1
  <2>. TAKE s \in Starts(typed)
  <2>1. s <= scan.i BY <1>2 DEF Starts
  <2>2. CASE s = scan.p0 + 1 BY <2>2, <1>3, <1>1
  <2>3. CASE \E m \in 0 .. argc - 1 : s = argv[m] + 1
    <3>1. PICK m \in 0 .. argc - 1 : s = argv[m] + 1 BY <2>3
    <3>2. m \in 0 .. argc /\ m # argc BY <1>1
    <3>. QED BY <3>1, <3>2, <1>3
  <2>. QED BY <2>1, <2>2, <2>3, <1>1 DEF AllSeen
<1>9. ASSUME NEW m \in 0 .. argc
      PROVE  IsWord(typed, av[m] + 1, String(buf, av[m]))
  <2>. DEFINE Close(j) == Ends(typed, av[m], j) /\ (j = cp \/ typed[j + 1] = Space)
  <2>1. \E j \in 1 .. cp : Close(j)
    <3>1. CASE m = argc
      <4>1. Ends(typed, scan.p0, cp) BY <1>1, <1>2 DEF Pending, Ends
      <4>2. Ends(typed, av[m], cp) BY <4>1, <3>1, <1>3
      <4>3. cp \in 1 .. cp BY <1>1
      <4>. QED BY <4>2, <4>3
    <3>2. CASE m # argc
      <4>1. m \in 0 .. argc - 1 /\ av[m] = argv[m] BY <3>2, <1>3, <1>1
      <4>2. PICK j \in 1 .. scan.i - 1 : Ends(typed, argv[m], j) /\ typed[j + 1] = Space
        BY <4>1, <1>1 DEF Noted, EndsIn
      <4>3. j \in 1 .. cp BY <1>1
      <4>4. Ends(typed, av[m], j) BY <4>1, <4>2
      <4>. QED BY <4>2, <4>3, <4>4
    <3>. QED BY <3>1, <3>2
  <2>. HIDE DEF Close
  <2>2. PICK j \in 1 .. cp : Close(j) BY <2>1
  <2>. USE DEF Close
  <2>3. av[m] \in 0 .. cp - 1 /\ av[m] < j /\ \A k \in av[m] + 1 .. j : typed[k] # Space
    BY <2>2, <1>5 DEF Ends
  <2>4. \A k \in av[m] .. j - 1 : buf[k] = typed[k + 1]
    <3>. TAKE k \in av[m] .. j - 1
    <3>1. k \in 0 .. cp - 1 /\ k + 1 \in av[m] + 1 .. j BY <2>3, <1>1
    <3>. QED BY <3>1, <2>3, <1>2
  <2>5. buf[j] = Nul
    <3>1. CASE j = cp BY <3>1, <1>2
    <3>2. CASE j # cp
      <4>1. j \in 0 .. cp - 1 /\ typed[j + 1] = Space BY <3>2, <2>2, <1>1
      <4>. QED BY <4>1, <1>2
    <3>. QED BY <3>1, <3>2
  <2>6. av[m] \in Nat /\ j \in Nat /\ j <= Len(typed) /\ Len(typed) < CMD_BUFF
        /\ (j = Len(typed) \/ typed[j + 1] = Space)
    BY <2>2, <2>3, <1>1, <1>2, CmdAssumption
  <2>. QED BY <2>3, <2>4, <2>5, <2>6, <1>2, WordIs
<1>. DEFINE ws == [n \in 1 .. argc + 1 |-> String(buf, av[n - 1])]
            from == [n \in 1 .. argc + 1 |-> av[n - 1] + 1]
<1>10. Spells(typed, ws)
  <2>1. DOMAIN ws = 1 .. argc + 1 /\ \A n \in 1 .. argc + 1 : n - 1 \in 0 .. argc BY <1>1
  <2>2. \A n \in 1 .. argc + 1 : from[n] = av[n - 1] + 1 /\ ws[n] = String(buf, av[n - 1])
    OBVIOUS
  <2>3. from \in [DOMAIN ws -> DOMAIN typed] BY <2>1, <1>5, <1>2
  <2>4. \A m, n \in DOMAIN ws : m < n => from[m] < from[n]
    <3>. SUFFICES ASSUME NEW m \in 1 .. argc + 1, NEW n \in 1 .. argc + 1, m < n
                  PROVE  from[m] < from[n]
      BY <2>1
    <3>1. m - 1 \in 0 .. argc /\ n - 1 \in 0 .. argc /\ m - 1 < n - 1 BY <1>1
    <3>2. av[m - 1] < av[n - 1] BY <3>1, <1>7
    <3>. QED BY <3>1, <3>2, <2>2, <1>5
  <2>5. {from[n] : n \in DOMAIN ws} = Starts(typed)
    <3>1. \A n \in 1 .. argc + 1 : from[n] \in Starts(typed) BY <2>1, <2>2, <1>6
    <3>2. ASSUME NEW s \in Starts(typed) PROVE \E n \in 1 .. argc + 1 : from[n] = s
      <4>1. PICK m \in 0 .. argc : s = av[m] + 1 BY <1>8
      <4>2. m + 1 \in 1 .. argc + 1 /\ m + 1 - 1 = m BY <1>1
      <4>. QED BY <4>1, <4>2, <2>2
    <3>. HIDE DEF from, ws
    <3>3. {from[n] : n \in 1 .. argc + 1} \subseteq Starts(typed) BY <3>1
    <3>4. Starts(typed) \subseteq {from[n] : n \in 1 .. argc + 1} BY <3>2
    <3>. QED BY <3>3, <3>4, <2>1
  <2>6. \A n \in DOMAIN ws : IsWord(typed, from[n], ws[n]) BY <2>1, <2>2, <1>9
  <2>. HIDE DEF from, ws
  <2>. QED BY <2>3, <2>4, <2>5, <2>6 DEF Spells
<1>11. av[0] # NoWord
  <2>1. av[0] \in 0 .. cp - 1 BY <1>5, <1>1
  <2>. QED BY <2>1 DEF NoWord
<1>. QED BY <1>10, <1>11 DEF Args

\* A command found is one of the table.
LEMMA EntryIs == \A name : Entry(name) \in 0 .. Len(cmd)
<1>. TAKE name
<1>1. CASE \E k \in DOMAIN cmd : cmd[k].cmdname = name
  <2>1. Entry(name) \in DOMAIN cmd BY <1>1 DEF Entry
  <2>. QED BY <2>1, CmdAssumption
<1>2. CASE ~ \E k \in DOMAIN cmd : cmd[k].cmdname = name BY <1>2, CmdAssumption DEF Entry
<1>. QED BY <1>1, <1>2

\* No command but exit clears argv[0], and exit leaves.
LEMMA RunKeeps ==
  ASSUME NEW buf, NEW av, NEW ac, Run(buf, av, ac)
  PROVE  /\ argv' = av /\ state' \in {"prompt", "left"}
         /\ ran'.args = [n \in 1 .. ac |-> String(buf, av[n - 1])]
         /\ ran'.name = String(buf, av[0])
<1>. DEFINE k == Entry(String(buf, av[0]))
<1>1. k \in 0 .. Len(cmd) /\ (k > 1 => cmd[k].repeat # 0)
  <2>1. k \in 0 .. Len(cmd) BY EntryIs
  <2>. HIDE DEF k
  <2>2. Len(cmd) \in Nat BY CmdAssumption
  <2>3. k > 1 => k \in 2 .. Len(cmd) BY <2>1, <2>2
  <2>. QED BY <2>1, <2>3, CmdAssumption
<1>. QED BY <1>1 DEF Run

\* Before the first key nothing has been typed or run.
LEMMA CmdStarts == CmdInit => CmdInv
<1>. SUFFICES ASSUME CmdInit PROVE CmdInv OBVIOUS
<1>. USE CmdAssumption DEF CmdInit
<1>1. CmdTypeOK
  <2>1. cmdbuffer \in [0 .. CMD_BUFF - 1 -> Letters \cup {Space, Nul}] OBVIOUS
  <2>2. argv \in [0 .. V_NUM - 1 -> {NoWord} \cup 0 .. CMD_BUFF - 1] OBVIOUS
  <2>3. typed \in Seq(Letters \cup {Space}) /\ Len(typed) = 0 /\ last = typed OBVIOUS
  <2>4. cp \in 0 .. CMD_BUFF /\ argc \in 0 .. V_NUM OBVIOUS
  <2>9. spoiled \in BOOLEAN BY Zenon
  <2>5. scan.i \in 0 .. CMD_BUFF /\ scan.p0 \in 0 .. CMD_BUFF - 1 OBVIOUS
  <2>6. scan.c0 \in Letters \cup {Space, Nul} OBVIOUS
  <2>7. state \in {"prompt", "split", "left", "fault", "overrun"} OBVIOUS
  <2>8. Len(typed) = cp OBVIOUS
  <2>. HIDE CmdAssumption DEF CmdInit
  <2>. QED BY <2>1, <2>2, <2>3, <2>4, <2>5, <2>6, <2>7, <2>8, <2>9 DEF CmdTypeOK
<1>2. Buffered BY DEF Buffered
<1>3. Stands BY DEF Stands, Char
<1>4. (Split /\ Begun /\ NoneNoted /\ StaysDefined)
  BY DEF Split, Begun, NoneNoted, StaysDefined, FaultsOnBlank, OverrunsWhenLong
<1>5. Unset BY DEF Unset
<1>6. Remembers BY <1>1 DEF Remembers, Clean
<1>. QED BY <1>1, <1>2, <1>3, <1>4, <1>5, <1>6 DEF CmdInv

\* A character lengthens the line and the buffer alike.
LEMMA PrintableKeeps ==
  ASSUME CmdInv, NEW c \in Letters \cup {Space}, Printable(c) PROVE CmdInv'
<1>. USE CmdAssumption DEF Printable
<1>1. CmdTypeOK /\ Buffered /\ Stands /\ Unset BY DEF CmdInv
<1>2. /\ cp \in 0 .. CMD_BUFF - 1 /\ cp' = cp + 1 /\ state' = "prompt" /\ state = "prompt"
      /\ typed \in Seq(Letters \cup {Space}) /\ Len(typed) = cp
  BY <1>1 DEF CmdTypeOK
<1>3. /\ typed' \in Seq(Letters \cup {Space}) /\ Len(typed') = cp + 1
      /\ \A k \in 1 .. cp : typed'[k] = typed[k] /\ typed'[cp + 1] = c
  BY <1>2
<1>4. CmdTypeOK' BY <1>1, <1>2, <1>3 DEF CmdTypeOK
<1>5. Buffered'
  <2>. SUFFICES ASSUME NEW k \in 0 .. cp PROVE cmdbuffer'[k] = typed'[k + 1]
    BY <1>2 DEF Buffered
  <2>1. CASE k = cp BY <2>1, <1>1, <1>2, <1>3 DEF CmdTypeOK
  <2>2. CASE k # cp
    <3>1. k \in 0 .. cp - 1 /\ k + 1 \in 1 .. cp BY <2>2, <1>2
    <3>2. cmdbuffer'[k] = cmdbuffer[k] BY <2>2, <3>1, <1>1, <1>2 DEF CmdTypeOK
    <3>. QED BY <3>1, <3>2, <1>1, <1>2, <1>3 DEF Buffered
  <2>. QED BY <2>1, <2>2
<1>6. Stands' BY <1>1, <1>2 DEF Stands
<1>7. (Split /\ Begun /\ NoneNoted /\ StaysDefined)'
  BY <1>2 DEF Split, Begun, NoneNoted, StaysDefined, FaultsOnBlank, OverrunsWhenLong
<1>8. Unset' BY <1>1, <1>2 DEF Unset
<1>9. Remembers' BY <1>2, <1>4 DEF Remembers
<1>. QED BY <1>4, <1>5, <1>6, <1>7, <1>8, <1>9 DEF CmdInv

\* Backspace shortens both, and spoils what the buffer kept of the line before.
LEMMA EraseKeeps == ASSUME CmdInv, Erase PROVE CmdInv'
<1>. USE CmdAssumption DEF Erase
<1>1. CmdTypeOK /\ Buffered /\ Stands /\ Unset BY DEF CmdInv
<1>2. /\ cp \in 1 .. CMD_BUFF /\ cp' = cp - 1 /\ state' = "prompt" /\ state = "prompt"
      /\ typed \in Seq(Letters \cup {Space}) /\ Len(typed) = cp
  BY <1>1 DEF CmdTypeOK
<1>3. /\ typed' \in Seq(Letters \cup {Space}) /\ Len(typed') = cp - 1
      /\ \A k \in 1 .. cp - 1 : typed'[k] = typed[k]
  BY <1>2
<1>4. CmdTypeOK'
  <2>1. cmdbuffer' \in [0 .. CMD_BUFF - 1 -> Letters \cup {Space, Nul}]
    BY <1>1, <1>2 DEF CmdTypeOK
  <2>2. cp' \in 0 .. CMD_BUFF BY <1>2
  <2>. QED BY <1>1, <1>3, <2>1, <2>2 DEF CmdTypeOK
<1>5. Buffered'
  <2>. SUFFICES ASSUME NEW k \in 0 .. cp - 2 PROVE cmdbuffer'[k] = typed'[k + 1]
    BY <1>2 DEF Buffered
  <2>1. k \in 0 .. cp - 1 /\ k + 1 \in 1 .. cp - 1 /\ k # cp - 1 BY <1>2
  <2>2. cmdbuffer'[k] = cmdbuffer[k] BY <2>1, <1>1, <1>2 DEF CmdTypeOK
  <2>. QED BY <2>1, <2>2, <1>1, <1>2, <1>3 DEF Buffered
<1>6. Stands' BY <1>1, <1>2 DEF Stands
<1>7. (Split /\ Begun /\ NoneNoted /\ StaysDefined)'
  BY <1>2 DEF Split, Begun, NoneNoted, StaysDefined, FaultsOnBlank, OverrunsWhenLong
<1>8. Unset' BY <1>1, <1>2 DEF Unset
<1>9. Remembers' BY <1>2, <1>4 DEF Remembers
<1>. QED BY <1>4, <1>5, <1>6, <1>7, <1>8, <1>9 DEF CmdInv

\* Enter begins the loop with no word noted.
LEMMA BeginSplitKeeps == ASSUME CmdInv, BeginSplit PROVE CmdInv'
<1>. USE CmdAssumption DEF BeginSplit, FirstArgc
<1>1. CmdTypeOK /\ Buffered /\ Stands /\ Unset BY DEF CmdInv
<1>2. /\ cp \in 1 .. CMD_BUFF /\ cp' = cp /\ state' = "split" /\ state = "prompt"
      /\ typed \in Seq(Letters \cup {Space}) /\ Len(typed) = cp /\ typed' = typed
      /\ scan' = [i |-> 0, p0 |-> 0, c0 |-> Nul] /\ argc' = 0
  BY <1>1 DEF CmdTypeOK
<1>4. CmdTypeOK' BY <1>1, <1>2 DEF CmdTypeOK
<1>5. Buffered'
  <2>. SUFFICES ASSUME NEW k \in 0 .. cp - 1 PROVE cmdbuffer'[k] = typed[k + 1]
    BY <1>2 DEF Buffered
  <2>. QED BY <1>1, <1>2 DEF Buffered
<1>6. Stands' BY <1>1, <1>2 DEF Stands, Char
<1>7. Split'
  <2>. SUFFICES ASSUME typed[1] # Space PROVE (Noted /\ Pending /\ AllSeen)' BY <1>2 DEF Split
  <2>1. Noted' BY <1>2 DEF Noted
  <2>2. Pending' BY <1>2 DEF Pending, Starts
  <2>3. AllSeen' BY <1>2 DEF AllSeen, Starts
  <2>. QED BY <2>1, <2>2, <2>3
<1>8. NoneNoted' BY <1>2 DEF NoneNoted, Starts
<1>9. Unset' BY <1>1, <1>2 DEF Unset
<1>10. Remembers' BY <1>2, <1>4 DEF Remembers
<1>11. StaysDefined' BY <1>2 DEF StaysDefined, FaultsOnBlank, OverrunsWhenLong
<1>12. Begun' BY <1>2 DEF Begun
<1>. QED BY <1>4, <1>5, <1>6, <1>7, <1>8, <1>9, <1>10, <1>11, <1>12 DEF CmdInv

\* What a character of the splitting loop finds and leaves.
Turn ==
  /\ CmdInv /\ cp \in 1 .. CMD_BUFF /\ scan.i \in 0 .. cp - 1
  /\ typed \in Seq(Letters \cup {Space}) /\ Len(typed) = cp
  /\ cp' = cp /\ typed' = typed /\ state = "split" /\ state' = "split"
  /\ ran' = ran /\ spoiled' = spoiled /\ last' = last
  /\ scan'.i = scan.i + 1 /\ scan'.c0 = typed[scan.i + 1]
  /\ scan' \in [i : 0 .. CMD_BUFF, p0 : 0 .. CMD_BUFF - 1, c0 : Char]
\* The three ways through the loop: nothing is noted when it
Passes == argv' = argv /\ argc' = argc /\ scan'.p0 = scan.p0
\* comes to a space,
Blanks == /\ typed[scan.i + 1] = Space /\ Passes
          /\ cmdbuffer' = [cmdbuffer EXCEPT ![scan.i] = Nul]
\* the word behind is noted when a new one begins,
NewWord == /\ typed[scan.i + 1] # Space /\ scan.c0 = Space /\ argc < V_NUM
           /\ argv' = [argv EXCEPT ![argc] = scan.p0] /\ argc' = argc + 1
           /\ scan'.p0 = scan.i /\ cmdbuffer' = cmdbuffer
\* and nothing when a word goes on.
Within == /\ typed[scan.i + 1] # Space /\ scan.c0 # Space /\ Passes
          /\ cmdbuffer' = cmdbuffer

\* Every turn of the loop is one of the three.
LEMMA TurnIs == CmdInv /\ SplitChar => Turn /\ (Blanks \/ NewWord \/ Within)
<1>. SUFFICES ASSUME CmdInv, SplitChar PROVE Turn /\ (Blanks \/ NewWord \/ Within)
  OBVIOUS
<1>. DEFINE c == typed[scan.i + 1]
            Onward == [scan EXCEPT !.i = scan.i + 1, !.c0 = c]
            Next == [i |-> scan.i + 1, p0 |-> scan.i, c0 |-> c]
<1>1. CmdTypeOK /\ Buffered /\ Stands BY DEF CmdInv
<1>2. /\ cp \in 1 .. CMD_BUFF /\ scan.i \in 0 .. cp - 1 /\ Len(typed) = cp
      /\ typed \in Seq(Letters \cup {Space}) /\ state = "split"
      /\ scan \in [i : 0 .. CMD_BUFF, p0 : 0 .. CMD_BUFF - 1, c0 : Char]
      /\ cp' = cp /\ typed' = typed /\ state' = "split"
      /\ ran' = ran /\ spoiled' = spoiled /\ last' = last
  BY <1>1, CmdAssumption DEF SplitChar, CmdTypeOK, Stands
<1>3. cmdbuffer[scan.i] = c BY <1>1, <1>2 DEF Buffered
<1>4. c \in Char /\ scan.i + 1 \in 0 .. CMD_BUFF /\ scan.i \in 0 .. CMD_BUFF - 1
  BY <1>2, CmdAssumption DEF Char
<1>5. /\ Onward \in [i : 0 .. CMD_BUFF, p0 : 0 .. CMD_BUFF - 1, c0 : Char]
      /\ Onward.i = scan.i + 1 /\ Onward.c0 = c /\ Onward.p0 = scan.p0
  BY <1>2, <1>4
<1>6. /\ Next \in [i : 0 .. CMD_BUFF, p0 : 0 .. CMD_BUFF - 1, c0 : Char]
      /\ Next.i = scan.i + 1 /\ Next.c0 = c /\ Next.p0 = scan.i
  BY <1>2, <1>4
<1>7. \/ /\ c = Space /\ cmdbuffer' = [cmdbuffer EXCEPT ![scan.i] = Nul]
         /\ scan' = Onward /\ argv' = argv /\ argc' = argc
      \/ /\ c # Space /\ scan.c0 = Space /\ argc < V_NUM
         /\ argv' = [argv EXCEPT ![argc] = scan.p0] /\ argc' = argc + 1
         /\ scan' = Next /\ cmdbuffer' = cmdbuffer
      \/ /\ c # Space /\ scan.c0 # Space /\ scan' = Onward
         /\ argv' = argv /\ argc' = argc /\ cmdbuffer' = cmdbuffer
  BY <1>3 DEF SplitChar, Note
<1>. HIDE DEF Onward, Next
<1>8. Turn BY <1>2, <1>5, <1>6, <1>7 DEF Turn
<1>9. Blanks \/ NewWord \/ Within BY <1>5, <1>6, <1>7 DEF Blanks, NewWord, Within, Passes
<1>. QED BY <1>8, <1>9

\* A turn blanks its space and no other character.
LEMMA BufferedKept == ASSUME Turn, Blanks \/ NewWord \/ Within PROVE Buffered'
<1>. SUFFICES ASSUME NEW k \in 0 .. cp - 1
              PROVE  cmdbuffer'[k] = IF k < scan.i + 1 /\ typed[k + 1] = Space
                                     THEN Nul ELSE typed[k + 1]
  BY DEF Turn, Buffered
<1>. k \in 0 .. CMD_BUFF - 1 /\ scan.i \in Nat BY CmdAssumption DEF Turn
<1>1. cmdbuffer[k] = IF k < scan.i /\ typed[k + 1] = Space THEN Nul ELSE typed[k + 1]
  BY DEF Turn, CmdInv, Buffered
<1>2. cmdbuffer \in [0 .. CMD_BUFF - 1 -> Letters \cup {Space, Nul}]
  BY DEF Turn, CmdInv, CmdTypeOK
<1>3. CASE Blanks BY <1>1, <1>2, <1>3 DEF Blanks
<1>4. CASE NewWord BY <1>1, <1>4 DEF NewWord
<1>5. CASE Within BY <1>1, <1>5 DEF Within
<1>. QED BY <1>3, <1>4, <1>5

\* A turn keeps the types and the place of the loop.
LEMMA ShapeKept ==
  ASSUME Turn, Blanks \/ NewWord \/ Within
  PROVE  CmdTypeOK' /\ Stands' /\ Begun' /\ StaysDefined' /\ Remembers'
<1>. USE CmdAssumption DEF Char
<1>1. CmdTypeOK /\ Stands BY DEF Turn, CmdInv
<1>2. /\ cp \in 1 .. CMD_BUFF /\ scan.i \in 0 .. cp - 1 /\ Len(typed) = cp
      /\ typed \in Seq(Letters \cup {Space})
      /\ cp' = cp /\ typed' = typed /\ state = "split" /\ state' = "split"
      /\ scan'.i = scan.i + 1 /\ scan'.c0 = typed[scan.i + 1]
      /\ scan' \in [i : 0 .. CMD_BUFF, p0 : 0 .. CMD_BUFF - 1, c0 : Char]
  BY DEF Turn
<1>3. cmdbuffer' \in [0 .. CMD_BUFF - 1 -> Letters \cup {Space, Nul}]
  BY <1>1, <1>2 DEF Blanks, NewWord, Within, CmdTypeOK
<1>4. argc' \in 0 .. V_NUM /\ argv' \in [0 .. V_NUM - 1 -> {NoWord} \cup 0 .. CMD_BUFF - 1]
  <2>1. CASE Passes BY <2>1, <1>1 DEF CmdTypeOK, Passes
  <2>2. CASE NewWord BY <2>2, <1>1 DEF CmdTypeOK, NewWord
  <2>. QED BY <2>1, <2>2 DEF Blanks, Within
<1>5. scan'.p0 < scan.i + 1
  <2>1. CASE Passes BY <2>1, <1>1, <1>2 DEF Stands, Passes
  <2>2. CASE NewWord BY <2>2, <1>2 DEF NewWord
  <2>. QED BY <2>1, <2>2 DEF Blanks, Within
<1>7. CmdTypeOK'
  <2>1. spoiled' = spoiled /\ last' = last BY DEF Turn
  <2>. QED BY <1>1, <1>2, <1>3, <1>4, <2>1 DEF CmdTypeOK
<1>8. Stands' BY <1>2, <1>5 DEF Stands
<1>9. StaysDefined' BY <1>2 DEF StaysDefined, FaultsOnBlank, OverrunsWhenLong
<1>10. Remembers' BY <1>2, <1>7 DEF Remembers
<1>11. Begun'
  <2>1. Begun BY DEF Turn, CmdInv
  <2>2. CASE Passes BY <1>2, <2>1, <2>2 DEF Begun, Passes, Starts
  <2>3. CASE NewWord
    <3>1. /\ argc \in 0 .. V_NUM - 1 /\ argc' = argc + 1 /\ scan'.p0 = scan.i
          /\ argv' = [argv EXCEPT ![argc] = scan.p0] /\ scan.p0 \in Nat /\ scan.p0 < scan.i
          /\ typed[scan.i] = Space /\ typed[scan.i + 1] # Space
      BY <1>1, <1>2, <2>3 DEF CmdTypeOK, NewWord, Stands
    <3>2. \A m \in 0 .. argc : argv'[m] = IF m = argc THEN scan.p0 ELSE argv[m]
      BY <1>1, <3>1 DEF CmdTypeOK
    <3>3. scan.i + 1 \in Starts(typed)
      <4>1. scan.i \in Nat /\ scan.i < cp /\ Len(typed) = cp BY <1>2
      <4>2. typed[scan.i] = Space /\ typed[scan.i + 1] # Space BY <3>1
      <4>. QED BY <4>1, <4>2, <1>2 DEF Starts
    <3>4. \A m \in 0 .. argc - 1 : m \in 0 .. argc /\ m # argc /\ argv[m] \in Int
      <4>1. \A m \in 0 .. V_NUM - 1 : argv[m] \in {NoWord} \cup 0 .. CMD_BUFF - 1
        BY <1>1 DEF CmdTypeOK
      <4>. QED BY <3>1, <4>1 DEF NoWord
    <3>5. \A m \in 0 .. argc :
            argv'[m] + 1 \in Starts(typed) \cup {1} /\ argv'[m] < scan.i
      BY <1>2, <2>1, <3>1, <3>2, <3>4 DEF Begun
    <3>6. \A m, n \in 0 .. argc : m < n => argv'[m] < argv'[n]
      BY <1>2, <2>1, <3>1, <3>2, <3>4 DEF Begun
    <3>7. 0 .. argc' - 1 = 0 .. argc BY <3>1
    <3>. QED BY <1>2, <3>1, <3>3, <3>5, <3>6, <3>7 DEF Begun
  <2>. QED BY <2>2, <2>3 DEF Blanks, Within
<1>. QED BY <1>7, <1>8, <1>9, <1>10, <1>11

\* A word that has ended has ended one character later.
LEMMA EndsLater ==
  ASSUME NEW line, NEW a, NEW i \in Nat, EndsIn(line, a, i) PROVE EndsIn(line, a, i + 1)
<1>1. PICK j \in 1 .. i - 1 : Ends(line, a, j) /\ line[j + 1] = Space BY DEF EndsIn
<1>2. j \in 1 .. i + 1 - 1 OBVIOUS
<1>. QED BY <1>1, <1>2 DEF EndsIn

\* The words noted stay noted when the loop goes on within a word or behind it.
LEMMA NotedKept ==
  ASSUME Noted, Passes, scan.i \in Nat, scan'.i = scan.i + 1, typed' = typed PROVE Noted'
<1>1. \A m \in 0 .. argc - 1 : EndsIn(typed, argv[m], scan.i + 1)
  BY EndsLater DEF Noted
<1>2. argv' = argv /\ argc' = argc /\ scan'.p0 = scan.p0 BY DEF Passes
<1>. QED BY <1>1, <1>2 DEF Noted, Starts

\* A space ends the word before it.
LEMMA SpaceKeeps ==
  ASSUME Turn, Blanks PROVE Split' /\ NoneNoted' /\ Unset'
<1>1. /\ Split /\ NoneNoted /\ Unset /\ Stands /\ scan.i \in Nat /\ scan.i < cp
      /\ Len(typed) = cp /\ typed' = typed /\ state = "split" /\ state' = "split"
      /\ scan'.i = scan.i + 1 /\ scan'.c0 = Space /\ argc \in Nat
      /\ typed[scan.i + 1] = Space
  BY DEF Turn, CmdInv, CmdTypeOK, Blanks
<1>2. argv' = argv /\ argc' = argc /\ ran' = ran /\ scan'.p0 = scan.p0 /\ scan.p0 \in Nat /\ Passes
  BY <1>1 DEF Turn, Blanks, Passes, Stands
<1>3. scan.i + 1 \notin Starts(typed) BY DEF Blanks, Starts
<1>4. Split'
  <2>. SUFFICES ASSUME typed[1] # Space PROVE (Noted /\ Pending /\ AllSeen)'
    BY <1>1 DEF Split
  <2>1. Noted /\ Pending /\ AllSeen BY <1>1 DEF Split
  <2>6. scan.i > 0 BY <1>1
  <2>2. Noted' BY <2>1, <1>1, <1>2, NotedKept
  <2>3. EndsIn(typed, scan.p0, scan.i + 1)
    <3>1. CASE scan.c0 # Space
      <4>1. Ends(typed, scan.p0, scan.i)
        BY <3>1, <2>1, <2>6, <1>1, <1>2 DEF Ends, Pending, Stands
      <4>2. scan.i \in 1 .. scan.i + 1 - 1 BY <2>6, <1>1
      <4>. QED BY <4>1, <4>2, <1>1 DEF EndsIn
    <3>2. CASE scan.c0 = Space
      <4>1. EndsIn(typed, scan.p0, scan.i) BY <3>2, <2>1, <2>6 DEF Pending
      <4>. QED BY <4>1, <1>1, EndsLater
    <3>. QED BY <3>1, <3>2
  <2>4. Pending' BY <2>3, <2>1, <1>1, <1>2 DEF Pending, Starts
  <2>5. AllSeen' BY <2>1, <1>1, <1>2, <1>3 DEF AllSeen, Starts
  <2>. QED BY <2>2, <2>4, <2>5
<1>5. NoneNoted' BY <1>1, <1>2, <1>3 DEF NoneNoted, Starts
<1>6. Unset' BY <1>1, <1>2 DEF Unset
<1>. QED BY <1>4, <1>5, <1>6

\* A character behind another lengthens the word.
LEMMA WithinKeeps ==
  ASSUME Turn, Within PROVE Split' /\ NoneNoted' /\ Unset'
<1>1. /\ Split /\ NoneNoted /\ Unset /\ Stands /\ scan.i \in Nat /\ scan.i < cp
      /\ Len(typed) = cp /\ typed' = typed /\ state = "split" /\ state' = "split"
      /\ scan'.i = scan.i + 1 /\ scan'.c0 # Space /\ argc \in Nat
      /\ typed[scan.i + 1] # Space /\ scan.c0 # Space
  BY DEF Turn, CmdInv, CmdTypeOK, Within
<1>2. argv' = argv /\ argc' = argc /\ ran' = ran /\ scan'.p0 = scan.p0 /\ scan.p0 \in Nat /\ Passes
  BY <1>1 DEF Turn, Within, Passes, Stands
<1>3. scan.i + 1 \in Starts(typed) => scan.i = 0 BY <1>1 DEF Starts, Stands
<1>4. Split'
  <2>. SUFFICES ASSUME typed[1] # Space PROVE (Noted /\ Pending /\ AllSeen)'
    BY <1>1 DEF Split
  <2>1. Noted /\ Pending /\ AllSeen BY <1>1 DEF Split
  <2>2. Noted' BY <2>1, <1>1, <1>2, NotedKept
  <2>3. \A k \in scan.p0 + 1 .. scan.i + 1 : typed[k] # Space
    BY <2>1, <1>1, <1>2 DEF Pending, Stands
  <2>4. Pending' BY <2>3, <2>1, <1>1, <1>2 DEF Pending, Starts
  <2>5. AllSeen'
    <3>. SUFFICES ASSUME NEW s \in Starts(typed), s <= scan.i + 1
                  PROVE  s = scan.p0 + 1 \/ \E m \in 0 .. argc - 1 : s = argv[m] + 1
      BY <1>1, <1>2 DEF AllSeen, Starts
    <3>1. s \in Nat BY <1>1 DEF Starts
    <3>2. CASE s <= scan.i BY <3>2, <2>1 DEF AllSeen
    <3>3. CASE s = scan.i + 1 BY <3>3, <1>1, <1>3 DEF Stands
    <3>. QED BY <3>1, <3>2, <3>3, <1>1
  <2>. QED BY <2>2, <2>4, <2>5
<1>5. NoneNoted'
  <2>. SUFFICES ASSUME argc = 0, NEW s \in Starts(typed), s <= scan.i + 1 PROVE s = 1
    BY <1>1, <1>2 DEF NoneNoted, Starts
  <2>1. s \in Nat BY <1>1 DEF Starts
  <2>. QED BY <2>1, <1>1, <1>3 DEF NoneNoted
<1>6. Unset' BY <1>1, <1>2 DEF Unset
<1>. QED BY <1>4, <1>5, <1>6

\* A character behind a space begins a word, and argv gets the one before.
LEMMA NewWordKeeps ==
  ASSUME Turn, NewWord PROVE Split' /\ NoneNoted' /\ Unset'
<1>. USE CmdAssumption
<1>1. /\ Split /\ NoneNoted /\ Unset /\ Stands /\ scan.i \in Nat /\ scan.i < cp
      /\ Len(typed) = cp /\ typed' = typed /\ state = "split" /\ state' = "split"
      /\ scan'.i = scan.i + 1 /\ scan'.c0 = typed[scan.i + 1] /\ argc \in Nat
      /\ typed[scan.i + 1] # Space /\ scan.c0 = Space
      /\ argv \in [0 .. V_NUM - 1 -> {NoWord} \cup 0 .. CMD_BUFF - 1]
  BY DEF Turn, CmdInv, CmdTypeOK, NewWord
<1>2. /\ argc < V_NUM /\ argv' = [argv EXCEPT ![argc] = scan.p0] /\ argc' = argc + 1
      /\ ran' = ran /\ scan'.p0 = scan.i /\ scan.p0 \in Nat
  BY <1>1 DEF Turn, NewWord, Stands
<1>3. \A m \in 0 .. argc : argv'[m] = IF m = argc THEN scan.p0 ELSE argv[m] BY <1>1, <1>2
<1>4. scan.i > 0 /\ typed[scan.i] = Space /\ scan.p0 < scan.i
  BY <1>1 DEF Stands
<1>5. Split'
  <2>. SUFFICES ASSUME typed[1] # Space PROVE (Noted /\ Pending /\ AllSeen)'
    BY <1>1 DEF Split
  <2>1. Noted /\ Pending /\ AllSeen BY <1>1 DEF Split
  <2>2. \A m \in 0 .. argc - 1 : argv[m] \in 0 .. CMD_BUFF - 1 /\ argv[m] < scan.p0
    BY <2>1, <1>1, <1>2 DEF Noted
  <2>3. \A m \in 0 .. argc : argv'[m] # NoWord /\ argv'[m] < scan.i
    <3>. TAKE m \in 0 .. argc
    <3>1. CASE m = argc BY <3>1, <1>2, <1>3, <1>4 DEF NoWord
    <3>2. CASE m # argc
      <4>1. m \in 0 .. argc - 1 /\ argv'[m] = argv[m] BY <3>2, <1>1, <1>3
      <4>2. argv[m] \in Nat /\ argv[m] < scan.p0 BY <4>1, <2>2
      <4>. QED BY <4>1, <4>2, <1>1, <1>2, <1>4 DEF NoWord
    <3>. QED BY <3>1, <3>2
  <2>4. \A m, n \in 0 .. argc : m < n => argv'[m] < argv'[n]
    <3>. SUFFICES ASSUME NEW m \in 0 .. argc, NEW n \in 0 .. argc, m < n
                  PROVE  argv'[m] < argv'[n]
      OBVIOUS
    <3>1. m \in 0 .. argc - 1 /\ argv'[m] = argv[m] BY <1>1, <1>3
    <3>2. CASE n = argc BY <3>1, <3>2, <2>2, <1>3
    <3>3. CASE n # argc
      <4>1. n \in 0 .. argc - 1 /\ argv'[n] = argv[n] BY <3>3, <1>1, <1>3
      <4>. QED BY <4>1, <3>1, <2>1 DEF Noted
    <3>. QED BY <3>2, <3>3
  <2>5. \A m \in 0 .. argc :
          argv'[m] + 1 \in Starts(typed) /\ EndsIn(typed, argv'[m], scan.i + 1)
    <3>. TAKE m \in 0 .. argc
    <3>1. argv'[m] + 1 \in Starts(typed) /\ EndsIn(typed, argv'[m], scan.i)
      <4>1. CASE m = argc BY <4>1, <1>1, <1>3, <1>4, <2>1 DEF Pending
      <4>2. CASE m # argc
        <5>1. m \in 0 .. argc - 1 /\ argv'[m] = argv[m] BY <4>2, <1>1, <1>3
        <5>. QED BY <5>1, <2>1 DEF Noted
      <4>. QED BY <4>1, <4>2
    <3>. QED BY <3>1, <1>1, EndsLater
  <2>6. Noted'
    <3>1. 0 .. argc' - 1 = 0 .. argc BY <1>1, <1>2
    <3>2. Starts(typed') = Starts(typed) BY <1>1
    <3>3. \A m \in 0 .. argc' - 1 : argv'[m] # NoWord /\ argv'[m] < scan'.p0
      BY <3>1, <2>3, <1>2
    <3>4. \A m, n \in 0 .. argc' - 1 : m < n => argv'[m] < argv'[n] BY <3>1, <2>4
    <3>5. \A m \in 0 .. argc' - 1 :
            argv'[m] + 1 \in Starts(typed') /\ EndsIn(typed', argv'[m], scan'.i)
      BY <3>1, <3>2, <2>5, <1>1
    <3>. QED BY <3>3, <3>4, <3>5 DEF Noted
  <2>7. Pending'
    <3>1. scan.i + 1 \in Starts(typed) BY <1>1, <1>4 DEF Starts
    <3>. QED BY <3>1, <1>1, <1>2 DEF Pending, Starts
  <2>8. AllSeen'
    <3>1. ASSUME NEW s \in Starts(typed), s <= scan.i + 1
          PROVE  s = scan.i + 1 \/ \E m \in 0 .. argc : s = argv'[m] + 1
      <4>1. s \in Nat BY <1>1 DEF Starts
      <4>2. CASE s <= scan.i
        <5>1. CASE s = scan.p0 + 1
          <6>1. argc \in 0 .. argc /\ argv'[argc] = scan.p0 BY <1>1, <1>3
          <6>. QED BY <6>1, <5>1
        <5>2. CASE \E m \in 0 .. argc - 1 : s = argv[m] + 1
          <6>1. PICK m \in 0 .. argc - 1 : s = argv[m] + 1 BY <5>2
          <6>2. m \in 0 .. argc /\ argv'[m] = argv[m] BY <1>1, <1>3
          <6>. QED BY <6>1, <6>2
        <5>. QED BY <4>2, <5>1, <5>2, <2>1 DEF AllSeen
      <4>3. CASE s = scan.i + 1 BY <4>3
      <4>. QED BY <3>1, <4>1, <4>2, <4>3, <1>1
    <3>2. 0 .. argc' - 1 = 0 .. argc BY <1>1, <1>2
    <3>3. Starts(typed') = Starts(typed) BY <1>1
    <3>. QED BY <3>1, <3>2, <3>3, <1>1, <1>2 DEF AllSeen
  <2>. QED BY <2>6, <2>7, <2>8
<1>6. NoneNoted' BY <1>1, <1>2 DEF NoneNoted
<1>7. Unset'
  <2>1. argv'[0] # NoWord
    <3>1. CASE argc = 0
      <4>1. argv'[0] = scan.p0 BY <3>1, <1>3
      <4>. QED BY <4>1, <1>2 DEF NoWord
    <3>2. CASE argc # 0
      <4>1. argv'[0] = argv[0] BY <3>2, <1>1, <1>3
      <4>. QED BY <4>1, <3>2, <1>1 DEF Unset
    <3>. QED BY <3>1, <3>2
  <2>. QED BY <2>1 DEF Unset
<1>. QED BY <1>5, <1>6, <1>7

\* The loop keeps the invariant.
LEMMA SplitCharKeeps == ASSUME CmdInv, SplitChar PROVE CmdInv'
<1>1. Turn /\ (Blanks \/ NewWord \/ Within) BY TurnIs
<1>2. Split' /\ NoneNoted' /\ Unset' BY <1>1, SpaceKeeps, WithinKeeps, NewWordKeeps
<1>. QED BY <1>1, <1>2, BufferedKept, ShapeKept DEF CmdInv

\* The end of a line runs what it spells, and leaves it to be repeated.
LEMMA EndOfLineKeeps ==
  ASSUME CmdInv, EndOfLine
  PROVE  /\ CmdInv' /\ ~spoiled' /\ typed' = <<>>
         /\ Clean(typed) => /\ Spells(typed, ran'.args)
                            /\ ran'.name = ran'.args[1]
<1>. DEFINE buf == [cmdbuffer EXCEPT ![cp] = Nul]
            av == IF scan.c0 # Space THEN [argv EXCEPT ![argc] = scan.p0] ELSE argv
            ac == IF scan.c0 # Space THEN argc + 1 ELSE argc
<1>1. CmdTypeOK /\ Stands /\ Split /\ NoneNoted /\ Unset BY DEF CmdInv
<1>2. /\ state = "split" /\ scan.i = cp /\ cp < CMD_BUFF /\ ac <= V_NUM
      /\ cmdbuffer' = buf /\ argc' = ac /\ cp' = 0
      /\ typed' = <<>> /\ last' = typed /\ scan' = scan
      /\ IF av[0] # NoWord THEN Run(buf, av, ac)
         ELSE state' = "fault" /\ argv' = av /\ UNCHANGED ran
  BY DEF EndOfLine, EndAt, Closes
<1>3. ~spoiled' /\ spoiled' \in BOOLEAN BY Zenon DEF EndOfLine
<1>4. /\ cp \in 1 .. CMD_BUFF /\ argc \in 0 .. V_NUM /\ scan.p0 \in 0 .. CMD_BUFF - 1
      /\ cmdbuffer \in [0 .. CMD_BUFF - 1 -> Letters \cup {Space, Nul}]
      /\ argv \in [0 .. V_NUM - 1 -> {NoWord} \cup 0 .. CMD_BUFF - 1]
      /\ typed \in Seq(Letters \cup {Space}) /\ Len(typed) = cp /\ scan.c0 = typed[cp]
      /\ V_NUM \in Nat \ {0}
  BY <1>1, <1>2, CmdAssumption DEF CmdTypeOK, Stands
<1>5. /\ buf \in [0 .. CMD_BUFF - 1 -> Letters \cup {Space, Nul}] /\ ac \in 0 .. V_NUM
      /\ av \in [0 .. V_NUM - 1 -> {NoWord} \cup 0 .. CMD_BUFF - 1]
  <2>1. buf \in [0 .. CMD_BUFF - 1 -> Letters \cup {Space, Nul}] BY <1>4
  <2>2. CASE scan.c0 # Space
    <3>1. ac = argc + 1 /\ av = [argv EXCEPT ![argc] = scan.p0] BY <2>2
    <3>2. ac \in 0 .. V_NUM BY <3>1, <1>2, <1>4
    <3>3. av \in [0 .. V_NUM - 1 -> {NoWord} \cup 0 .. CMD_BUFF - 1] BY <3>1, <1>4
    <3>. QED BY <2>1, <3>2, <3>3
  <2>3. CASE scan.c0 = Space BY <2>1, <2>3, <1>4
  <2>. QED BY <2>2, <2>3
<1>6. argv' = av /\ state' \in {"prompt", "left", "fault"}
  <2>. HIDE DEF buf, av, ac
  <2>. QED BY <1>2, RunKeeps
<1>7. Clean(typed) => /\ av[0] # NoWord /\ ac = argc + 1
                      /\ Spells(typed, Args(buf, av, ac))
  <2>. SUFFICES ASSUME Clean(typed)
                PROVE  /\ av[0] # NoWord /\ ac = argc + 1
                       /\ Spells(typed, Args(buf, av, ac))
    OBVIOUS
  <2>1. scan.c0 # Space BY <1>4 DEF Clean
  <2>2. ac = argc + 1 /\ av = [argv EXCEPT ![argc] = scan.p0] BY <2>1
  <2>. HIDE DEF buf, av, ac
  <2>3. buf = [cmdbuffer EXCEPT ![cp] = Nul] BY DEF buf
  <2>4. argc + 1 <= V_NUM BY <1>2, <2>2
  <2>5. av[0] # NoWord /\ Spells(typed, Args(buf, av, argc + 1))
    BY <1>2, <2>2, <2>3, <2>4, Spelt
  <2>. QED BY <2>2, <2>5
<1>8. CmdTypeOK'
  <2>1. typed' \in Seq(Letters \cup {Space}) /\ Len(typed') = cp' BY <1>2
  <2>. HIDE DEF buf, av, ac
  <2>. QED BY <1>1, <1>2, <1>3, <1>4, <1>5, <1>6, <2>1, CmdAssumption DEF CmdTypeOK
<1>9. Buffered' BY <1>2 DEF Buffered
<1>10. Stands' BY <1>1, <1>2, <1>6 DEF Stands
<1>11. Split' /\ Begun' /\ NoneNoted' BY <1>6 DEF Split, Begun, NoneNoted
<1>12. av[0] = NoWord => argv[0] = NoWord /\ scan.c0 = Space
  <2>. SUFFICES ASSUME av[0] = NoWord PROVE argv[0] = NoWord /\ scan.c0 = Space OBVIOUS
  <2>1. CASE scan.c0 = Space BY <2>1
  <2>2. CASE scan.c0 # Space
    <3>1. argc \in 0 .. V_NUM - 1
      <4>1. ac = argc + 1 BY <2>2
      <4>. HIDE DEF ac
      <4>. QED BY <1>2, <1>4, <4>1
    <3>2. CASE argc = 0 BY <3>1, <3>2, <2>2, <1>4 DEF NoWord
    <3>3. CASE argc # 0
      <4>1. av[0] = argv[0] BY <3>1, <3>3, <2>2, <1>4
      <4>. QED BY <4>1, <3>3, <1>1, <1>2 DEF Unset
    <3>. QED BY <3>2, <3>3
  <2>. QED BY <2>1, <2>2
<1>13. Unset'
  <2>. HIDE DEF buf, av, ac
  <2>. QED BY <1>1, <1>2, <1>6, <1>12 DEF Unset
<1>14. Remembers'
  <2>. HIDE DEF buf, av, ac
  <2>. QED BY <1>2, <1>6, <1>7, <1>8 DEF Remembers, Args
<1>15. StaysDefined'
  <2>. SUFFICES ASSUME state' = "fault"
                PROVE  /\ ran' = Nothing /\ typed # <<>> /\ typed[Len(typed)] = Space
                       /\ \A i, j \in Starts(typed) : i = j
    BY <1>2, <1>6 DEF StaysDefined, FaultsOnBlank, OverrunsWhenLong
  <2>1. av[0] = NoWord
    <3>. HIDE DEF buf, av, ac
    <3>. QED BY <1>2, RunKeeps
  <2>2. argv[0] = NoWord /\ scan.c0 = Space BY <2>1, <1>12
  <2>3. argc = 0 /\ ran = Nothing BY <2>2, <1>1, <1>2 DEF Unset
  <2>4. ran' = ran
    <3>. HIDE DEF buf, av, ac
    <3>. QED BY <1>2, <2>1
  <2>5. \A s \in Starts(typed) : s <= cp BY <1>4 DEF Starts
  <2>6. \A s \in Starts(typed) : s = 1 BY <2>3, <2>5, <1>1, <1>2 DEF NoneNoted
  <2>. QED BY <2>2, <2>3, <2>4, <2>6, <1>4
<1>16. Clean(typed) => Spells(typed, ran'.args) /\ ran'.name = ran'.args[1]
  <2>. SUFFICES ASSUME Clean(typed)
                PROVE  Spells(typed, ran'.args) /\ ran'.name = ran'.args[1]
    OBVIOUS
  <2>1. 1 \in 1 .. ac BY <1>4, <1>7
  <2>. HIDE DEF buf, av, ac
  <2>2. /\ ran'.args = [n \in 1 .. ac |-> String(buf, av[n - 1])]
        /\ ran'.name = String(buf, av[0])
    BY <1>2, <1>7, RunKeeps
  <2>3. ran'.args[1] = String(buf, av[0]) BY <2>1, <2>2
  <2>. QED BY <1>7, <2>2, <2>3 DEF Args
<1>. QED
  BY <1>2, <1>3, <1>8, <1>9, <1>10, <1>11, <1>13, <1>14, <1>15, <1>16 DEF CmdInv

\* Enter alone runs again what the buffer still spells.
LEMMA EmptyLineKeeps == ASSUME CmdInv, EmptyLine PROVE CmdInv' /\ typed' = typed
<1>1. CmdTypeOK /\ Stands /\ Unset /\ Remembers BY DEF CmdInv
<1>2. /\ state = "prompt" /\ cp = 0 /\ argv[0] # NoWord /\ argc' = argc
      /\ cmdbuffer' = cmdbuffer /\ cp' = cp /\ typed' = typed /\ spoiled' = spoiled
      /\ last' = last /\ scan' = scan /\ Run(cmdbuffer, argv, argc)
  BY DEF EmptyLine, LineArgc
<1>3. argv' = argv /\ state' \in {"prompt", "left"} BY <1>2, RunKeeps
<1>4. CmdTypeOK' BY <1>1, <1>2, <1>3 DEF CmdTypeOK
<1>5. Buffered' BY <1>2 DEF Buffered
<1>6. Stands' BY <1>1, <1>2, <1>3 DEF Stands
<1>7. Split' /\ Begun' /\ NoneNoted' /\ StaysDefined'
  BY <1>3 DEF Split, Begun, NoneNoted, StaysDefined, FaultsOnBlank, OverrunsWhenLong
<1>8. Unset' BY <1>2, <1>3 DEF Unset
<1>9. Remembers' BY <1>1, <1>2, <1>3, <1>4 DEF Remembers
<1>. QED BY <1>2, <1>4, <1>5, <1>6, <1>7, <1>8, <1>9 DEF CmdInv

\* A control character changes nothing.
LEMMA CmdStays == ASSUME CmdInv, UNCHANGED cmdvars PROVE CmdInv' /\ typed' = typed
<1>. USE DEF cmdvars
<1>1. CmdTypeOK' /\ Remembers' BY DEF CmdInv, CmdTypeOK, Remembers
<1>2. Buffered' /\ Stands' BY DEF CmdInv, Buffered, Stands
<1>3. Split' /\ Begun' BY DEF CmdInv, Split, Begun, Noted, Pending, AllSeen, Starts
<1>4. NoneNoted' /\ Unset' /\ StaysDefined'
  BY DEF CmdInv, NoneNoted, Unset, StaysDefined, FaultsOnBlank, OverrunsWhenLong, TooMany, Starts
<1>. QED BY <1>1, <1>2, <1>3, <1>4 DEF CmdInv

\* A word too many is noted only of a line with a word too many.
LEMMA WordsFill == ASSUME CmdInv, state = "split", argc = V_NUM PROVE TooMany(typed)
<1>. DEFINE from == [m \in 0 .. V_NUM |-> IF m = V_NUM THEN scan.p0 + 1 ELSE argv[m] + 1]
<1>5. Begun /\ CmdTypeOK /\ V_NUM \in Nat /\ CMD_BUFF \in Nat BY CmdAssumption DEF CmdInv
<1>6. \A m \in 0 .. V_NUM - 1 : argv[m] \in {NoWord} \cup 0 .. CMD_BUFF - 1
  BY <1>5 DEF CmdTypeOK
<1>1. /\ Begun /\ V_NUM \in Nat /\ scan.p0 \in Nat
      /\ \A m \in 0 .. V_NUM - 1 : argv[m] \in Int
  BY <1>5, <1>6 DEF CmdTypeOK, NoWord
<1>2. \A m \in 0 .. V_NUM : m # V_NUM => m \in 0 .. argc - 1 BY <1>1
<1>3. from \in [0 .. V_NUM -> Starts(typed) \cup {1}] BY <1>1, <1>2 DEF Begun
<1>4. \A m, n \in 0 .. V_NUM : m < n => from[m] < from[n]
  <2>. SUFFICES ASSUME NEW m \in 0 .. V_NUM, NEW n \in 0 .. V_NUM, m < n
                PROVE  from[m] < from[n]
    OBVIOUS
  <2>1. m # V_NUM /\ m \in 0 .. argc - 1 /\ argv[m] \in Int BY <1>1
  <2>2. CASE n = V_NUM BY <1>1, <2>1, <2>2 DEF Begun
  <2>3. CASE n # V_NUM
    <3>1. n \in 0 .. argc - 1 /\ argv[n] \in Int BY <1>1, <2>3
    <3>2. argv[m] < argv[n] BY <1>1, <2>1, <3>1 DEF Begun
    <3>. QED BY <2>1, <2>3, <3>1, <3>2
  <2>. QED BY <2>2, <2>3
<1>. HIDE DEF from
<1>. QED BY <1>3, <1>4 DEF TooMany

\* An array is overrun only by a line that is too long for it.
LEMMA OverrunKeeps == ASSUME CmdInv, Overrun PROVE CmdInv' /\ typed' = typed
<1>1. CmdTypeOK /\ Stands /\ Unset /\ Remembers BY DEF CmdInv
<1>2. /\ state' = "overrun" /\ cmdbuffer' = cmdbuffer /\ cp' = cp /\ argv' = argv
      /\ argc' = argc /\ ran' = ran /\ typed' = typed /\ spoiled' = spoiled
      /\ last' = last /\ scan' = scan
  BY DEF Overrun
<1>3. CmdTypeOK' BY <1>1, <1>2 DEF CmdTypeOK
<1>4. Buffered' /\ Split' /\ Begun' /\ NoneNoted'
  BY <1>2 DEF Buffered, Split, Begun, NoneNoted
<1>5. Stands' /\ Unset' BY <1>1, <1>2 DEF Stands, Unset
<1>6. Remembers' BY <1>2, <1>3 DEF Remembers
<1>7. Len(typed) = CMD_BUFF \/ TooMany(typed)
  <2>1. cp = CMD_BUFF \/ (state = "split" /\ argc = V_NUM) BY DEF Overrun
  <2>2. Len(typed) = cp BY <1>1 DEF CmdTypeOK
  <2>. QED BY <2>1, <2>2, WordsFill
<1>8. StaysDefined'
  BY <1>2, <1>7 DEF StaysDefined, FaultsOnBlank, OverrunsWhenLong, TooMany, Starts
<1>. QED BY <1>2, <1>3, <1>4, <1>5, <1>6, <1>8 DEF CmdInv

\* Every step keeps the invariant, and runs what its line spells.
LEMMA CmdSteps ==
  ASSUME CmdInv, [CmdNext]_cmdvars
  PROVE  CmdInv' /\ (Clean(typed) /\ typed' = <<>> /\ ~spoiled'
                       => Spells(typed, ran'.args) /\ ran'.name = ran'.args[1])
<1>1. ASSUME UNCHANGED cmdvars PROVE CmdInv' /\ typed' = typed BY <1>1, CmdStays
<1>2. typed \in Seq(Letters \cup {Space}) /\ Len(typed) = cp /\ cp \in Nat
  BY DEF CmdInv, CmdTypeOK
<1>3. ASSUME NEW c \in Keys, Key(c)
      PROVE  CmdInv' /\ (typed' = <<>> => typed = <<>> \/ spoiled')
  <2>1. CASE c \in Letters \cup {Space} /\ Printable(c)
    <3>1. typed' # <<>> BY <2>1, <1>2 DEF Printable
    <3>. QED BY <2>1, <3>1, PrintableKeeps
  <2>2. CASE Erase
    <3>1. spoiled' BY <2>2, Zenon DEF Erase
    <3>. QED BY <2>2, <3>1, EraseKeeps
  <2>3. CASE BeginSplit
    <3>1. typed' = typed BY <2>3 DEF BeginSplit
    <3>. QED BY <2>3, <3>1, BeginSplitKeeps
  <2>4. CASE EmptyLine BY <2>4, EmptyLineKeeps
  <2>5. CASE UNCHANGED cmdvars BY <2>5, <1>1
  <2>. QED BY <1>3, <2>1, <2>2, <2>3, <2>4, <2>5 DEF Key
<1>4. ASSUME SplitChar PROVE CmdInv' /\ typed' = typed
  BY <1>4, SplitCharKeeps DEF SplitChar
<1>. QED BY <1>1, <1>3, <1>4, EndOfLineKeeps, OverrunKeeps DEF CmdNext, Clean

(* For every size of the arrays, table and set of letters, an empty prompt    *)
(* remembers the last line, one that fitted: Enter alone repeats it.         *)
THEOREM RemembersAlways == CmdSpec => []Remembers
<1>1. CmdInv /\ [CmdNext]_cmdvars => CmdInv' BY CmdSteps
<1>2. CmdInv => Remembers BY DEF CmdInv
<1>. QED BY CmdStarts, <1>1, <1>2, PTL DEF CmdSpec

(* Only a first line of at most one word, with a space behind it, makes the   *)
(* loop compare NULL with a name; only a line that fills cmdbuffer, or has    *)
(* more words than argv has cells, makes it write behind an array.           *)
THEOREM DefinedUnlessLong == CmdSpec => []StaysDefined
<1>1. CmdInv /\ [CmdNext]_cmdvars => CmdInv' BY CmdSteps
<1>2. CmdInv => StaysDefined BY DEF CmdInv
<1>. QED BY CmdStarts, <1>1, <1>2, PTL DEF CmdSpec

(* A line without spaces at its ends, short enough for cmdbuffer with its NUL  *)
(* and for argv, runs the command it spells with the words behind it, through *)
(* every way of typing and erasing it.                                      *)
THEOREM LinesRun == CmdSpec => LineRuns
<1>1. CmdInv /\ [CmdNext]_cmdvars
        => CmdInv' /\ [Clean(typed) /\ typed' = <<>> /\ ~spoiled'
                        => Spells(typed, ran'.args) /\ ran'.name = ran'.args[1]]_cmdvars
  BY CmdSteps
<1>. QED BY CmdStarts, <1>1, PTL DEF CmdSpec, LineRuns
-----------------------------------------------------------------------------
(* Strings in memory (string.c).                                            *)

LEMMA MinOfTwo ==
  ASSUME NEW a \in Nat, NEW b \in Nat
  PROVE  Min({a, b}) = IF a <= b THEN a ELSE b
<1>1. Min({a, b}) \in {a, b} /\ \A x \in {a, b} : Min({a, b}) <= x
  BY MinIsThere
<1>. QED BY <1>1

LEMMA MaxOfTwo ==
  ASSUME NEW a \in Nat, NEW b \in Nat
  PROVE  Max({a, b}) = IF a <= b THEN b ELSE a
<1>1. \E x \in {a, b} : \A y \in {a, b} : x >= y OBVIOUS
<1>. QED BY <1>1 DEF Max

LEMMA Bytes ==
  ASSUME NEW m, IsMemory(m)
  PROVE  /\ Len(m) \in Nat \ {0} /\ DOMAIN m = 1 .. Len(m) /\ m[Len(m)] = NUL
         /\ m \in Seq(0 .. 255) /\ \A a \in DOMAIN m : m[a] \in 0 .. 255
<1>1. m \in Seq(0 .. 255) /\ m # <<>> /\ m[Len(m)] = NUL BY DEF IsMemory
<1>2. Len(m) \in Nat \ {0} BY <1>1, EmptySeq
<1>3. DOMAIN m = 1 .. Len(m) BY <1>1, LenProperties
<1>. QED BY <1>1, <1>2, <1>3, ElementOfSeq

\* Every address of a memory points to a string.
LEMMA EndIs ==
  ASSUME NEW m, IsMemory(m), NEW p \in DOMAIN m
  PROVE  /\ End(m, p) \in p .. Len(m) /\ m[End(m, p)] = NUL
         /\ \A a \in p .. End(m, p) - 1 : m[a] # NUL
<1> DEFINE S == {a \in DOMAIN m : a >= p /\ m[a] = NUL}
<1>1. S \in SUBSET Nat /\ Len(m) \in S BY Bytes
<1>2. End(m, p) = Min(S) BY DEF End, First
<1>3. Min(S) \in S /\ \A x \in S : Min(S) <= x
  <2> HIDE DEF S
  <2>. QED BY <1>1, MinIsThere
<1>4. ASSUME NEW a \in p .. Min(S) - 1 PROVE m[a] # NUL
  <2>1. a \in DOMAIN m /\ a >= p /\ ~(Min(S) <= a) BY <1>3, Bytes
  <2>. QED BY <1>3, <2>1
<1> HIDE DEF S
<1>5. Min(S) \in p .. Len(m) /\ m[Min(S)] = NUL BY <1>3, Bytes DEF S
<1>. QED BY <1>2, <1>4, <1>5

\* From p to e there is no NUL.
NoNul(m, p, e) == \A a \in p .. e - 1 : m[a] # NUL

\* The first NUL is the end.
LEMMA FirstNul ==
  ASSUME NEW m, IsMemory(m), NEW p \in DOMAIN m, NEW e \in p .. Len(m), m[e] = NUL,
         NoNul(m, p, e)
  PROVE  End(m, p) = e
<1>1. End(m, p) \in p .. Len(m) /\ m[End(m, p)] = NUL
      /\ \A a \in p .. End(m, p) - 1 : m[a] # NUL BY EndIs
<1>2. p \in Nat BY Bytes
<1>3. ~(End(m, p) < e) /\ ~(e < End(m, p)) BY <1>1, <1>2 DEF NoNul
<1>. QED BY <1>1, <1>2, <1>3

\* A part of a memory, byte for byte.
LEMMA PartIs ==
  ASSUME NEW m, IsMemory(m), NEW p \in Nat \ {0}, NEW e \in Nat, p <= e + 1, e <= Len(m)
  PROVE  /\ SubSeq(m, p, e) \in Seq(0 .. 255)
         /\ Len(SubSeq(m, p, e)) = e - p + 1
         /\ \A i \in 1 .. e - p + 1 : SubSeq(m, p, e)[i] = m[p + i - 1]
<1>1. m \in Seq(0 .. 255) /\ p \in Int /\ e \in Int BY Bytes
<1>2. \A i \in p .. e : m[i] \in 0 .. 255
  <2>. TAKE i \in p .. e
  <2>1. i \in 1 .. Len(m) BY Bytes
  <2>. QED BY <2>1, Bytes
<1>3. ~ p <= e => e - p + 1 = 0 OBVIOUS
<1>. QED BY <1>1, <1>2, <1>3, SubSeqProperties

LEMMA StrIs ==
  ASSUME NEW m, IsMemory(m), NEW p \in DOMAIN m
  PROVE  /\ strlen(m, p) \in Nat /\ p + strlen(m, p) <= Len(m)
         /\ p + strlen(m, p) = End(m, p)
         /\ Str(m, p) \in Seq(0 .. 255) /\ Len(Str(m, p)) = strlen(m, p)
         /\ \A i \in 1 .. strlen(m, p) : Str(m, p)[i] = m[p + i - 1] /\ m[p + i - 1] # NUL
<1> DEFINE l == strlen(m, p)
<1>1. p \in Nat \ {0} /\ l \in Nat /\ p + l = End(m, p) /\ p + l <= Len(m)
  BY EndIs, Bytes DEF strlen
<1>2. Str(m, p) = SubSeq(m, p, p + l - 1) BY <1>1 DEF Str
<1>3. \A i \in 1 .. l : m[p + i - 1] # NUL
  <2>. TAKE i \in 1 .. l
  <2>1. p + i - 1 \in p .. End(m, p) - 1 BY <1>1
  <2>. QED BY <2>1, EndIs
<1> HIDE DEF l
<1>4. PICK e : e = p + l - 1 OBVIOUS
<1>5. e \in Nat /\ p <= e + 1 /\ e <= Len(m) /\ e - p + 1 = l BY <1>1, <1>4, Bytes
<1>6. /\ SubSeq(m, p, e) \in Seq(0 .. 255) /\ Len(SubSeq(m, p, e)) = l
      /\ \A i \in 1 .. l : SubSeq(m, p, e)[i] = m[p + i - 1]
  BY <1>1, <1>5, PartIs
<1>. QED BY <1>1, <1>2, <1>3, <1>4, <1>6 DEF l

\* The same, in the terms of a pointer.
LEMMA Pointers ==
  ASSUME NEW m, IsMemory(m), NEW p \in DOMAIN m
  PROVE  /\ p \in Nat \ {0} /\ Len(m) \in Nat /\ strlen(m, p) \in Nat
         /\ p + strlen(m, p) <= Len(m) /\ m[p + strlen(m, p)] = NUL
<1>1. p + strlen(m, p) = End(m, p) /\ p + strlen(m, p) <= Len(m) /\ strlen(m, p) \in Nat BY StrIs
<1>2. m[End(m, p)] = NUL BY EndIs
<1>3. p \in Nat \ {0} /\ Len(m) \in Nat BY Bytes
<1>. QED BY <1>1, <1>2, <1>3

LEMMA HeadIs ==
  ASSUME NEW s \in Seq(0 .. 255), NEW k \in Nat
  PROVE  /\ Head_(s, k) \in Seq(0 .. 255)
         /\ Len(Head_(s, k)) = IF k <= Len(s) THEN k ELSE Len(s)
         /\ \A i \in 1 .. Len(Head_(s, k)) : Head_(s, k)[i] = s[i]
<1> DEFINE n == IF k <= Len(s) THEN k ELSE Len(s)
<1>1. Len(s) \in Nat BY LenProperties
<1>2. n \in Nat /\ n <= Len(s) /\ Head_(s, k) = SubSeq(s, 1, n)
  BY <1>1, MinOfTwo DEF Head_
<1>3. \A i \in 1 .. n : s[i] \in 0 .. 255 BY <1>1, <1>2, ElementOfSeq
<1> HIDE DEF n
<1>4. /\ SubSeq(s, 1, n) \in Seq(0 .. 255) /\ Len(SubSeq(s, 1, n)) = n
      /\ \A i \in 1 .. n : SubSeq(s, 1, n)[i] = s[1 + i - 1]
  <2>1. n \in Int /\ 1 \in Int /\ n - 1 + 1 = n /\ (~ 1 <= n => n = 0) BY <1>2
  <2>2. /\ SubSeq(s, 1, n) \in Seq(0 .. 255)
        /\ Len(SubSeq(s, 1, n)) = IF 1 <= n THEN n - 1 + 1 ELSE 0
        /\ \A i \in 1 .. n - 1 + 1 : SubSeq(s, 1, n)[i] = s[1 + i - 1]
    BY <1>3, <2>1, SubSeqProperties
  <2>. QED BY <2>1, <2>2
<1>. QED BY <1>1, <1>2, <1>4 DEF n

-----------------------------------------------------------------------------
(* Comparing.                                                               *)

\* s and t agree on k elements and no more, or one of them ends there.
Split_(s, t, k) == /\ k \in Nat /\ k <= Len(s) /\ k <= Len(t)
                   /\ \A i \in 1 .. k : s[i] = t[i]
                   /\ k = Len(s) \/ k = Len(t) \/ s[k + 1] # t[k + 1]

LEMMA BeforeIs ==
  ASSUME NEW s \in Seq(0 .. 255), NEW t \in Seq(0 .. 255), NEW k, Split_(s, t, k)
  PROVE  Before(s, t) <=> k < Len(t) /\ (k = Len(s) \/ s[k + 1] < t[k + 1])
<1>1. /\ Len(s) \in Nat /\ Len(t) \in Nat /\ k \in Nat
      /\ \A i \in 1 .. Len(s) : s[i] \in 0 .. 255
      /\ \A i \in 1 .. Len(t) : t[i] \in 0 .. 255
  BY LenProperties, ElementOfSeq DEF Split_
<1>2. \A j \in Nat : j <= Len(s) /\ j <= Len(t) =>
        (Head_(s, j) = Head_(t, j) <=> \A i \in 1 .. j : s[i] = t[i])
  <2>. TAKE j \in Nat
  <2>. HAVE j <= Len(s) /\ j <= Len(t)
  <2>1. /\ Head_(s, j) \in Seq(0 .. 255) /\ Len(Head_(s, j)) = j
        /\ \A i \in 1 .. j : Head_(s, j)[i] = s[i] BY HeadIs
  <2>2. /\ Head_(t, j) \in Seq(0 .. 255) /\ Len(Head_(t, j)) = j
        /\ \A i \in 1 .. j : Head_(t, j)[i] = t[i] BY HeadIs
  <2>. QED BY <2>1, <2>2, SeqEqual
<1>3. ASSUME Before(s, t) PROVE k < Len(t) /\ (k = Len(s) \/ s[k + 1] < t[k + 1])
  <2>1. PICK j \in 0 .. Len(s) : /\ j < Len(t) /\ Head_(s, j) = Head_(t, j)
                                 /\ j = Len(s) \/ s[j + 1] < t[j + 1]
    BY <1>3 DEF Before
  <2>2. \A i \in 1 .. j : s[i] = t[i] BY <1>1, <1>2, <2>1
  <2>3. ~ j < k
    <3>. SUFFICES ASSUME j < k PROVE FALSE OBVIOUS
    <3>1. j + 1 \in 1 .. k /\ j < Len(s) BY <1>1 DEF Split_
    <3>2. s[j + 1] = t[j + 1] /\ j + 1 \in 1 .. Len(s) BY <1>1, <3>1 DEF Split_
    <3>3. s[j + 1] < t[j + 1] BY <1>1, <2>1, <3>1
    <3>4. s[j + 1] \in 0 .. 255 BY <3>2, ElementOfSeq
    <3>5. \A x \in 0 .. 255 : ~(x < x) OBVIOUS
    <3>. QED BY <3>2, <3>3, <3>4, <3>5
  <2>4. ~ k < j
    <3>. SUFFICES ASSUME k < j PROVE FALSE OBVIOUS
    <3>1. k + 1 \in 1 .. j BY <1>1
    <3>2. s[k + 1] = t[k + 1] /\ k < Len(s) /\ k < Len(t) BY <1>1, <2>1, <2>2, <3>1
    <3>3. k # Len(s) /\ k # Len(t) BY <1>1, <3>2
    <3>. QED BY <3>2, <3>3 DEF Split_
  <2>5. j = k BY <1>1, <2>3, <2>4
  <2>. QED BY <2>1, <2>5
<1>4. ASSUME k < Len(t), k = Len(s) \/ s[k + 1] < t[k + 1] PROVE Before(s, t)
  <2>1. k \in 0 .. Len(s) BY <1>1 DEF Split_
  <2>2. Head_(s, k) = Head_(t, k) BY <1>1, <1>2 DEF Split_
  <2>. QED BY <1>4, <2>1, <2>2 DEF Before
<1>. QED BY <1>3, <1>4

\* A difference at the place where they part decides the order.
LEMMA OrdersIs ==
  ASSUME NEW s \in Seq(0 .. 255), NEW t \in Seq(0 .. 255), NEW k, Split_(s, t, k),
         NEW cmp \in Int,
         k = Len(s) /\ k = Len(t) => cmp = 0,
         k = Len(s) /\ k < Len(t) => cmp < 0,
         k < Len(s) /\ k = Len(t) => cmp > 0,
         k < Len(s) /\ k < Len(t) => cmp = s[k + 1] - t[k + 1]
  PROVE  Orders(cmp, s, t)
<1>1. Split_(t, s, k) BY DEF Split_
<1>2. Before(s, t) <=> k < Len(t) /\ (k = Len(s) \/ s[k + 1] < t[k + 1]) BY BeforeIs
<1>3. Before(t, s) <=> k < Len(s) /\ (k = Len(t) \/ t[k + 1] < s[k + 1]) BY <1>1, BeforeIs
<1>4. /\ Len(s) \in Nat /\ Len(t) \in Nat /\ k \in Nat /\ k <= Len(s) /\ k <= Len(t)
      /\ k < Len(s) => s[k + 1] \in 0 .. 255
      /\ k < Len(t) => t[k + 1] \in 0 .. 255
  <2>1. Len(s) \in Nat /\ Len(t) \in Nat /\ k \in Nat /\ k <= Len(s) /\ k <= Len(t)
    BY LenProperties DEF Split_
  <2>2. k < Len(s) => k + 1 \in 1 .. Len(s) BY <2>1
  <2>3. k < Len(t) => k + 1 \in 1 .. Len(t) BY <2>1
  <2>. QED BY <2>1, <2>2, <2>3, ElementOfSeq
<1>5. k = Len(s) \/ k = Len(t) \/ s[k + 1] # t[k + 1] BY DEF Split_
<1>6. CASE k = Len(s)
  <2>1. ~ k < Len(s) BY <1>4, <1>6
  <2>. QED BY <1>2, <1>3, <1>4, <1>6, <2>1 DEF Orders
<1>7. CASE k = Len(t)
  <2>1. ~ k < Len(t) BY <1>4, <1>7
  <2>. QED BY <1>2, <1>3, <1>4, <1>7, <2>1 DEF Orders
<1>8. CASE k < Len(s) /\ k < Len(t)
  <2> DEFINE x == s[k + 1]
             y == t[k + 1]
  <2>1. x \in 0 .. 255 /\ y \in 0 .. 255 /\ cmp = x - y BY <1>4, <1>8
  <2>2. (cmp < 0 <=> x < y) /\ (cmp > 0 <=> y < x)
    <3> HIDE DEF x, y
    <3>. QED BY <2>1
  <2>3. k # Len(s) /\ k # Len(t) BY <1>4, <1>8
  <2>. QED BY <1>2, <1>3, <1>8, <2>2, <2>3 DEF Orders
<1>. QED BY <1>4, <1>6, <1>7, <1>8

\* The bytes at a and at b are the same for k bytes.
Agree(m, a, b, k) == \A j \in 0 .. k - 1 : m[a + j] = m[b + j]

\* Where two strings part, or one of them ends, within n bytes.
LEMMA DifferOrEndIs ==
  ASSUME NEW m, IsMemory(m), NEW a \in DOMAIN m, NEW b \in DOMAIN m, NEW n \in Nat
  PROVE  LET k == DifferOrEnd(m, a, b, n)
         IN  /\ k \in 0 .. n /\ k <= strlen(m, a) /\ k <= strlen(m, b)
             /\ Agree(m, a, b, k)
             /\ k < n => k = strlen(m, a) \/ m[a + k] # m[b + k]
<1> DEFINE k == DifferOrEnd(m, a, b, n)
           Parts(j) == /\ a + j \in DOMAIN m /\ b + j \in DOMAIN m
                       /\ m[a + j] # m[b + j] \/ m[a + j] = NUL
           S == {n} \cup {j \in 0 .. n - 1 : Parts(j)}
           la == strlen(m, a)
           lb == strlen(m, b)
<1>1. k \in S /\ \A x \in S : k <= x
  <2>1. k = Min(S) BY DEF DifferOrEnd
  <2>2. S \in SUBSET Nat /\ S # {} OBVIOUS
  <2> HIDE DEF S, k
  <2>. QED BY <2>1, <2>2, MinIsThere
<1> HIDE DEF k
<1>2. k \in 0 .. n /\ (k < n => Parts(k)) BY <1>1
<1>3. \A j \in 0 .. k - 1 : ~Parts(j)
  <2>. TAKE j \in 0 .. k - 1
  <2>1. j \notin S BY <1>1, <1>2
  <2>2. j \in 0 .. n - 1 BY <1>2
  <2>. QED BY <2>1, <2>2
<1>4. /\ a \in Nat \ {0} /\ b \in Nat \ {0} /\ la \in Nat /\ lb \in Nat
      /\ a + la <= Len(m) /\ b + lb <= Len(m) /\ Len(m) \in Nat
      /\ m[a + la] = NUL /\ m[b + lb] = NUL
  BY Pointers
<1>5. \A j \in Nat : j <= la /\ j <= lb => a + j \in DOMAIN m /\ b + j \in DOMAIN m
  <2> HIDE DEF la, lb
  <2>. QED BY <1>4, Bytes
<1>6. k <= la /\ k <= lb
  <2>1. CASE la < k /\ la <= lb
    <3>1. la \in 0 .. k - 1 /\ a + la \in DOMAIN m /\ b + la \in DOMAIN m
      BY <1>2, <1>4, <1>5, <2>1
    <3>. QED BY <1>3, <1>4, <3>1
  <2>2. CASE lb < k /\ lb <= la
    <3>1. lb \in 0 .. k - 1 /\ a + lb \in DOMAIN m /\ b + lb \in DOMAIN m
      BY <1>2, <1>4, <1>5, <2>2
    <3>. QED BY <1>3, <1>4, <3>1
  <2>. QED BY <1>2, <1>4, <2>1, <2>2
<1>7. \A j \in 0 .. k - 1 : m[a + j] = m[b + j]
  <2>. TAKE j \in 0 .. k - 1
  <2>1. j \in Nat /\ j <= la /\ j <= lb BY <1>2, <1>4, <1>6
  <2>. QED BY <1>3, <1>5, <2>1
<1>8. ASSUME k < n PROVE k = la \/ m[a + k] # m[b + k]
  <2>1. CASE m[a + k] = NUL
    <3>1. k < la => m[a + (k + 1) - 1] # NUL
      <4>1. k < la => k + 1 \in 1 .. la BY <1>2, <1>4
      <4>. QED BY <4>1, StrIs
    <3>2. a + (k + 1) - 1 = a + k BY <1>2, <1>4
    <3>3. ~ k < la BY <2>1, <3>1, <3>2
    <3>. QED BY <1>2, <1>4, <1>6, <3>3
  <2>2. CASE m[a + k] # NUL
    <3>1. Parts(k) BY <1>2, <1>8
    <3>. QED BY <2>2, <3>1
  <2>. QED BY <2>1, <2>2
<1>. QED BY <1>2, <1>6, <1>7, <1>8 DEF k, Agree

\* Two strings, or the first n bytes of them, split there.
LEMMA HeadsSplit ==
  ASSUME NEW m, IsMemory(m), NEW a \in DOMAIN m, NEW b \in DOMAIN m, NEW n \in Nat,
         NEW k, k = DifferOrEnd(m, a, b, n), NEW s, NEW t,
         \/ k < n /\ s = Str(m, a) /\ t = Str(m, b)
         \/ s = Head_(Str(m, a), n) /\ t = Head_(Str(m, b), n)
  PROVE  /\ s \in Seq(0 .. 255) /\ t \in Seq(0 .. 255) /\ Split_(s, t, k)
         /\ k < n => Orders(m[a + k] - m[b + k], s, t)
         /\ k = n => Orders(0, s, t)
<1> DEFINE la == strlen(m, a)
           lb == strlen(m, b)
<1>1. /\ k \in 0 .. n /\ k <= la /\ k <= lb
      /\ \A j \in 0 .. k - 1 : m[a + j] = m[b + j]
      /\ k < n => k = la \/ m[a + k] # m[b + k]
  <2> DEFINE K == DifferOrEnd(m, a, b, n)
  <2>1. /\ K \in 0 .. n /\ K <= la /\ K <= lb
        /\ Agree(m, a, b, K)
        /\ K < n => K = la \/ m[a + K] # m[b + K]
    BY DifferOrEndIs
  <2>2. k = K OBVIOUS
  <2> HIDE DEF K, la, lb
  <2>. QED BY <2>1, <2>2 DEF Agree
<1>2. /\ a \in Nat \ {0} /\ b \in Nat \ {0} /\ la \in Nat /\ lb \in Nat
      /\ a + la <= Len(m) /\ b + lb <= Len(m) /\ Len(m) \in Nat
      /\ m[a + la] = NUL /\ m[b + lb] = NUL
  BY Pointers
<1>3. /\ s \in Seq(0 .. 255) /\ t \in Seq(0 .. 255)
      /\ \/ k < n /\ Len(s) = la /\ Len(t) = lb
         \/ /\ Len(s) = IF n <= la THEN n ELSE la
            /\ Len(t) = IF n <= lb THEN n ELSE lb
      /\ \A i \in 1 .. Len(s) : s[i] = m[a + i - 1] /\ m[a + i - 1] # NUL
      /\ \A i \in 1 .. Len(t) : t[i] = m[b + i - 1] /\ m[b + i - 1] # NUL
  <2>1. /\ Str(m, a) \in Seq(0 .. 255) /\ Len(Str(m, a)) = la
        /\ \A i \in 1 .. la : Str(m, a)[i] = m[a + i - 1] /\ m[a + i - 1] # NUL
    BY StrIs
  <2>2. /\ Str(m, b) \in Seq(0 .. 255) /\ Len(Str(m, b)) = lb
        /\ \A i \in 1 .. lb : Str(m, b)[i] = m[b + i - 1] /\ m[b + i - 1] # NUL
    BY StrIs
  <2> HIDE DEF la, lb
  <2>3. CASE k < n /\ s = Str(m, a) /\ t = Str(m, b)
    <3>1. Len(s) = la /\ Len(t) = lb BY <2>1, <2>2, <2>3
    <3>2. \A i \in 1 .. Len(s) : s[i] = m[a + i - 1] /\ m[a + i - 1] # NUL BY <2>1, <2>3
    <3>3. \A i \in 1 .. Len(t) : t[i] = m[b + i - 1] /\ m[b + i - 1] # NUL BY <2>2, <2>3
    <3>. QED BY <2>1, <2>2, <2>3, <3>1, <3>2, <3>3
  <2>4. CASE s = Head_(Str(m, a), n) /\ t = Head_(Str(m, b), n)
    <3>1. /\ s \in Seq(0 .. 255) /\ Len(s) = IF n <= la THEN n ELSE la
          /\ \A i \in 1 .. Len(s) : s[i] = Str(m, a)[i] BY <2>1, <2>4, HeadIs
    <3>2. /\ t \in Seq(0 .. 255) /\ Len(t) = IF n <= lb THEN n ELSE lb
          /\ \A i \in 1 .. Len(t) : t[i] = Str(m, b)[i] BY <2>2, <2>4, HeadIs
    <3>3. \A i \in 1 .. Len(s) : i \in 1 .. la BY <1>2, <3>1
    <3>4. \A i \in 1 .. Len(t) : i \in 1 .. lb BY <1>2, <3>2
    <3>5. \A i \in 1 .. Len(s) : s[i] = m[a + i - 1] /\ m[a + i - 1] # NUL BY <2>1, <3>1, <3>3
    <3>6. \A i \in 1 .. Len(t) : t[i] = m[b + i - 1] /\ m[b + i - 1] # NUL BY <2>2, <3>2, <3>4
    <3>. QED BY <3>1, <3>2, <3>5, <3>6
  <2>. QED BY <2>3, <2>4
<1> HIDE DEF la, lb
<1>4. /\ k \in Nat /\ Len(s) \in Nat /\ Len(t) \in Nat /\ k <= Len(s) /\ k <= Len(t)
      /\ k < n => (k = Len(s) <=> k = la) /\ (k = Len(t) <=> k = lb)
      /\ k = n => Len(s) = n /\ Len(t) = n
  BY <1>1, <1>2, <1>3
<1>5. \A i \in 1 .. k : s[i] = t[i]
  <2>. TAKE i \in 1 .. k
  <2>1. i \in 1 .. Len(s) /\ i \in 1 .. Len(t) /\ i - 1 \in 0 .. k - 1 BY <1>4
  <2>2. a + i - 1 = a + (i - 1) /\ b + i - 1 = b + (i - 1) BY <1>2
  <2>3. s[i] = m[a + i - 1] /\ t[i] = m[b + i - 1] BY <1>3, <2>1
  <2>4. m[a + (i - 1)] = m[b + (i - 1)] BY <1>1, <2>1
  <2>. QED BY <2>2, <2>3, <2>4
<1>6. /\ k < Len(s) => s[k + 1] = m[a + k] /\ m[a + k] # NUL
      /\ k < Len(t) => t[k + 1] = m[b + k] /\ m[b + k] # NUL
  <2>1. a + (k + 1) - 1 = a + k /\ b + (k + 1) - 1 = b + k BY <1>2, <1>4
  <2>2. k < Len(s) => k + 1 \in 1 .. Len(s) BY <1>4
  <2>3. k < Len(t) => k + 1 \in 1 .. Len(t) BY <1>4
  <2>. QED BY <1>3, <2>1, <2>2, <2>3
<1>7. Split_(s, t, k)
  <2>1. k = Len(s) \/ k = Len(t) \/ s[k + 1] # t[k + 1]
    <3>1. CASE k = n BY <1>4, <3>1
    <3>2. CASE k < n /\ k < Len(s) /\ k < Len(t)
      <4>1. k # la BY <1>4, <3>2
      <4>. QED BY <1>1, <1>6, <3>2, <4>1
    <3>. QED BY <1>1, <1>4, <3>1, <3>2
  <2>. QED BY <1>4, <1>5, <2>1 DEF Split_
<1>8. ASSUME k < n PROVE Orders(m[a + k] - m[b + k], s, t)
  <2> DEFINE x == m[a + k]
             y == m[b + k]
  <2>1. x \in 0 .. 255 /\ y \in 0 .. 255
    <3>1. a + k \in 1 .. Len(m) /\ b + k \in 1 .. Len(m) BY <1>1, <1>2
    <3>. QED BY <3>1, Bytes
  <2>2. (k = Len(s) => x = 0) /\ (k = Len(t) => y = 0)
    <3>1. (k = Len(s) => k = la) /\ (k = Len(t) => k = lb) BY <1>4, <1>8
    <3>. QED BY <1>2, <3>1 DEF NUL
  <2>3. (k < Len(s) => s[k + 1] = x /\ x # 0) /\ (k < Len(t) => t[k + 1] = y /\ y # 0)
    BY <1>6 DEF NUL
  <2> HIDE DEF x, y
  <2>4. /\ k = Len(s) /\ k = Len(t) => x - y = 0
        /\ k = Len(s) /\ k < Len(t) => x - y < 0
        /\ k < Len(s) /\ k = Len(t) => x - y > 0
        /\ k < Len(s) /\ k < Len(t) => x - y = s[k + 1] - t[k + 1]
        /\ x - y \in Int
    <3>1. CASE k = Len(s) BY <1>4, <2>1, <2>2, <2>3, <3>1
    <3>2. CASE k < Len(s) BY <1>4, <2>1, <2>2, <2>3, <3>2
    <3>. QED BY <1>4, <3>1, <3>2
  <2>5. Orders(x - y, s, t) BY <1>3, <1>7, <2>4, OrdersIs
  <2>. QED BY <2>5 DEF x, y
<1>9. ASSUME k = n PROVE Orders(0, s, t)
  <2>1. k = Len(s) /\ k = Len(t) BY <1>4, <1>9
  <2>2. ~ k < Len(s) /\ ~ k < Len(t) /\ 0 \in Int BY <1>4, <2>1
  <2>. QED BY <1>3, <1>7, <2>1, <2>2, OrdersIs
<1>. QED BY <1>3, <1>7, <1>8, <1>9

\* strcmp: the whole strings.
LEMMA StrcmpOrders ==
  ASSUME NEW m, IsMemory(m), NEW a \in DOMAIN m, NEW b \in DOMAIN m
  PROVE  Orders(strcmp(m, a, b), Str(m, a), Str(m, b))
<1> DEFINE n == Room(m, a, b)
           k == DifferOrEnd(m, a, b, n)
<1>1. /\ a \in 1 .. Len(m) /\ b \in 1 .. Len(m) /\ Len(m) \in Nat
      /\ n = Len(m) - (IF a <= b THEN b ELSE a) + 1
  <2>1. a \in 1 .. Len(m) /\ b \in 1 .. Len(m) /\ Len(m) \in Nat \ {0} BY Bytes
  <2>2. Max(DOMAIN m) = Len(m)
    <3>1. Len(m) \in DOMAIN m /\ \A y \in DOMAIN m : Len(m) >= y /\ (y >= Len(m) => y = Len(m))
      BY Bytes
    <3>. QED BY <3>1 DEF Max
  <2>. QED BY <2>1, <2>2, MaxOfTwo DEF Room
<1>2. n \in Nat BY <1>1
<1> HIDE DEF n
<1>3. k \in 0 .. n /\ k <= strlen(m, a) /\ k <= strlen(m, b) BY <1>2, DifferOrEndIs
<1>4. k < n
  <2>1. /\ strlen(m, a) \in Nat /\ strlen(m, b) \in Nat
        /\ a + strlen(m, a) <= Len(m) /\ b + strlen(m, b) <= Len(m) BY StrIs
  <2> HIDE DEF k
  <2>. QED BY <1>1, <1>2, <1>3, <2>1
<1>5. strcmp(m, a, b) = m[a + k] - m[b + k] BY DEF strcmp, n
<1> HIDE DEF k
<1>6. Orders(m[a + k] - m[b + k], Str(m, a), Str(m, b)) BY <1>2, <1>4, HeadsSplit DEF k
<1>. QED BY <1>5, <1>6

\* strncmp: n characters at most.
LEMMA StrncmpOrders ==
  ASSUME NEW m, IsMemory(m), NEW a \in DOMAIN m, NEW b \in DOMAIN m, NEW n \in Nat
  PROVE  Orders(strncmp(m, a, b, n), Head_(Str(m, a), n), Head_(Str(m, b), n))
<1> DEFINE k == DifferOrEnd(m, a, b, n)
<1>1. k \in 0 .. n BY DifferOrEndIs
<1>2. strncmp(m, a, b, n) = IF k = n THEN 0 ELSE m[a + k] - m[b + k] BY DEF strncmp
<1>3. /\ k < n => Orders(m[a + k] - m[b + k], Head_(Str(m, a), n), Head_(Str(m, b), n))
      /\ k = n => Orders(0, Head_(Str(m, a), n), Head_(Str(m, b), n))
  <2> DEFINE s == Head_(Str(m, a), n)
             t == Head_(Str(m, b), n)
  <2>1. s = Head_(Str(m, a), n) /\ t = Head_(Str(m, b), n) /\ k = DifferOrEnd(m, a, b, n) OBVIOUS
  <2> HIDE DEF s, t, k
  <2>2. (k < n => Orders(m[a + k] - m[b + k], s, t)) /\ (k = n => Orders(0, s, t))
    BY <2>1, HeadsSplit
  <2>. QED BY <2>2 DEF s, t
<1> HIDE DEF k
<1>4. CASE k = n BY <1>2, <1>3, <1>4
<1>5. CASE k < n
  <2>1. k # n BY <1>1, <1>5
  <2>. QED BY <1>2, <1>3, <1>5, <2>1
<1>. QED BY <1>1, <1>4, <1>5

\* memcmp: n bytes, zeros included.
LEMMA MemcmpOrders ==
  ASSUME NEW m, IsMemory(m), NEW a \in DOMAIN m, NEW b \in DOMAIN m, NEW n \in Nat,
         a + n - 1 <= Len(m), b + n - 1 <= Len(m)
  PROVE  Orders(memcmp(m, a, b, n), SubSeq(m, a, a + n - 1), SubSeq(m, b, b + n - 1))
<1> DEFINE S == {n} \cup {j \in 0 .. n - 1 : m[a + j] # m[b + j]}
           k == Differ(m, a, b, n)
           s == SubSeq(m, a, a + n - 1)
           t == SubSeq(m, b, b + n - 1)
<1>1. k \in S /\ \A x \in S : k <= x
  <2>1. k = Min(S) BY DEF Differ
  <2>2. S \in SUBSET Nat /\ S # {} OBVIOUS
  <2> HIDE DEF S, k
  <2>. QED BY <2>1, <2>2, MinIsThere
<1>2. memcmp(m, a, b, n) = IF k = n THEN 0 ELSE m[a + k] - m[b + k] BY DEF memcmp
<1> HIDE DEF k
<1>3. k \in 0 .. n /\ (k < n => m[a + k] # m[b + k]) BY <1>1
<1>4. \A j \in 0 .. k - 1 : m[a + j] = m[b + j]
  <2>. TAKE j \in 0 .. k - 1
  <2>1. j \notin S /\ j \in 0 .. n - 1 BY <1>1, <1>3
  <2>. QED BY <2>1
<1>5. a \in Nat \ {0} /\ b \in Nat \ {0} /\ Len(m) \in Nat BY Bytes
<1>6. /\ s \in Seq(0 .. 255) /\ Len(s) = n /\ \A i \in 1 .. n : s[i] = m[a + i - 1]
      /\ t \in Seq(0 .. 255) /\ Len(t) = n /\ \A i \in 1 .. n : t[i] = m[b + i - 1]
  <2>1. /\ s \in Seq(0 .. 255) /\ Len(s) = n /\ \A i \in 1 .. n : s[i] = m[a + i - 1]
    <3>1. PICK e : e = a + n - 1 OBVIOUS
    <3>2. e \in Nat /\ a <= e + 1 /\ e <= Len(m) /\ e - a + 1 = n BY <1>5, <3>1
    <3>3. s = SubSeq(m, a, e) BY <3>1
    <3> HIDE DEF s
    <3>. QED BY <1>5, <3>2, <3>3, PartIs
  <2>2. /\ t \in Seq(0 .. 255) /\ Len(t) = n /\ \A i \in 1 .. n : t[i] = m[b + i - 1]
    <3>1. PICK e : e = b + n - 1 OBVIOUS
    <3>2. e \in Nat /\ b <= e + 1 /\ e <= Len(m) /\ e - b + 1 = n BY <1>5, <3>1
    <3>3. t = SubSeq(m, b, e) BY <3>1
    <3> HIDE DEF t
    <3>4. /\ t \in Seq(0 .. 255) /\ Len(t) = e - b + 1
          /\ \A i \in 1 .. e - b + 1 : t[i] = m[b + i - 1] BY <1>5, <3>2, <3>3, PartIs
    <3>. QED BY <3>2, <3>4
  <2>. QED BY <2>1, <2>2
<1> HIDE DEF S, s, t
<1>7. \A i \in 1 .. k : s[i] = t[i]
  <2>. TAKE i \in 1 .. k
  <2>1. i \in 1 .. n /\ i - 1 \in 0 .. k - 1 BY <1>3
  <2>2. a + i - 1 = a + (i - 1) /\ b + i - 1 = b + (i - 1) BY <1>5
  <2>. QED BY <1>4, <1>6, <2>1, <2>2
<1>8. k < n => s[k + 1] = m[a + k] /\ t[k + 1] = m[b + k]
  <2>1. a + (k + 1) - 1 = a + k /\ b + (k + 1) - 1 = b + k BY <1>3, <1>5
  <2>2. k < n => k + 1 \in 1 .. n BY <1>3
  <2>. QED BY <1>6, <2>1, <2>2
<1>9. Split_(s, t, k) BY <1>3, <1>6, <1>7, <1>8 DEF Split_
<1>10. CASE k = n
  <2>1. k = Len(s) /\ k = Len(t) /\ ~ k < Len(s) /\ ~ k < Len(t) /\ 0 \in Int
    BY <1>6, <1>10
  <2>2. Orders(0, s, t) BY <1>6, <1>9, <2>1, OrdersIs
  <2>. QED BY <1>2, <1>10, <2>2 DEF s, t
<1>11. CASE k < n
  <2>1. a + k \in DOMAIN m /\ b + k \in DOMAIN m BY <1>3, <1>5, <1>11, Bytes
  <2>2. m[a + k] - m[b + k] \in Int
    <3>1. m[a + k] \in 0 .. 255 /\ m[b + k] \in 0 .. 255 BY <2>1, Bytes
    <3>2. \A x, y \in 0 .. 255 : x - y \in Int OBVIOUS
    <3>. QED BY <3>1, <3>2
  <2>3. k # Len(s) /\ k # Len(t) /\ m[a + k] - m[b + k] = s[k + 1] - t[k + 1]
    BY <1>3, <1>6, <1>8, <1>11
  <2>4. Orders(m[a + k] - m[b + k], s, t) BY <1>6, <1>9, <2>2, <2>3, OrdersIs
  <2>5. k # n BY <1>3, <1>11
  <2>. QED BY <1>2, <2>4, <2>5 DEF s, t
<1>. QED BY <1>3, <1>10, <1>11

\* Equal and, up to 127, ordered: what the signed differences of two bytes say.
LEMMA SignedIs ==
  ASSUME NEW x \in 0 .. 255, NEW y \in 0 .. 255
  PROVE  /\ Signed8(x) - Signed8(y) = 0 <=> x - y = 0
         /\ Signed8((x - y) % 256) = 0 <=> x - y = 0
         /\ x < 128 /\ y < 128 => /\ Signed8(x) - Signed8(y) = x - y
                                 /\ Signed8((x - y) % 256) = x - y
<1>1. (x - y) % 256 = IF y <= x THEN x - y ELSE x - y + 256 BY SMTT(30)
<1>. QED BY <1>1 DEF Signed8

\* Signed characters differ where unsigned ones do.
LEMMA SecondsSame ==
  ASSUME NEW m, IsMemory(m), NEW p \in DOMAIN m, NEW q \in DOMAIN m, NEW n \in Nat
  PROVE  /\ strncmp_c(m, p, q, n) = 0 <=> strncmp(m, p, q, n) = 0
         /\ Ascii(m) => strncmp_c(m, p, q, n) = strncmp(m, p, q, n)
         /\ p + n - 1 <= Len(m) /\ q + n - 1 <= Len(m) =>
              /\ memcmp_c(m, p, q, n) = 0 <=> memcmp(m, p, q, n) = 0
              /\ Ascii(m) => memcmp_c(m, p, q, n) = memcmp(m, p, q, n)
<1>1. p \in 1 .. Len(m) /\ q \in 1 .. Len(m) /\ Len(m) \in Nat BY Bytes
<1>2. /\ strncmp_c(m, p, q, n) = 0 <=> strncmp(m, p, q, n) = 0
      /\ Ascii(m) => strncmp_c(m, p, q, n) = strncmp(m, p, q, n)
  <2> DEFINE k == DifferOrEnd(m, p, q, n)
             x == m[p + k]
             y == m[q + k]
             d == x - y
             e == Signed8(x) - Signed8(y)
  <2>1. k \in 0 .. n /\ k <= strlen(m, p) /\ k <= strlen(m, q) BY DifferOrEndIs
  <2>2. /\ strncmp_c(m, p, q, n) = IF k = n THEN 0 ELSE e
        /\ strncmp(m, p, q, n) = IF k = n THEN 0 ELSE d
    BY <1>1 DEF strncmp_c, strncmp, NULL
  <2> HIDE DEF k
  <2>3. p + k \in 1 .. Len(m) /\ q + k \in 1 .. Len(m) BY <1>1, <2>1, Pointers
  <2>4. x \in 0 .. 255 /\ y \in 0 .. 255 /\ (Ascii(m) => x < 128 /\ y < 128)
    BY <2>3, Bytes DEF Ascii
  <2> HIDE DEF x, y
  <2>5. (e = 0 <=> d = 0) /\ (x < 128 /\ y < 128 => e = d) BY <2>4, SignedIs
  <2> HIDE DEF d, e
  <2>. QED BY <2>2, <2>4, <2>5
<1>3. ASSUME p + n - 1 <= Len(m), q + n - 1 <= Len(m)
      PROVE  /\ memcmp_c(m, p, q, n) = 0 <=> memcmp(m, p, q, n) = 0
             /\ Ascii(m) => memcmp_c(m, p, q, n) = memcmp(m, p, q, n)
  <2> DEFINE S == {n} \cup {j \in 0 .. n - 1 : m[p + j] # m[q + j]}
             k == Differ(m, p, q, n)
             x == m[p + k]
             y == m[q + k]
             d == x - y
             e == Signed8(d % 256)
  <2>1. k \in S
    <3>1. k = Min(S) BY DEF Differ
    <3>2. S \in SUBSET Nat /\ S # {} OBVIOUS
    <3> HIDE DEF S, k
    <3>. QED BY <3>1, <3>2, MinIsThere
  <2>2. memcmp(m, p, q, n) = IF k = n THEN 0 ELSE d BY DEF memcmp
  <2> HIDE DEF k
  <2>3. k \in 0 .. n BY <2>1
  <2>4. CASE k = n
    <3>1. 0 % 256 = 0 OBVIOUS
    <3>. QED BY <2>2, <2>4, <3>1 DEF memcmp_c, Signed8
  <2>5. CASE k # n
    <3>1. p + k \in 1 .. Len(m) /\ q + k \in 1 .. Len(m) BY <1>1, <1>3, <2>3, <2>5
    <3>2. x \in 0 .. 255 /\ y \in 0 .. 255 /\ (Ascii(m) => x < 128 /\ y < 128)
      BY <3>1, Bytes DEF Ascii
    <3>3. memcmp_c(m, p, q, n) = e BY <2>2, <2>5 DEF memcmp_c
    <3> HIDE DEF x, y
    <3>4. (e = 0 <=> d = 0) /\ (x < 128 /\ y < 128 => e = d) BY <3>2, SignedIs
    <3> HIDE DEF d, e
    <3>. QED BY <2>2, <2>5, <3>2, <3>3, <3>4
  <2>. QED BY <2>4, <2>5
<1>. QED BY <1>2, <1>3

(* In every memory, strings and blocks are ordered as sequences of unsigned  *)
(* characters (string.c:94-98, 108-119, 322-328), and the second definitions *)
(* in strncmp.c and memcmp.c agree with that order up to character 127, and *)
(* on what is equal beyond it.                                             *)
THEOREM ComparingOrders == \A m : IsMemory(m) => StringsCompare(m) /\ SecondsAgree(m)
<1> SUFFICES ASSUME NEW m, IsMemory(m) PROVE StringsCompare(m) /\ SecondsAgree(m) OBVIOUS
<1>1. SecondsAgree(m)
  <2> SUFFICES ASSUME NEW p \in DOMAIN m, NEW q \in DOMAIN m, NEW k \in 0 .. Len(m)
               PROVE  /\ strncmp_c(m, p, q, k) = 0 <=> strncmp(m, p, q, k) = 0
                      /\ Ascii(m) => strncmp_c(m, p, q, k) = strncmp(m, p, q, k)
                      /\ Fits(m, p, k) /\ Fits(m, q, k) =>
                           /\ memcmp_c(m, p, q, k) = 0 <=> memcmp(m, p, q, k) = 0
                           /\ Ascii(m) => memcmp_c(m, p, q, k) = memcmp(m, p, q, k)
    BY DEF SecondsAgree
  <2>1. k \in Nat BY Bytes
  <2>2. Fits(m, p, k) /\ Fits(m, q, k) => p + k - 1 <= Len(m) /\ q + k - 1 <= Len(m)
    BY Bytes DEF Fits
  <2>. QED BY <2>1, <2>2, SecondsSame
<1>2. StringsCompare(m)
  <2> SUFFICES ASSUME NEW p \in DOMAIN m, NEW q \in DOMAIN m
               PROVE  /\ Orders(strcmp(m, p, q), Str(m, p), Str(m, q))
                      /\ \A k \in 0 .. Len(m) :
                           /\ Orders(strncmp(m, p, q, k), Head_(Str(m, p), k), Head_(Str(m, q), k))
                           /\ Fits(m, p, k) /\ Fits(m, q, k) =>
                                Orders(memcmp(m, p, q, k), SubSeq(m, p, p + k - 1),
                                       SubSeq(m, q, q + k - 1))
    BY DEF StringsCompare
  <2>1. Orders(strcmp(m, p, q), Str(m, p), Str(m, q)) BY StrcmpOrders
  <2>2. ASSUME NEW k \in 0 .. Len(m)
        PROVE  /\ Orders(strncmp(m, p, q, k), Head_(Str(m, p), k), Head_(Str(m, q), k))
               /\ Fits(m, p, k) /\ Fits(m, q, k) =>
                    Orders(memcmp(m, p, q, k), SubSeq(m, p, p + k - 1), SubSeq(m, q, q + k - 1))
    <3>1. k \in Nat BY Bytes
    <3>2. Fits(m, p, k) /\ Fits(m, q, k) => p + k - 1 <= Len(m) /\ q + k - 1 <= Len(m)
      BY Bytes DEF Fits
    <3>. QED BY <3>1, <3>2, StrncmpOrders, MemcmpOrders
  <2>. QED BY <2>1, <2>2
<1>. QED BY <1>1, <1>2

-----------------------------------------------------------------------------
(* Copying.                                                                 *)

\* A set of numbers with 0 and with each successor has them all.
LEMMA Induction ==
  ASSUME NEW S \in SUBSET Nat, 0 \in S, \A n \in S : n + 1 \in S
  PROVE  S = Nat
<1> SUFFICES ASSUME Nat \ S # {} PROVE FALSE
  OBVIOUS
<1>1. PICK x \in Nat \ S : \A y \in Nat \ S : ~(<<y, x>> \in OpToRel(<, Nat))
  BY NatLessThanWellFounded, WFMin
<1>2. \A y \in Nat \ S : ~(y < x)
  BY <1>1, Zenon DEF OpToRel
<1>3. x # 0 /\ x - 1 \in Nat /\ x - 1 < x
  OBVIOUS
<1>4. x - 1 \in S
  BY <1>2, <1>3
<1>5. (x - 1) + 1 = x
  OBVIOUS
<1> QED BY <1>4, <1>5

\* The loop from the bottom moves the block, unless it comes from just below.
LEMMA UpIs ==
  ASSUME NEW m, IsMemory(m), NEW d \in DOMAIN m, NEW s \in DOMAIN m, NEW n \in Nat,
         d + n - 1 <= Len(m), s + n - 1 <= Len(m), d <= s \/ s + n <= d
  PROVE  Up(m, d, s, n) = Moved(m, d, s, n)
<1> DEFINE Rec(g) == g = [k \in 0 .. n |->
                            IF k = 0 THEN m
                            ELSE LET t == g[k - 1] IN [t EXCEPT ![d + k - 1] = t[s + k - 1]]]
           f == [k \in 0 .. n |-> Moved(m, d, s, k)]
           Go == CHOOSE g : Rec(g)
<1>1. /\ d \in Nat \ {0} /\ s \in Nat \ {0} /\ Len(m) \in Nat /\ DOMAIN m = 1 .. Len(m)
      /\ m = [a \in 1 .. Len(m) |-> m[a]]
  <2>1. m \in [1 .. Len(m) -> 0 .. 255] BY Bytes, LenProperties
  <2>. QED BY <2>1, Bytes
<1>2. f[0] = m
  <2>1. \A a \in DOMAIN m : ~ a \in d .. d + 0 - 1 BY <1>1
  <2>2. Moved(m, d, s, 0) = m BY <1>1, <2>1 DEF Moved
  <2>. QED BY <2>2
<1>3. ASSUME NEW k \in 0 .. n - 1
      PROVE  f[k + 1] = [f[k] EXCEPT ![d + (k + 1) - 1] = f[k][s + (k + 1) - 1]]
  <2> DEFINE t == Moved(m, d, s, k)
  <2>1. k \in 0 .. n /\ k + 1 \in 0 .. n /\ k \in Nat OBVIOUS
  <2>2. s + k \in DOMAIN m /\ d + k \in DOMAIN m /\ s + k \notin d .. d + k - 1
    BY <1>1
  <2>3. t[s + k] = m[s + k] BY <2>2 DEF Moved
  <2>4. Moved(m, d, s, k + 1) = [t EXCEPT ![d + k] = m[s + k]]
    <3>1. \A a \in DOMAIN m :
            Moved(m, d, s, k + 1)[a] = IF a = d + k THEN m[s + k] ELSE t[a]
      <4>. TAKE a \in DOMAIN m
      <4>1. a \in d .. d + (k + 1) - 1 <=> a = d + k \/ a \in d .. d + k - 1 BY <1>1, <2>1
      <4>2. (d + k) - d + s = s + k BY <1>1, <2>1
      <4>. QED BY <4>1, <4>2 DEF Moved
    <3>2. DOMAIN t = DOMAIN m /\ t = [a \in DOMAIN m |-> t[a]] BY DEF Moved
    <3>3. Moved(m, d, s, k + 1) = [a \in DOMAIN m |-> Moved(m, d, s, k + 1)[a]] BY DEF Moved
    <3> HIDE DEF t
    <3>. QED BY <3>1, <3>2, <3>3
  <2>5. d + (k + 1) - 1 = d + k /\ s + (k + 1) - 1 = s + k BY <1>1, <2>1
  <2>6. f[k] = t /\ f[k + 1] = Moved(m, d, s, k + 1) BY <2>1
  <2> HIDE DEF t, f
  <2>. QED BY <2>3, <2>4, <2>5, <2>6
<1>4. Rec(f)
  <2>1. ASSUME NEW k \in 0 .. n
        PROVE  f[k] = IF k = 0 THEN m
                      ELSE LET t == f[k - 1] IN [t EXCEPT ![d + k - 1] = t[s + k - 1]]
    <3>1. CASE k # 0
      <4>1. k - 1 \in 0 .. n - 1 /\ (k - 1) + 1 = k BY <3>1
      <4> HIDE DEF f
      <4>. QED BY <1>3, <3>1, <4>1
    <3>. QED BY <1>2, <3>1
  <2>. QED BY <2>1
<1>5. Rec(Go)
  <2> HIDE DEF Rec
  <2>. QED BY <1>4
<1>6. \A k \in Nat : k <= n => Go[k] = f[k]
  <2> DEFINE T == {k \in Nat : k <= n => Go[k] = f[k]}
  <2> HIDE DEF Go, f
  <2>1. 0 \in T
    <3>1. 0 \in 0 .. n OBVIOUS
    <3>2. Go[0] = m BY <1>5, <3>1
    <3>. QED BY <1>2, <3>2
  <2>2. ASSUME NEW k \in T PROVE k + 1 \in T
    <3>1. k + 1 \in Nat OBVIOUS
    <3>2. CASE k + 1 <= n
      <4>1. k \in 0 .. n - 1 /\ k + 1 \in 0 .. n /\ k + 1 # 0 /\ (k + 1) - 1 = k
            /\ Go[k] = f[k] BY <3>2
      <4>2. Go[k + 1] = [Go[k] EXCEPT ![d + (k + 1) - 1] = Go[k][s + (k + 1) - 1]]
        BY <1>5, <4>1
      <4>3. f[k + 1] = [f[k] EXCEPT ![d + (k + 1) - 1] = f[k][s + (k + 1) - 1]]
        BY <1>3, <4>1
      <4>. QED BY <3>1, <4>1, <4>2, <4>3
    <3>. QED BY <3>1, <3>2
  <2>3. T \in SUBSET Nat OBVIOUS
  <2> HIDE DEF T
  <2>4. T = Nat BY <2>1, <2>2, <2>3, Induction
  <2>. QED BY <2>4 DEF T
<1>7. Up(m, d, s, n) = Go[n] BY DEF Up
<1>8. f[n] = Moved(m, d, s, n) OBVIOUS
<1> HIDE DEF f, Go
<1>. QED BY <1>6, <1>7, <1>8

\* The loop from the top moves it, unless it comes from just above.
LEMMA DownIs ==
  ASSUME NEW m, IsMemory(m), NEW d \in DOMAIN m, NEW s \in DOMAIN m, NEW n \in Nat,
         d + n - 1 <= Len(m), s + n - 1 <= Len(m), s <= d \/ d + n <= s
  PROVE  Down(m, d, s, n) = Moved(m, d, s, n)
<1> DEFINE Rec(g) == g = [k \in 0 .. n |->
                            IF k = 0 THEN m
                            ELSE LET t == g[k - 1] IN [t EXCEPT ![d + n - k] = t[s + n - k]]]
           f == [k \in 0 .. n |-> Moved(m, d + (n - k), s + (n - k), k)]
           Go == CHOOSE g : Rec(g)
<1>1. /\ d \in Nat \ {0} /\ s \in Nat \ {0} /\ Len(m) \in Nat /\ DOMAIN m = 1 .. Len(m)
      /\ m = [a \in 1 .. Len(m) |-> m[a]]
  <2>1. m \in [1 .. Len(m) -> 0 .. 255] BY Bytes, LenProperties
  <2>. QED BY <2>1, Bytes
<1>2. f[0] = m
  <2> DEFINE d0 == d + (n - 0)
             s0 == s + (n - 0)
  <2>1. \A a \in DOMAIN m : ~ a \in d0 .. d0 + 0 - 1 BY <1>1
  <2>2. f[0] = Moved(m, d0, s0, 0) OBVIOUS
  <2> HIDE DEF d0, s0
  <2>3. Moved(m, d0, s0, 0) = m BY <1>1, <2>1 DEF Moved
  <2>. QED BY <2>2, <2>3
<1>3. ASSUME NEW k \in 0 .. n - 1
      PROVE  f[k + 1] = [f[k] EXCEPT ![d + n - (k + 1)] = f[k][s + n - (k + 1)]]
  <2>1. PICK x, y : x = d + n - (k + 1) /\ y = s + n - (k + 1) OBVIOUS
  <2> DEFINE t == Moved(m, x + 1, y + 1, k)
  <2>2. k \in 0 .. n /\ k + 1 \in 0 .. n /\ k \in Nat /\ x \in Nat /\ y \in Nat
    BY <1>1, <2>1
  <2>3. y \in DOMAIN m /\ x \in DOMAIN m /\ y \notin x + 1 .. x + 1 + k - 1
    BY <1>1, <2>1
  <2>4. t[y] = m[y] BY <2>3 DEF Moved
  <2>5. Moved(m, x, y, k + 1) = [t EXCEPT ![x] = m[y]]
    <3>1. \A a \in DOMAIN m : Moved(m, x, y, k + 1)[a] = IF a = x THEN m[y] ELSE t[a]
      <4>. TAKE a \in DOMAIN m
      <4>1. a \in x .. x + (k + 1) - 1 <=> a = x \/ a \in x + 1 .. x + 1 + k - 1 BY <1>1, <2>2
      <4>2. x - x + y = y /\ a - x + y = a - (x + 1) + (y + 1) BY <1>1, <2>2
      <4>. QED BY <4>1, <4>2 DEF Moved
    <3>2. DOMAIN t = DOMAIN m /\ t = [a \in DOMAIN m |-> t[a]] BY DEF Moved
    <3>3. Moved(m, x, y, k + 1) = [a \in DOMAIN m |-> Moved(m, x, y, k + 1)[a]] BY DEF Moved
    <3> HIDE DEF t
    <3>. QED BY <3>1, <3>2, <3>3
  <2>6. f[k] = t /\ f[k + 1] = Moved(m, x, y, k + 1)
    <3>1. d + (n - k) = x + 1 /\ s + (n - k) = y + 1 BY <1>1, <2>1
    <3>2. d + (n - (k + 1)) = x /\ s + (n - (k + 1)) = y BY <1>1, <2>1
    <3>3. f[k] = Moved(m, d + (n - k), s + (n - k), k) BY <2>2
    <3>4. f[k + 1] = Moved(m, d + (n - (k + 1)), s + (n - (k + 1)), k + 1) BY <2>2
    <3> HIDE DEF f
    <3>. QED BY <3>1, <3>2, <3>3, <3>4
  <2> HIDE DEF t, f
  <2>. QED BY <2>1, <2>4, <2>5, <2>6
<1>4. Rec(f)
  <2>1. ASSUME NEW k \in 0 .. n
        PROVE  f[k] = IF k = 0 THEN m
                      ELSE LET t == f[k - 1] IN [t EXCEPT ![d + n - k] = t[s + n - k]]
    <3>1. CASE k # 0
      <4>1. k - 1 \in 0 .. n - 1 /\ (k - 1) + 1 = k BY <3>1
      <4> HIDE DEF f
      <4>. QED BY <1>3, <3>1, <4>1
    <3>. QED BY <1>2, <3>1
  <2>. QED BY <2>1
<1>5. Rec(Go)
  <2> HIDE DEF Rec
  <2>. QED BY <1>4
<1>6. \A k \in Nat : k <= n => Go[k] = f[k]
  <2> DEFINE T == {k \in Nat : k <= n => Go[k] = f[k]}
  <2> HIDE DEF Go, f
  <2>1. 0 \in T
    <3>1. 0 \in 0 .. n OBVIOUS
    <3>2. Go[0] = m BY <1>5, <3>1
    <3>. QED BY <1>2, <3>2
  <2>2. ASSUME NEW k \in T PROVE k + 1 \in T
    <3>1. k + 1 \in Nat OBVIOUS
    <3>2. CASE k + 1 <= n
      <4>1. k \in 0 .. n - 1 /\ k + 1 \in 0 .. n /\ k + 1 # 0 /\ (k + 1) - 1 = k
            /\ Go[k] = f[k] BY <3>2
      <4>2. Go[k + 1] = [Go[k] EXCEPT ![d + n - (k + 1)] = Go[k][s + n - (k + 1)]]
        BY <1>5, <4>1
      <4>3. f[k + 1] = [f[k] EXCEPT ![d + n - (k + 1)] = f[k][s + n - (k + 1)]]
        BY <1>3, <4>1
      <4>. QED BY <3>1, <4>1, <4>2, <4>3
    <3>. QED BY <3>1, <3>2
  <2>3. T \in SUBSET Nat OBVIOUS
  <2> HIDE DEF T
  <2>4. T = Nat BY <2>1, <2>2, <2>3, Induction
  <2>. QED BY <2>4 DEF T
<1>7. Down(m, d, s, n) = Go[n] BY DEF Down
<1>8. f[n] = Moved(m, d, s, n)
  <2>1. d + (n - n) = d /\ s + (n - n) = s BY <1>1
  <2>2. f[n] = Moved(m, d + (n - n), s + (n - n), n) OBVIOUS
  <2> HIDE DEF f
  <2>. QED BY <2>1, <2>2
<1> HIDE DEF f, Go
<1>. QED BY <1>6, <1>7, <1>8

(* In every memory memmove, and the memcpy of memcpy.c, move a block as it   *)
(* was, however the areas overlap (string.c:286-294); memcpy does so when   *)
(* they are apart.                                                         *)
THEOREM MovingIsExact == \A m : IsMemory(m) => BlocksMove(m)
<1> SUFFICES ASSUME NEW m, IsMemory(m), NEW d \in DOMAIN m, NEW s \in DOMAIN m,
                    NEW k \in 0 .. Len(m), Fits(m, d, k), Fits(m, s, k)
             PROVE  /\ memmove(m, d, s, k) = Moved(m, d, s, k)
                    /\ memcpy_c(m, d, s, k) = Moved(m, d, s, k)
                    /\ Apart(d, s, k) => memcpy(m, d, s, k) = Moved(m, d, s, k)
  BY DEF BlocksMove
<1>1. d \in Nat /\ s \in Nat /\ k \in Nat /\ Len(m) \in Nat BY Bytes
<1>2. d + k - 1 <= Len(m) /\ s + k - 1 <= Len(m) BY <1>1, Bytes DEF Fits
<1>3. d <= s \/ s + k <= d => Up(m, d, s, k) = Moved(m, d, s, k) BY <1>1, <1>2, UpIs
<1>4. s <= d \/ d + k <= s => Down(m, d, s, k) = Moved(m, d, s, k) BY <1>1, <1>2, DownIs
<1>5. memmove(m, d, s, k) = Moved(m, d, s, k)
  <2>1. CASE s < d /\ s + k > d BY <1>1, <1>4, <2>1 DEF memmove
  <2>2. CASE ~(s < d /\ s + k > d)
    <3>1. d <= s \/ s + k <= d BY <1>1, <2>2
    <3>. QED BY <1>3, <2>2, <3>1 DEF memmove
  <2>. QED BY <2>1, <2>2
<1>6. memcpy_c(m, d, s, k) = Moved(m, d, s, k)
  <2>1. CASE s < d BY <1>1, <1>4, <2>1 DEF memcpy_c
  <2>2. CASE ~ s < d
    <3>1. d <= s BY <1>1, <2>2
    <3>. QED BY <1>3, <2>2, <3>1 DEF memcpy_c
  <2>. QED BY <2>1, <2>2
<1>7. Apart(d, s, k) => memcpy(m, d, s, k) = Moved(m, d, s, k)
  <2>1. Apart(d, s, k) => d <= s \/ s + k <= d BY <1>1 DEF Apart
  <2>. QED BY <1>3, <2>1 DEF memcpy
<1>. QED BY <1>5, <1>6, <1>7

-----------------------------------------------------------------------------
(* Copying strings.                                                         *)

\* How far strnlen looks.
LEMMA StrnlenIs ==
  ASSUME NEW m, IsMemory(m), NEW s \in DOMAIN m, NEW n \in Nat
  PROVE  strnlen(m, s, n) = IF n <= strlen(m, s) THEN n ELSE strlen(m, s)
<1> DEFINE S == {n} \cup {a - s : a \in {b \in DOMAIN m : b >= s /\ m[b] = NUL}}
           l == strlen(m, s)
<1>1. s \in Nat /\ l \in Nat /\ s + l \in DOMAIN m /\ m[s + l] = NUL
  BY Pointers, Bytes
<1>2. \A a \in DOMAIN m : a >= s /\ m[a] = NUL => a - s \in Nat /\ a - s >= l
  <2>. TAKE a \in DOMAIN m
  <2>. HAVE a >= s /\ m[a] = NUL
  <2>1. a \in Nat BY Bytes
  <2>2. ~ a - s < l
    <3>. SUFFICES ASSUME a - s < l PROVE FALSE OBVIOUS
    <3>1. a - s + 1 \in 1 .. l BY <1>1, <2>1
    <3>2. m[s + (a - s + 1) - 1] # NUL BY <3>1, StrIs
    <3>3. s + (a - s + 1) - 1 = a BY <1>1, <2>1
    <3>. QED BY <3>2, <3>3
  <2> HIDE DEF l
  <2>. QED BY <1>1, <2>1, <2>2
<1>3. S \in SUBSET Nat /\ S # {}
  <2> HIDE DEF l
  <2>. QED BY <1>2
<1>4. strnlen(m, s, n) = Min(S) BY DEF strnlen
<1>5. l \in S
  <2>1. s + l >= s /\ l = (s + l) - s BY <1>1
  <2> HIDE DEF l
  <2>. QED BY <1>1, <2>1
<1>6. \A x \in S : x = n \/ x >= l
  <2> HIDE DEF l
  <2>. QED BY <1>2
<1>7. Min(S) \in S /\ Min(S) <= n /\ Min(S) <= l
  <2>1. n \in S OBVIOUS
  <2> HIDE DEF S, l
  <2>. QED BY <1>3, <1>5, <2>1, MinIsThere
<1> HIDE DEF S, l
<1>8. Min(S) \in Nat BY <1>3, <1>7
<1>. QED BY <1>1, <1>4, <1>6, <1>7, <1>8 DEF l

\* The n bytes of m at s are those of r at d.
Copied(m, s, r, d, n) == \A i \in 0 .. n - 1 : r[d + i] = m[s + i]

\* A copy of n characters of the string at s, with a NUL behind it, is a string.
LEMMA Lands ==
  ASSUME NEW m, IsMemory(m), NEW s \in DOMAIN m, NEW r, IsMemory(r), NEW d \in DOMAIN r,
         NEW n \in Nat, n <= strlen(m, s), d + n <= Len(r), r[d + n] = NUL,
         Copied(m, s, r, d, n)
  PROVE  Str(r, d) = Head_(Str(m, s), n)
<1> DEFINE l == strlen(m, s)
<1>1. d \in Nat \ {0} /\ s \in Nat \ {0} /\ l \in Nat BY Bytes, Pointers
<1>2. /\ Str(m, s) \in Seq(0 .. 255) /\ Len(Str(m, s)) = l
      /\ \A i \in 1 .. l : Str(m, s)[i] = m[s + i - 1] /\ m[s + i - 1] # NUL
  BY StrIs
<1> HIDE DEF l
<1>3. \A i \in 0 .. n - 1 : r[d + i] = Str(m, s)[i + 1] /\ r[d + i] # NUL
  <2>. TAKE i \in 0 .. n - 1
  <2>1. i + 1 \in 1 .. l /\ s + (i + 1) - 1 = s + i BY <1>1 DEF l
  <2>. QED BY <1>2, <2>1 DEF Copied
<1>4. End(r, d) = d + n
  <2>1. \A a \in d .. d + n - 1 : r[a] # NUL
    <3>. TAKE a \in d .. d + n - 1
    <3>1. a - d \in 0 .. n - 1 /\ d + (a - d) = a BY <1>1
    <3>. QED BY <1>3, <3>1
  <2>2. d + n \in d .. Len(r) BY <1>1, Bytes
  <2>3. NoNul(r, d, d + n) BY <2>1 DEF NoNul
  <2>. QED BY <2>2, <2>3, FirstNul
<1>5. strlen(r, d) = n BY <1>1, <1>4 DEF strlen
<1>6. /\ Str(r, d) \in Seq(0 .. 255) /\ Len(Str(r, d)) = n
      /\ \A i \in 1 .. n : Str(r, d)[i] = r[d + i - 1]
  BY <1>5, StrIs
<1>7. /\ Head_(Str(m, s), n) \in Seq(0 .. 255) /\ Len(Head_(Str(m, s), n)) = n
      /\ \A i \in 1 .. n : Head_(Str(m, s), n)[i] = Str(m, s)[i]
  <2>1. n <= Len(Str(m, s)) BY <1>2 DEF l
  <2>. QED BY <1>2, <2>1, HeadIs
<1>8. \A i \in 1 .. n : Str(r, d)[i] = Head_(Str(m, s), n)[i]
  <2>. TAKE i \in 1 .. n
  <2>1. i - 1 \in 0 .. n - 1 /\ d + (i - 1) = d + i - 1 /\ (i - 1) + 1 = i BY <1>1
  <2>2. r[d + (i - 1)] = Str(m, s)[(i - 1) + 1] BY <1>3, <2>1
  <2>. QED BY <1>6, <1>7, <2>1, <2>2
<1>. QED BY <1>6, <1>7, <1>8, SeqEqual

\* A memory with other bytes is a memory as long as it ends with NUL.
LEMMA Rewritten ==
  ASSUME NEW m, IsMemory(m), NEW r \in [1 .. Len(m) -> 0 .. 255]
  PROVE  /\ r \in Seq(0 .. 255) /\ Len(r) = Len(m)
         /\ r[Len(m)] = NUL => IsMemory(r)
<1>1. Len(m) \in Nat \ {0} BY Bytes
<1>2. r \in Seq(0 .. 255) /\ Len(r) = Len(m)
  <2>1. r \in Seq(0 .. 255)
    <3>1. [1 .. Len(m) -> 0 .. 255] \in {[1 .. n -> 0 .. 255] : n \in Nat} BY <1>1
    <3>2. r \in UNION {[1 .. n -> 0 .. 255] : n \in Nat} BY <3>1
    <3>. QED BY <3>2, SeqDef, Zenon
  <2>2. DOMAIN r = 1 .. Len(r) /\ DOMAIN r = 1 .. Len(m) /\ Len(r) \in Nat BY <2>1, LenProperties
  <2>. QED BY <1>1, <2>1, <2>2
<1>3. r # <<>> BY <1>1, <1>2, EmptySeq
<1>. QED BY <1>2, <1>3 DEF IsMemory

\* What a block move leaves.
LEMMA MovedIs ==
  ASSUME NEW m, IsMemory(m), NEW d \in DOMAIN m, NEW s \in DOMAIN m, NEW n \in Nat,
         d + n - 1 <= Len(m), s + n - 1 <= Len(m)
  PROVE  /\ Moved(m, d, s, n) \in [1 .. Len(m) -> 0 .. 255]
         /\ Copied(m, s, Moved(m, d, s, n), d, n)
         /\ \A a \in DOMAIN m : a < d \/ a >= d + n => Moved(m, d, s, n)[a] = m[a]
<1>1. d \in Nat \ {0} /\ s \in Nat \ {0} /\ Len(m) \in Nat /\ DOMAIN m = 1 .. Len(m)
  BY Bytes
<1>2. \A a \in DOMAIN m : Moved(m, d, s, n)[a] \in 0 .. 255
  <2>. TAKE a \in DOMAIN m
  <2>1. CASE a \in d .. d + n - 1
    <3>1. a - d + s \in DOMAIN m BY <1>1, <2>1
    <3>. QED BY <2>1, <3>1, Bytes DEF Moved
  <2>2. CASE a \notin d .. d + n - 1 BY <2>2, Bytes DEF Moved
  <2>. QED BY <2>1, <2>2
<1>3. Moved(m, d, s, n) \in [1 .. Len(m) -> 0 .. 255]
  <2>1. Moved(m, d, s, n) = [a \in 1 .. Len(m) |-> Moved(m, d, s, n)[a]] BY <1>1 DEF Moved
  <2>. QED BY <1>1, <1>2, <2>1
<1>4. \A i \in 0 .. n - 1 : Moved(m, d, s, n)[d + i] = m[s + i]
  <2>. TAKE i \in 0 .. n - 1
  <2>1. d + i \in DOMAIN m /\ d + i \in d .. d + n - 1 /\ (d + i) - d + s = s + i BY <1>1
  <2>. QED BY <2>1 DEF Moved
<1>5. \A a \in DOMAIN m : a < d \/ a >= d + n => Moved(m, d, s, n)[a] = m[a]
  <2>. TAKE a \in DOMAIN m
  <2>. HAVE a < d \/ a >= d + n
  <2>1. a \notin d .. d + n - 1 BY <1>1
  <2>. QED BY <2>1 DEF Moved
<1>. QED BY <1>3, <1>4, <1>5 DEF Copied

\* Copying a string with its NUL, when the two are apart.
LEMMA StrcpyIs ==
  ASSUME NEW m, IsMemory(m), NEW d \in DOMAIN m, NEW s \in DOMAIN m,
         Fits(m, d, strlen(m, s) + 1), Apart(d, s, strlen(m, s) + 1)
  PROVE  /\ strcpy(m, d, s) = Moved(m, d, s, strlen(m, s) + 1)
         /\ strcpy_c(m, d, s) = Moved(m, d, s, strlen(m, s) + 1)
<1> DEFINE l == strlen(m, s)
           t == [m EXCEPT ![d] = NUL]
<1>1. /\ d \in Nat \ {0} /\ s \in Nat \ {0} /\ l \in Nat /\ Len(m) \in Nat \ {0}
      /\ DOMAIN m = 1 .. Len(m) /\ s + l <= Len(m) /\ m[s + l] = NUL
  BY Bytes, Pointers
<1>2. d + (l + 1) - 1 <= Len(m) /\ s + (l + 1) - 1 <= Len(m) BY <1>1, Bytes DEF Fits
<1>3. d + (l + 1) <= s \/ s + (l + 1) <= d BY DEF Apart
<1>4. ASSUME NEW x, IsMemory(x), Len(x) = Len(m)
      PROVE  Up(x, d, s, l + 1) = Moved(x, d, s, l + 1)
  <2>1. l + 1 \in Nat /\ (d <= s \/ s + (l + 1) <= d) BY <1>1, <1>3
  <2>2. d \in DOMAIN x /\ s \in DOMAIN x BY <1>1, <1>4, Bytes
  <2> HIDE DEF l
  <2>. QED BY <1>2, <1>4, <2>1, <2>2, UpIs
<1>5. strcpy(m, d, s) = Moved(m, d, s, l + 1) BY <1>4 DEF strcpy
<1>6. IsMemory(t) /\ Len(t) = Len(m) /\ DOMAIN t = DOMAIN m
  <2>1. t \in [1 .. Len(m) -> 0 .. 255]
    <3>1. m = [a \in 1 .. Len(m) |-> m[a]] /\ \A a \in 1 .. Len(m) : m[a] \in 0 .. 255
      <4>1. m \in [1 .. Len(m) -> 0 .. 255] BY Bytes, LenProperties
      <4>. QED BY <4>1
    <3>2. t = [a \in 1 .. Len(m) |-> IF a = d THEN NUL ELSE m[a]] BY <1>1, <3>1
    <3>3. \A a \in 1 .. Len(m) : (IF a = d THEN NUL ELSE m[a]) \in 0 .. 255 BY <3>1 DEF NUL
    <3> HIDE DEF t
    <3>. QED BY <3>2, <3>3
  <2>2. t[Len(m)] = NUL BY <1>1, Bytes
  <2>3. DOMAIN t = DOMAIN m OBVIOUS
  <2> HIDE DEF t
  <2>. QED BY <2>1, <2>2, <2>3, Rewritten
<1>7. End(t, s) = s + l
  <2>1. t[s + l] = NUL BY <1>1
  <2>2. \A a \in s .. s + l - 1 : t[a] # NUL
    <3>. TAKE a \in s .. s + l - 1
    <3>1. a # d /\ a \in DOMAIN m BY <1>1, <1>3
    <3>2. a - s + 1 \in 1 .. l /\ s + (a - s + 1) - 1 = a BY <1>1
    <3>3. m[s + (a - s + 1) - 1] # NUL BY <3>2, StrIs
    <3>. QED BY <3>1, <3>2, <3>3
  <2>3. s + l \in s .. Len(t) /\ s \in DOMAIN t BY <1>1, <1>6
  <2>4. PICK e : e = s + l OBVIOUS
  <2> HIDE DEF t, l
  <2>5. NoNul(t, s, s + l) BY <1>1, <2>2 DEF NoNul
  <2>. QED BY <1>6, <2>1, <2>3, <2>4, <2>5, FirstNul
<1>8. strlen(t, s) = l BY <1>1, <1>7 DEF strlen
<1>9. Moved(t, d, s, l + 1) = Moved(m, d, s, l + 1)
  <2>1. \A a \in DOMAIN m : Moved(t, d, s, l + 1)[a] = Moved(m, d, s, l + 1)[a]
    <3>. TAKE a \in DOMAIN m
    <3>1. CASE a \in d .. d + (l + 1) - 1
      <4>1. a - d + s \in DOMAIN m /\ a - d + s # d BY <1>1, <1>3, <3>1
      <4>. QED BY <1>6, <3>1, <4>1 DEF Moved
    <3>2. CASE a \notin d .. d + (l + 1) - 1
      <4>1. a # d BY <1>1, <3>2
      <4>. QED BY <1>6, <3>2, <4>1 DEF Moved
    <3>. QED BY <3>1, <3>2
  <2>2. Moved(t, d, s, l + 1) = [a \in DOMAIN m |-> Moved(t, d, s, l + 1)[a]] BY <1>6 DEF Moved
  <2>3. Moved(m, d, s, l + 1) = [a \in DOMAIN m |-> Moved(m, d, s, l + 1)[a]] BY DEF Moved
  <2> HIDE DEF t, l
  <2>. QED BY <2>1, <2>2, <2>3
<1>10. strcpy_c(m, d, s) = Moved(m, d, s, l + 1)
  <2>1. strcpy_c(m, d, s) = strcpy(t, d, s) BY <1>1 DEF strcpy_c, NULL
  <2>2. strcpy(t, d, s) = Up(t, d, s, l + 1) BY <1>8 DEF strcpy
  <2> HIDE DEF t, l
  <2>. QED BY <1>4, <1>6, <1>9, <2>1, <2>2
<1>. QED BY <1>5, <1>10

\* Appending a string.
LEMMA StrcatIs ==
  ASSUME NEW m, IsMemory(m), NEW d \in DOMAIN m, NEW s \in DOMAIN m,
         Fits(m, End(m, d), strlen(m, s) + 1), Apart(End(m, d), s, strlen(m, s) + 1)
  PROVE  /\ Str(strcat(m, d, s), d) = Str(m, d) \o Str(m, s)
         /\ Outside(m, strcat(m, d, s), End(m, d), strlen(m, s) + 1)
<1> DEFINE l == strlen(m, s)
           k == strlen(m, d)
           at == End(m, d)
           r == strcat(m, d, s)
<1>1. /\ d \in Nat \ {0} /\ s \in Nat \ {0} /\ l \in Nat /\ k \in Nat /\ Len(m) \in Nat \ {0}
      /\ DOMAIN m = 1 .. Len(m) /\ s + l <= Len(m) /\ m[s + l] = NUL
      /\ at = d + k /\ at <= Len(m) /\ m[Len(m)] = NUL
  BY Bytes, Pointers, StrIs
<1>2. at + (l + 1) - 1 <= Len(m) /\ s + (l + 1) - 1 <= Len(m) /\ at \in DOMAIN m
  BY <1>1 DEF Fits
<1>3. at <= s \/ s + (l + 1) <= at BY <1>1 DEF Apart
<1>4. r = Moved(m, at, s, l + 1)
  <2>1. r = Up(m, at, s, l + 1) BY <1>1 DEF strcat, NULL
  <2>2. l + 1 \in Nat BY <1>1
  <2> HIDE DEF l, at, r
  <2>. QED BY <1>2, <1>3, <2>1, <2>2, UpIs
<1>5. /\ r \in [1 .. Len(m) -> 0 .. 255]
      /\ Copied(m, s, r, at, l + 1)
      /\ \A a \in DOMAIN m : a < at \/ a >= at + (l + 1) => r[a] = m[a]
  <2>1. PICK n : n = l + 1 OBVIOUS
  <2>2. n \in Nat BY <1>1, <2>1
  <2> HIDE DEF l, at, r
  <2>. QED BY <1>2, <1>4, <2>1, <2>2, MovedIs
<1>6. /\ Str(m, d) \in Seq(0 .. 255) /\ Len(Str(m, d)) = k
      /\ \A i \in 1 .. k : Str(m, d)[i] = m[d + i - 1] /\ m[d + i - 1] # NUL
      /\ Str(m, s) \in Seq(0 .. 255) /\ Len(Str(m, s)) = l
      /\ \A i \in 1 .. l : Str(m, s)[i] = m[s + i - 1] /\ m[s + i - 1] # NUL
  BY StrIs
<1> HIDE DEF l, k, at, r
<1>7. r[at + l] = NUL
  <2>1. l \in 0 .. (l + 1) - 1 BY <1>1
  <2>. QED BY <1>1, <1>5, <2>1 DEF Copied
<1>8. IsMemory(r) /\ Len(r) = Len(m)
  <2>1. r[Len(m)] = NUL
    <3>1. CASE Len(m) = at + l BY <1>7, <3>1
    <3>2. CASE Len(m) # at + l
      <4>1. Len(m) \in DOMAIN m /\ Len(m) >= at + (l + 1) BY <1>1, <1>2, <3>2
      <4>. QED BY <1>1, <1>5, <4>1
    <3>. QED BY <3>1, <3>2
  <2>. QED BY <1>5, <2>1, Rewritten
<1>9. \A i \in 1 .. k + l :
        r[d + i - 1] = (Str(m, d) \o Str(m, s))[i] /\ r[d + i - 1] # NUL
  <2>. TAKE i \in 1 .. k + l
  <2>1. (Str(m, d) \o Str(m, s))[i] = IF i <= k THEN Str(m, d)[i] ELSE Str(m, s)[i - k]
    BY <1>6, ConcatProperties
  <2>2. CASE i <= k
    <3>1. i \in 1 .. k /\ d + i - 1 \in DOMAIN m /\ d + i - 1 < at BY <1>1, <1>2, <2>2
    <3>. QED BY <1>5, <1>6, <2>1, <2>2, <3>1
  <2>3. CASE ~ i <= k
    <3>1. /\ i - k \in 1 .. l /\ i - k - 1 \in 0 .. (l + 1) - 1
          /\ at + (i - k - 1) = d + i - 1 /\ s + (i - k) - 1 = s + (i - k - 1)
      BY <1>1, <2>3
    <3>2. r[at + (i - k - 1)] = m[s + (i - k - 1)] BY <1>5, <3>1 DEF Copied
    <3>3. Str(m, s)[i - k] = m[s + (i - k) - 1] /\ m[s + (i - k) - 1] # NUL BY <1>6, <3>1
    <3>. QED BY <2>1, <2>3, <3>1, <3>2, <3>3
  <2>. QED BY <2>2, <2>3
<1>10. End(r, d) = at + l
  <2>1. \A a \in d .. at + l - 1 : r[a] # NUL
    <3>. TAKE a \in d .. at + l - 1
    <3>1. a - d + 1 \in 1 .. k + l /\ d + (a - d + 1) - 1 = a BY <1>1
    <3>. QED BY <1>9, <3>1
  <2>2. at + l \in d .. Len(r) /\ d \in DOMAIN r BY <1>1, <1>2, <1>8, Bytes
  <2>3. PICK e : e = at + l OBVIOUS
  <2>4. NoNul(r, d, at + l) BY <1>1, <2>1 DEF NoNul
  <2>. QED BY <1>7, <1>8, <2>2, <2>3, <2>4, FirstNul
<1>11. d \in DOMAIN r /\ strlen(r, d) = k + l
  <2>1. d \in DOMAIN r BY <1>1, <1>8, Bytes
  <2>2. at + l - d = k + l BY <1>1
  <2>. QED BY <1>1, <1>10, <2>1, <2>2 DEF strlen
<1>12. /\ Str(r, d) \in Seq(0 .. 255) /\ Len(Str(r, d)) = k + l
       /\ \A i \in 1 .. k + l : Str(r, d)[i] = r[d + i - 1]
  BY <1>8, <1>11, StrIs
<1>13. /\ Str(m, d) \o Str(m, s) \in Seq(0 .. 255) /\ Len(Str(m, d) \o Str(m, s)) = k + l
  BY <1>6, ConcatProperties
<1>14. \A i \in 1 .. k + l : Str(r, d)[i] = (Str(m, d) \o Str(m, s))[i] BY <1>9, <1>12
<1>15. Str(r, d) = Str(m, d) \o Str(m, s)
  <2> DEFINE x == Str(r, d)
             y == Str(m, d) \o Str(m, s)
  <2>1. x \in Seq(0 .. 255) /\ y \in Seq(0 .. 255) /\ Len(x) = Len(y)
        /\ \A i \in 1 .. Len(x) : x[i] = y[i] BY <1>12, <1>13, <1>14
  <2> HIDE DEF x, y
  <2>2. x = y BY <2>1, SeqEqual
  <2>. QED BY <2>2 DEF x, y
<1>16. Outside(m, r, at, l + 1)
  <2>1. \A a \in DOMAIN m \ (at .. at + (l + 1) - 1) : a < at \/ a >= at + (l + 1)
    BY <1>1, <1>2
  <2>. QED BY <1>5, <2>1 DEF Outside
<1>. QED BY <1>15, <1>16 DEF r, at, l

\* Copying at most k - 1 characters, and a NUL.
LEMMA StrlcpyIs ==
  ASSUME NEW m, IsMemory(m), NEW d \in DOMAIN m, NEW s \in DOMAIN m,
         NEW k \in 1 .. Len(m), Fits(m, d, k), Apart(d, s, k)
  PROVE  /\ Str(strlcpy(m, d, s, k).mem, d) = Head_(Str(m, s), k - 1)
         /\ Outside(m, strlcpy(m, d, s, k).mem, d, k)
<1> DEFINE l == strlen(m, s)
           n == strnlen(m, s, k - 1)
           u == Up(m, d, s, n)
           r == strlcpy(m, d, s, k).mem
<1>1. /\ d \in Nat \ {0} /\ s \in Nat \ {0} /\ l \in Nat /\ Len(m) \in Nat \ {0}
      /\ DOMAIN m = 1 .. Len(m) /\ s + l <= Len(m) /\ m[Len(m)] = NUL /\ k \in Nat \ {0}
  BY Bytes, Pointers
<1>2. n = IF k - 1 <= l THEN k - 1 ELSE l
  <2>1. k - 1 \in Nat BY <1>1
  <2>. QED BY <2>1, StrnlenIs
<1>3. r = [u EXCEPT ![d + n] = NUL] BY <1>1 DEF strlcpy, NULL
<1> HIDE DEF l, n, r
<1>4. n \in Nat /\ n <= l /\ n <= k - 1 /\ d + k - 1 <= Len(m) BY <1>1, <1>2 DEF Fits
<1>5. u = Moved(m, d, s, n)
  <2>1. d + n - 1 <= Len(m) /\ s + n - 1 <= Len(m) BY <1>1, <1>4
  <2>2. d <= s \/ s + n <= d BY <1>1, <1>4 DEF Apart
  <2>. QED BY <1>4, <2>1, <2>2, UpIs
<1>6. /\ u \in [1 .. Len(m) -> 0 .. 255]
      /\ Copied(m, s, u, d, n)
      /\ \A a \in DOMAIN m : a < d \/ a >= d + n => u[a] = m[a]
  <2>1. d + n - 1 <= Len(m) /\ s + n - 1 <= Len(m) BY <1>1, <1>4
  <2> HIDE DEF u
  <2>. QED BY <1>4, <1>5, <2>1, MovedIs
<1> HIDE DEF u
<1>7. /\ r \in [1 .. Len(m) -> 0 .. 255] /\ r[d + n] = NUL
      /\ \A a \in DOMAIN m : a # d + n => r[a] = u[a]
  <2>1. d + n \in 1 .. Len(m) /\ NUL \in 0 .. 255 BY <1>1, <1>4 DEF NUL
  <2>. QED BY <1>1, <1>3, <1>6, <2>1
<1>8. IsMemory(r) /\ Len(r) = Len(m)
  <2>1. r[Len(m)] = NUL
    <3>1. CASE Len(m) = d + n BY <1>7, <3>1
    <3>2. CASE Len(m) # d + n
      <4>1. Len(m) \in DOMAIN m /\ Len(m) >= d + n BY <1>1, <1>4, <3>2
      <4>. QED BY <1>1, <1>6, <1>7, <3>2, <4>1
    <3>. QED BY <3>1, <3>2
  <2>. QED BY <1>7, <2>1, Rewritten
<1>9. Copied(m, s, r, d, n)
  <2>. SUFFICES ASSUME NEW i \in 0 .. n - 1 PROVE r[d + i] = m[s + i] BY DEF Copied
  <2>1. d + i \in DOMAIN m /\ d + i # d + n BY <1>1, <1>4
  <2>. QED BY <1>6, <1>7, <2>1 DEF Copied
<1>10. Str(r, d) = Head_(Str(m, s), n)
  <2>1. d \in DOMAIN r /\ d + n <= Len(r) BY <1>1, <1>4, <1>8, Bytes
  <2>2. n <= strlen(m, s) BY <1>4 DEF l
  <2>. QED BY <1>4, <1>7, <1>8, <1>9, <2>1, <2>2, Lands
<1>11. Head_(Str(m, s), n) = Head_(Str(m, s), k - 1)
  <2>1. Str(m, s) \in Seq(0 .. 255) /\ Len(Str(m, s)) = l BY StrIs DEF l
  <2>2. Min({n, l}) = n /\ Min({k - 1, l}) = n
    <3>1. k - 1 \in Nat BY <1>1
    <3>. QED BY <1>1, <1>2, <1>4, <3>1, MinOfTwo
  <2>. QED BY <2>1, <2>2 DEF Head_
<1>12. Outside(m, r, d, k)
  <2>1. \A a \in DOMAIN m \ (d .. d + k - 1) : (a < d \/ a >= d + n) /\ a # d + n
    BY <1>1, <1>4
  <2>. QED BY <1>6, <1>7, <2>1 DEF Outside
<1>. QED BY <1>10, <1>11, <1>12 DEF r

\* Copying k characters: all of the string and NULs, or its first k.
LEMMA StrncpyIs ==
  ASSUME NEW m, IsMemory(m), NEW d \in DOMAIN m, NEW s \in DOMAIN m,
         NEW k \in 1 .. Len(m), Fits(m, d, k), Apart(d, s, k)
  PROVE  /\ Head_(Str(strncpy(m, d, s, k) \o <<NUL>>, d), k) = Head_(Str(m, s), k)
         /\ Outside(m, strncpy(m, d, s, k), d, k)
<1> DEFINE l == strlen(m, s)
           n == strnlen(m, s, k)
           u == Up(m, d, s, n)
           c == strncpy(m, d, s, k)
           r == c \o <<NUL>>
<1>1. /\ d \in Nat \ {0} /\ s \in Nat \ {0} /\ l \in Nat /\ Len(m) \in Nat \ {0}
      /\ DOMAIN m = 1 .. Len(m) /\ s + l <= Len(m) /\ k \in Nat \ {0}
  BY Bytes, Pointers
<1>2. n = IF k <= l THEN k ELSE l BY <1>1, StrnlenIs
<1>3. c = memset(u, d + n, NUL, k - n) BY DEF strncpy
<1> HIDE DEF l, n, c
<1>4. n \in Nat /\ n <= l /\ n <= k /\ d + k - 1 <= Len(m) BY <1>1, <1>2 DEF Fits
<1>5. u = Moved(m, d, s, n)
  <2>1. d + n - 1 <= Len(m) /\ s + n - 1 <= Len(m) BY <1>1, <1>4
  <2>2. d <= s \/ s + n <= d BY <1>1, <1>4 DEF Apart
  <2>. QED BY <1>4, <2>1, <2>2, UpIs
<1>6. /\ u \in [1 .. Len(m) -> 0 .. 255] /\ Copied(m, s, u, d, n)
      /\ \A a \in DOMAIN m : a < d \/ a >= d + n => u[a] = m[a]
  <2>1. d + n - 1 <= Len(m) /\ s + n - 1 <= Len(m) BY <1>1, <1>4
  <2> HIDE DEF u
  <2>. QED BY <1>4, <1>5, <2>1, MovedIs
<1> HIDE DEF u
<1>7. /\ c \in [1 .. Len(m) -> 0 .. 255]
      /\ \A a \in DOMAIN m : c[a] = IF a \in d + n .. d + n + (k - n) - 1 THEN NUL ELSE u[a]
  <2>1. c = [a \in DOMAIN m |-> IF a \in d + n .. d + n + (k - n) - 1 THEN NUL ELSE u[a]]
    <3>1. DOMAIN u = DOMAIN m BY <1>1, <1>6
    <3>. QED BY <1>3, <3>1 DEF memset
  <2>2. NUL \in 0 .. 255 BY DEF NUL
  <2>. QED BY <1>1, <1>6, <2>1, <2>2
<1>8. c \in Seq(0 .. 255) /\ Len(c) = Len(m) BY <1>7, Rewritten
<1>9. /\ r \in Seq(0 .. 255) /\ Len(r) = Len(m) + 1 /\ r[Len(m) + 1] = NUL
      /\ \A a \in 1 .. Len(m) : r[a] = c[a]
  <2>1. <<NUL>> \in Seq(0 .. 255) /\ Len(<<NUL>>) = 1 /\ <<NUL>>[1] = NUL BY DEF NUL
  <2>2. /\ r \in Seq(0 .. 255) /\ Len(r) = Len(c) + 1
        /\ \A i \in 1 .. Len(c) + 1 : r[i] = IF i <= Len(c) THEN c[i] ELSE <<NUL>>[i - Len(c)]
    BY <1>8, <2>1, ConcatProperties
  <2> HIDE DEF r
  <2>3. Len(m) + 1 \in 1 .. Len(c) + 1 /\ ~ Len(m) + 1 <= Len(c) /\ Len(m) + 1 - Len(c) = 1
    BY <1>1, <1>8
  <2>4. \A a \in 1 .. Len(m) : a \in 1 .. Len(c) + 1 /\ a <= Len(c) BY <1>1, <1>8
  <2>. QED BY <1>8, <2>1, <2>2, <2>3, <2>4
<1> HIDE DEF r
<1>10. IsMemory(r)
  <2>1. r # <<>> BY <1>1, <1>9, EmptySeq
  <2>. QED BY <1>9, <2>1 DEF IsMemory
<1>11. Copied(m, s, r, d, n)
  <2>. SUFFICES ASSUME NEW i \in 0 .. n - 1 PROVE r[d + i] = m[s + i] BY DEF Copied
  <2>1. d + i \in DOMAIN m /\ d + i \notin d + n .. d + n + (k - n) - 1 BY <1>1, <1>4
  <2>2. u[d + i] = m[s + i] BY <1>6 DEF Copied
  <2>. QED BY <1>1, <1>7, <1>9, <2>1, <2>2
<1>12. d \in DOMAIN r BY <1>1, <1>9, <1>10, Bytes
<1>13. Str(m, s) \in Seq(0 .. 255) /\ Len(Str(m, s)) = l BY StrIs DEF l
<1>14. Head_(Str(m, s), n) = Head_(Str(m, s), k)
  <2>1. Min({n, l}) = n /\ Min({k, l}) = n BY <1>1, <1>2, <1>4, MinOfTwo
  <2>. QED BY <1>13, <2>1 DEF Head_
<1>15. Head_(Str(r, d), k) = Head_(Str(m, s), k)
  <2>1. CASE n < k
    <3>1. r[d + n] = NUL /\ d + n <= Len(r)
      <4>1. d + n \in DOMAIN m /\ d + n \in d + n .. d + n + (k - n) - 1 BY <1>1, <1>4, <2>1
      <4>. QED BY <1>1, <1>7, <1>9, <4>1
    <3>2. n <= strlen(m, s) BY <1>4 DEF l
    <3>3. Str(r, d) = Head_(Str(m, s), n)
      BY <1>4, <1>10, <1>11, <1>12, <3>1, <3>2, Lands
    <3>4. Str(r, d) \in Seq(0 .. 255) /\ Len(Str(r, d)) = n
      <4>1. n <= Len(Str(m, s)) BY <1>4, <1>13
      <4>. QED BY <1>4, <1>13, <3>3, <4>1, HeadIs
    <3>5. /\ Head_(Str(r, d), k) \in Seq(0 .. 255) /\ Len(Head_(Str(r, d), k)) = n
          /\ \A i \in 1 .. n : Head_(Str(r, d), k)[i] = Str(r, d)[i]
      <4>1. ~ k <= Len(Str(r, d)) BY <1>1, <1>4, <2>1, <3>4
      <4>. QED BY <1>1, <3>4, <4>1, HeadIs
    <3>6. Head_(Str(r, d), k) = Str(r, d) BY <3>4, <3>5, SeqEqual
    <3>. QED BY <1>14, <3>3, <3>6
  <2>2. CASE n = k
    <3>1. strlen(r, d) >= k
      <4>1. \A i \in 1 .. k : r[d + i - 1] # NUL
        <5>. TAKE i \in 1 .. k
        <5>1. /\ i - 1 \in 0 .. n - 1 /\ d + (i - 1) = d + i - 1 /\ i \in 1 .. l
              /\ s + (i - 1) = s + i - 1 BY <1>1, <1>4, <2>2
        <5>2. r[d + (i - 1)] = m[s + (i - 1)] BY <1>11, <5>1 DEF Copied
        <5>3. m[s + i - 1] # NUL BY <5>1, StrIs DEF l
        <5>. QED BY <5>1, <5>2, <5>3
      <4>2. strlen(r, d) \in Nat /\ r[d + strlen(r, d)] = NUL BY <1>10, <1>12, Pointers
      <4>3. ~ strlen(r, d) < k
        <5>. SUFFICES ASSUME strlen(r, d) < k PROVE FALSE OBVIOUS
        <5>1. strlen(r, d) + 1 \in 1 .. k /\ d + (strlen(r, d) + 1) - 1 = d + strlen(r, d)
          BY <1>1, <4>2
        <5>. QED BY <4>1, <4>2, <5>1
      <4>. QED BY <1>1, <4>2, <4>3
    <3>2. /\ Str(r, d) \in Seq(0 .. 255) /\ Len(Str(r, d)) = strlen(r, d)
          /\ strlen(r, d) \in Nat
          /\ \A i \in 1 .. strlen(r, d) : Str(r, d)[i] = r[d + i - 1]
      BY <1>10, <1>12, StrIs
    <3>3. /\ Head_(Str(r, d), k) \in Seq(0 .. 255) /\ Len(Head_(Str(r, d), k)) = k
          /\ \A i \in 1 .. k : Head_(Str(r, d), k)[i] = Str(r, d)[i]
      <4>1. k <= Len(Str(r, d)) BY <1>1, <3>1, <3>2
      <4>. QED BY <1>1, <3>2, <4>1, HeadIs
    <3>4. /\ Head_(Str(m, s), k) \in Seq(0 .. 255) /\ Len(Head_(Str(m, s), k)) = k
          /\ \A i \in 1 .. k : Head_(Str(m, s), k)[i] = Str(m, s)[i]
      <4>1. k <= Len(Str(m, s)) BY <1>4, <1>13, <2>2
      <4>. QED BY <1>1, <1>13, <4>1, HeadIs
    <3>5. \A i \in 1 .. k : Head_(Str(r, d), k)[i] = Head_(Str(m, s), k)[i]
      <4>. TAKE i \in 1 .. k
      <4>1. /\ i \in 1 .. strlen(r, d) /\ i \in 1 .. l /\ i - 1 \in 0 .. n - 1
            /\ d + (i - 1) = d + i - 1 /\ s + (i - 1) = s + i - 1
        BY <1>1, <1>4, <2>2, <3>1, <3>2
      <4>2. r[d + (i - 1)] = m[s + (i - 1)] BY <1>11, <4>1 DEF Copied
      <4>3. Str(m, s)[i] = m[s + i - 1] BY <4>1, StrIs DEF l
      <4>. QED BY <3>2, <3>3, <3>4, <4>1, <4>2, <4>3
    <3>. QED BY <3>3, <3>4, <3>5, SeqEqual
  <2>. QED BY <1>1, <1>4, <2>1, <2>2
<1>16. Outside(m, c, d, k)
  <2>. SUFFICES ASSUME NEW a \in DOMAIN m \ (d .. d + k - 1) PROVE c[a] = m[a] BY DEF Outside
  <2>1. (a < d \/ a >= d + n) /\ a \notin d + n .. d + n + (k - n) - 1 BY <1>1, <1>4
  <2>. QED BY <1>6, <1>7, <2>1
<1>. QED BY <1>15, <1>16 DEF r, c

(* In every memory the copies of a string are strings again, as much of it   *)
(* as fits, and only the destination changes; strncpy alone leaves no NUL   *)
(* behind a string that fills it (string.c:41-79, 199-232).                *)
THEOREM CopyingKeepsStrings == \A m : IsMemory(m) => StringsCopy(m)
<1> SUFFICES ASSUME NEW m, IsMemory(m), NEW d \in DOMAIN m, NEW s \in DOMAIN m
             PROVE  LET l == strlen(m, s)
                        at == End(m, d)
                    IN  /\ Fits(m, d, l + 1) /\ Apart(d, s, l + 1) =>
                             /\ strcpy(m, d, s) = Moved(m, d, s, l + 1)
                             /\ strcpy_c(m, d, s) = Moved(m, d, s, l + 1)
                        /\ Fits(m, at, l + 1) /\ Apart(at, s, l + 1) =>
                             /\ Str(strcat(m, d, s), d) = Str(m, d) \o Str(m, s)
                             /\ Outside(m, strcat(m, d, s), at, l + 1)
                        /\ \A k \in 1 .. Len(m) : Fits(m, d, k) /\ Apart(d, s, k) =>
                             /\ Str(strlcpy(m, d, s, k).mem, d) = Head_(Str(m, s), k - 1)
                             /\ Outside(m, strlcpy(m, d, s, k).mem, d, k)
                             /\ Head_(Str(strncpy(m, d, s, k) \o <<NUL>>, d), k)
                                  = Head_(Str(m, s), k)
                             /\ Outside(m, strncpy(m, d, s, k), d, k)
  BY DEF StringsCopy
<1>. QED BY StrcpyIs, StrcatIs, StrlcpyIs, StrncpyIs
=============================================================================
