---------------------------------- MODULE C0 -----------------------------------
(***************************************************************************)
(* The accessors of the CP0 registers in asm/mipsregs.h and, a second time,  *)
(* in common.h.  A thread writes a register, may change bits of it, and reads *)
(* it, instruction by instruction; interrupts come between any two of them   *)
(* while the bit ST0_IE of Status enables them.  The kernel of 32 bits keeps  *)
(* the lower half of a register over an interrupt (external, as are          *)
(* local_irq_save and local_irq_restore), so that an access to a register of *)
(* 64 bits has to be split with interrupts off.                             *)
(***************************************************************************)
EXTENDS Integers, Sequences

CONSTANTS Bits,  \* the bits of half a register, 32 in the source
          Top,   \* the sign bit of a half
          IE     \* ST0_IE, the interrupt enable of Status

ASSUME C0Assumption == Top \in Bits /\ IE \in Bits

\* An accessor: the width it is built for, and the register it names; 8 stands
\* for the set of control registers.
R32(number, sel) == [width |-> "32", reg |-> <<number, sel>>]
RUL(number, sel) == [width |-> "ulong", reg |-> <<number, sel>>]
R64(number, sel) == [width |-> "64", reg |-> <<number, sel>>]
Ctrl(number) == [width |-> "32", reg |-> <<number, 8>>]

\* The entries of f, and of g where f has none.
Beside(f, g) == [x \in DOMAIN f \cup DOMAIN g |-> IF x \in DOMAIN f THEN f[x] ELSE g[x]]

\* The accessors of mipsregs.h, in the order of the file.
c0_mmu == [index |-> R32(0, 0), random |-> R32(1, 0), entrylo0 |-> RUL(2, 0),
  entrylo1 |-> RUL(3, 0), conf |-> R32(3, 0), context |-> RUL(4, 0),
  userlocal |-> RUL(4, 2), pagemask |-> R32(5, 0), wired |-> R32(6, 0),
  info |-> R32(7, 0), cache |-> R32(7, 0), badvaddr |-> RUL(8, 0),
  count |-> R32(9, 0), count2 |-> R32(9, 6), count3 |-> R32(9, 7),
  entryhi |-> RUL(10, 0), compare |-> R32(11, 0), compare2 |-> R32(11, 6),
  compare3 |-> R32(11, 7)]
c0_control == [status |-> R32(12, 0), cause |-> R32(13, 0), epc |-> RUL(14, 0),
  prid |-> R32(15, 0), config |-> R32(16, 0), config1 |-> R32(16, 1),
  config2 |-> R32(16, 2), config3 |-> R32(16, 3), config4 |-> R32(16, 4),
  config5 |-> R32(16, 5), config6 |-> R32(16, 6), config7 |-> R32(16, 7)]
c0_watchlo == [watchlo0 |-> RUL(18, 0), watchlo1 |-> RUL(18, 1),
  watchlo2 |-> RUL(18, 2), watchlo3 |-> RUL(18, 3), watchlo4 |-> RUL(18, 4),
  watchlo5 |-> RUL(18, 5), watchlo6 |-> RUL(18, 6), watchlo7 |-> RUL(18, 7)]
c0_watchhi == [watchhi0 |-> R32(19, 0), watchhi1 |-> R32(19, 1),
  watchhi2 |-> R32(19, 2), watchhi3 |-> R32(19, 3), watchhi4 |-> R32(19, 4),
  watchhi5 |-> R32(19, 5), watchhi6 |-> R32(19, 6), watchhi7 |-> R32(19, 7)]
c0_diag == [xcontext |-> RUL(20, 0), intcontrol |-> Ctrl(20),
  framemask |-> R32(21, 0), perfcontrol |-> R32(22, 0), diag |-> R32(22, 0),
  diag1 |-> R32(22, 1), diag2 |-> R32(22, 2), diag3 |-> R32(22, 3),
  diag4 |-> R32(22, 4), diag5 |-> R32(22, 5), debug |-> R32(23, 0),
  depc |-> RUL(24, 0)]
c0_perf == [perfctrl0 |-> R32(25, 0), perfcntr0 |-> R32(25, 1),
  perfctrl1 |-> R32(25, 2), perfcntr1 |-> R32(25, 3), perfctrl2 |-> R32(25, 4),
  perfcntr2 |-> R32(25, 5), perfctrl3 |-> R32(25, 6), perfcntr3 |-> R32(25, 7),
  perfcount |-> R64(25, 0)]
c0_error == [ecc |-> R32(26, 0), derraddr0 |-> RUL(26, 1), cacheerr |-> R32(27, 0),
  derraddr1 |-> RUL(27, 1), taglo |-> R32(28, 0), dtaglo |-> R32(28, 2),
  taghi |-> R32(29, 0), errorepc |-> RUL(30, 0)]
c0_release2 == [hwrena |-> R32(7, 0), intctl |-> R32(12, 1), srsctl |-> R32(12, 2),
  srsmap |-> R32(12, 3), ebase |-> R32(15, 1), cvmcount |-> RUL(9, 6),
  cvmctl |-> R64(9, 7), cvmmemctl |-> R64(11, 7), icacheerr |-> R64(27, 0),
  dcacheerr |-> R64(27, 1)]
c0_watch == Beside(c0_watchlo, c0_watchhi)
c0_upper == Beside(c0_diag, Beside(c0_perf, Beside(c0_error, c0_release2)))
mipsregs == Beside(Beside(c0_mmu, c0_control), Beside(c0_watch, c0_upper))

\* Those of common.h.
common_low == [index |-> R32(0, 0), entrylo0 |-> RUL(2, 0), entrylo1 |-> RUL(3, 0),
  conf |-> R32(3, 0), context |-> RUL(4, 0), pagemask |-> R32(5, 0),
  wired |-> R32(6, 0), info |-> R32(7, 0), cache |-> R32(7, 0),
  badvaddr |-> RUL(8, 0), count |-> R32(9, 0), count2 |-> R32(9, 6),
  count3 |-> R32(9, 7), entryhi |-> RUL(10, 0), compare |-> R32(11, 0),
  compare2 |-> R32(11, 6), compare3 |-> R32(11, 7)]
common_control == [status |-> R32(12, 0), cause |-> R32(13, 0), epc |-> RUL(14, 0),
  prid |-> R32(15, 0), config |-> R32(16, 0), config1 |-> R32(16, 1),
  config2 |-> R32(16, 2), config3 |-> R32(16, 3), config4 |-> R32(16, 4),
  config5 |-> R32(16, 5), config6 |-> R32(16, 6), config7 |-> R32(16, 7)]
common_watch == [watchlo0 |-> RUL(18, 0), watchlo1 |-> RUL(18, 1), watchlo2 |-> RUL(18, 2),
  watchlo3 |-> RUL(18, 3), watchlo4 |-> RUL(18, 4), watchlo5 |-> RUL(18, 5),
  watchlo6 |-> RUL(18, 6), watchlo7 |-> RUL(18, 7),
  watchhi0 |-> R32(19, 0), watchhi1 |-> R32(19, 1), watchhi2 |-> R32(19, 2),
  watchhi3 |-> R32(19, 3), watchhi4 |-> R32(19, 4), watchhi5 |-> R32(19, 5),
  watchhi6 |-> R32(19, 6), watchhi7 |-> R32(19, 7)]
common == Beside(common_low, Beside(common_control, common_watch))

Header == [mipsregs |-> mipsregs, common |-> common]
\* Those that can only be read.
ReadOnly == {"info", "prid", "cacheerr"}
\* Those with set_c0_, clear_c0_ and change_c0_.
BuildSet == {"status", "cause", "config", "intcontrol", "intctl", "srsmap"}

-----------------------------------------------------------------------------
\* A register: the bits of each half that are ones.
Register == [hi : SUBSET Bits, lo : SUBSET Bits]
NoOnes == [hi |-> {}, lo |-> {}]

VARIABLES long,    \* sizeof(unsigned long), in bits
          c0,      \* Status, and the registers that have been written
          thread   \* [at, name, by: the header, code: the instructions to come,
                   \*  M, L: its registers, flags, bits and val: arguments,
                   \*  want: what is to be read, before: Status when it began]

cvars == <<long, c0, thread>>
NoAccess == [at |-> "idle", name |-> "index", by |-> "mipsregs", code |-> <<>>,
             M |-> NoOnes, L |-> NoOnes, flags |-> FALSE, bits |-> NoOnes, val |-> NoOnes,
             want |-> NoOnes, before |-> NoOnes]
StatusReg == <<12, 0>>
Holding(x) == [r \in {StatusReg} |-> x]
C0Init == /\ long \in {32, 64} /\ thread = NoAccess
          /\ \E lo \in SUBSET Bits : c0 = Holding([hi |-> {}, lo |-> lo])
C0Idle == long = 32 /\ c0 = Holding(NoOnes) /\ thread = NoAccess

\* Instructions on registers of 64 bits, of which M and L are two.
Low(x) == [hi |-> {}, lo |-> x.lo]
High(x) == [hi |-> {}, lo |-> x.hi]
Raised(x) == [hi |-> x.lo, lo |-> {}]
SignExtended(x) == [hi |-> IF Top \in x.lo THEN Bits ELSE {}, lo |-> x.lo]
Or(x, y) == [hi |-> x.hi \cup y.hi, lo |-> x.lo \cup y.lo]
And(x, y) == [hi |-> x.hi \cap y.hi, lo |-> x.lo \cap y.lo]
AndNot(x, y) == [hi |-> x.hi \ y.hi, lo |-> x.lo \ y.lo]
Target == Header[thread.by][thread.name].reg
Held == IF Target \in DOMAIN c0 THEN c0[Target] ELSE NoOnes
Stat == c0[StatusReg]
Enabled == IE \in Stat.lo
WithIE(x, on) == [hi |-> x.hi, lo |-> IF on THEN x.lo \cup {IE} ELSE x.lo \ {IE}]

\* The instructions of each accessor.
read_32bit == <<"mfc0">>
write_32bit == <<"mtc0">>
common_read_32bit == <<"mfc0">>
common_write_32bit == <<"mtc0">>
read_64bit_split == <<"save", "dmfc0 M", "dsll L,M", "dsra M", "dsra L", "restore">>
write_64bit_split_Bug ==  \* interrupts are back before the halves are one
  <<"save", "dsll L", "dsrl L", "dsll M", "restore", "or L,M", "dmtc0 L">>
write_64bit_split ==
  <<"save", "dsll L", "dsrl L", "dsll M", "or L,M", "dmtc0 L", "restore">>
read_64bit == IF long = 32 THEN read_64bit_split ELSE <<"dmfc0 L">>
write_64bit == IF long = 32 THEN write_64bit_split ELSE <<"dmtc0 L">>
read_ulong == IF long = 32 THEN read_32bit ELSE read_64bit
write_ulong == IF long = 32 THEN write_32bit ELSE write_64bit
ReadCode(header, name) ==
  CASE Header[header][name].width = "64" -> read_64bit
    [] Header[header][name].width = "ulong" -> read_ulong
    [] Header[header][name].width = "32" ->
         IF header = "common" THEN common_read_32bit ELSE read_32bit
WriteCode(header, name) ==
  CASE Header[header][name].width = "64" -> write_64bit
    [] Header[header][name].width = "ulong" -> write_ulong
    [] Header[header][name].width = "32" ->
         IF header = "common" THEN common_write_32bit ELSE write_32bit
set_c0 == <<"mfc0", "or set", "mtc0 new">>
clear_c0 == <<"mfc0", "and ~clear", "mtc0 new">>
change_c0 == <<"mfc0", "and ~clear", "or val", "mtc0 new">>

\* The registers after an instruction, and the CP0 register it leaves.
AfterM(i) ==
  LET M == thread.M
      L == thread.L
  IN  CASE i = "dmfc0 M" -> Held
        [] i = "dsll M" -> Raised(M)
        [] i = "dsra M" -> SignExtended(High(M))
        [] i = "or set" -> Or(L, thread.bits)
        [] i = "and ~clear" -> AndNot(L, thread.bits)
        [] i = "or val" -> Or(M, And(thread.val, thread.bits))
        [] OTHER -> M
AfterL(i) ==
  LET M == thread.M
      L == thread.L
  IN  CASE i = "mfc0" -> SignExtended(Held)
        [] i = "dmfc0 L" -> Held
        [] i = "dsll L,M" -> Raised(M)
        [] i = "dsll L" -> Raised(L)
        [] i = "dsra L" -> SignExtended(High(L))
        [] i = "dsrl L" -> High(L)
        [] i = "or L,M" -> Or(L, M)
        [] OTHER -> L
WordTo(i) == CASE i = "mtc0" -> Low(thread.L)
             [] i = "mtc0 new" -> Low(thread.M)
             [] i = "dmtc0 L" -> thread.L
Writes == {"mtc0", "mtc0 new", "dmtc0 L"}
Replaced(reg, x) == Beside([r \in {reg} |-> x], c0)
Execute ==
  /\ thread.code # <<>>
  /\ LET i == Head(thread.code)
     IN  /\ thread' = [thread EXCEPT !.code = Tail(@), !.M = AfterM(i), !.L = AfterL(i),
                                    !.flags = IF i = "save" THEN Enabled ELSE @]
         /\ c0' = IF i \in Writes THEN Replaced(Target, WordTo(i))
                  ELSE IF i \in {"save", "restore"}
                  THEN Replaced(StatusReg, WithIE(Stat, i = "restore" /\ thread.flags))
                  ELSE c0
  /\ UNCHANGED long

\* A register of 64 bits, and what an access to it carries.
Wide(name) == mipsregs[name].width \in (IF long = 64 THEN {"64", "ulong"} ELSE {"64"})
Values(name) == IF Wide(name) THEN Register ELSE {x \in Register : x.hi = {}}
\* Those an interrupt changes: the tick, and what the processor keeps of it.
Ticks == {"random", "count", "compare", "epc", "cause"}
Names(header) == DOMAIN Header[header] \ (ReadOnly \cup Ticks)

\* write_c0_<name>(v): a value of two words is in M and L.
Write ==
  /\ thread.at = "idle"
  /\ \E header \in DOMAIN Header : \E name \in Names(header) : \E v \in Values(name) :
       thread' = [NoAccess EXCEPT
         !.at = "write", !.name = name, !.by = header, !.code = WriteCode(header, name),
         !.M = SignExtended(High(v)),
         !.L = IF Wide(name) /\ long = 64 THEN v ELSE SignExtended(Low(v)),
         !.want = v, !.before = Stat]
  /\ UNCHANGED <<long, c0>>
\* What set_c0_<name>, clear_c0_<name> and change_c0_<name> are to leave: the
\* bits not named stay.
Named(op, old, bits, val) ==
  [hi |-> {},
   lo |-> {k \in Bits : IF k \notin bits.lo THEN k \in old.lo
                         ELSE op = "set" \/ (op = "change" /\ k \in val.lo)}]
Argument(lo) == SignExtended([hi |-> {}, lo |-> lo])
Build ==
  /\ thread.at = "write" /\ thread.code = <<>> /\ thread.name \in BuildSet
  /\ \E op \in {"set", "clear", "change"}, b, v \in SUBSET Bits :
       thread' = [thread EXCEPT
         !.at = "build", !.by = "mipsregs", !.bits = Argument(b), !.val = Argument(v),
         !.code = CASE op = "set" -> set_c0 [] op = "clear" -> clear_c0
                    [] OTHER -> change_c0,
         !.want = Named(op, thread.want, Argument(b), Argument(v))]
  /\ UNCHANGED <<long, c0>>
\* read_c0_<name>(), through either header.
Read ==
  /\ thread.at \in {"write", "build"} /\ thread.code = <<>>
  /\ \E header \in DOMAIN Header :
       /\ thread.name \in DOMAIN Header[header]
       /\ thread' = [thread EXCEPT !.at = "read", !.by = header, !.M = NoOnes, !.L = NoOnes,
                                   !.code = ReadCode(header, thread.name)]
  /\ UNCHANGED <<long, c0>>
Result == IF ~Wide(thread.name) THEN Low(thread.L)
          ELSE IF long = 64 THEN thread.L
          ELSE Or(Raised(thread.M), Low(thread.L))

\* The tick of irq.c: the handler sets Compare, and the processor EPC.  The
\* interrupted thread goes on with the halves the kernel keeps.
Tick ==
  /\ Enabled
  /\ \E v \in {x \in Register : x.hi = {}} :
       c0' = Beside([r \in {mipsregs["compare"].reg, mipsregs["epc"].reg} |-> v], c0)
  /\ thread' = IF long = 64 THEN thread
               ELSE [thread EXCEPT !.M = SignExtended(@), !.L = SignExtended(@)]
  /\ UNCHANGED long
C0Next == Write \/ Build \/ Read \/ Execute \/ Tick
C0Spec == C0Init /\ [][C0Next]_cvars

-----------------------------------------------------------------------------
(* What is written to a register, through either header, is read from it     *)
(* through either, with the bits changed that set_c0_, clear_c0_ and         *)
(* change_c0_ name and no others; an interrupt between two instructions does *)
(* not tear a value of two words (mipsregs.h:739-742), and Status, with the  *)
(* interrupt enable in it, is afterwards as it was before, unless it is the   *)
(* register that was written.                                              *)
ReadsBack ==
  thread.code = <<>> /\ thread.at # "idle" =>
    /\ Stat = IF thread.name = "status" THEN thread.want ELSE thread.before
    /\ thread.at = "read" => Result = thread.want
=============================================================================
