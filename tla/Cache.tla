------------------------------- MODULE Cache -------------------------------
(***************************************************************************)
(* cache.c on r4kcache.h: a program shares memory with a device, or writes   *)
(* code, through a write-back data cache and an instruction cache that do    *)
(* not watch each other.  A call is the sequence of cache instructions it    *)
(* issues; interrupt handlers run between any two of them.                   *)
(***************************************************************************)
EXTENDS Integers, Sequences

CONSTANTS LineSize, Sets, Ways,  \* a way is Sets lines
          UnrollBy,              \* lines of one cacheNN_unroll32, there 32
          Lines,                 \* lines of memory
          Value,                 \* what a byte may hold, 0 at the start
          Jobs                   \* [kind, addr, size]: what the program does

ASSUME CacheAssumption ==
  /\ {LineSize, Sets, Ways, UnrollBy, Lines} \subseteq Nat \ {0}
  /\ Sets % UnrollBy = 0
  /\ \A j \in Jobs :
       /\ j.kind \in {"out", "in", "code"} /\ j.addr \in Nat
       /\ j.size \in Nat \ {0}   \* with size 0 blast_range runs past aend

VARIABLES mem,    \* byte -> its value in memory
          dc, ic, \* slot of a cache -> [line, dirty, data], line -1 is empty
          job,    \* what the program is doing
          phase,  \* "program", "call", "device": the device, or the new code, runs
          issued, \* how many of its cache instructions the call has issued
          filled, \* bytes of the buffer the device has written
          want    \* byte -> the value last given to it, by either

vars == <<mem, dc, ic, job, phase, issued, filled, want>>

Byte == 0 .. Lines * LineSize - 1
LineOf(b) == b \div LineSize
Slot == (0 .. Ways - 1) \X (0 .. Sets - 1)
Empty == [line |-> -1, dirty |-> FALSE, data |-> [o \in 0 .. LineSize - 1 |-> 0]]
waysize == Sets * LineSize
cache_size == Ways * waysize

-----------------------------------------------------------------------------
\* cacheops.h: the low two bits select the cache, the others what is done.
Index_Invalidate_I == 0
Index_Writeback_Inv_D == 1
Hit_Invalidate_I == 16
Hit_Invalidate_D == 17
Hit_Writeback_Inv_D == 21

Op(op, addr) == [op |-> op, addr |-> addr]
Line(addr) == (addr \div LineSize) * LineSize   \* addr & ~(lsize - 1)

unroll32(base, op) == [k \in 1 .. UnrollBy |-> Op(op, base + (k - 1) * LineSize)]
\* The unrolled blocks follow each other, through all lines of all ways.
blast(indexop) ==
  [k \in 1 .. Ways * Sets |->
     unroll32(((k - 1) \div UnrollBy) * UnrollBy * LineSize,
              indexop)[((k - 1) % UnrollBy) + 1]]
blast_range_Bug(hitop, start, end) ==
  [k \in 1 .. (end - Line(start)) \div LineSize |->
     Op(hitop, Line(start) + (k - 1) * LineSize)]
blast_range(hitop, start, end) ==
  [k \in 1 .. (Line(end - 1) - Line(start)) \div LineSize + 1 |->
     Op(hitop, Line(start) + (k - 1) * LineSize)]

blast_dcache == blast(Index_Writeback_Inv_D)
blast_icache == blast(Index_Invalidate_I)

dma_cache_wback_inv(addr, size) ==
  IF size >= cache_size THEN blast_dcache
  ELSE blast_range(Hit_Writeback_Inv_D, addr, addr + size)

\* The buffer may begin and end inside a line: what else these hold is saved.
dma_cache_inv_Bug(addr, size) ==
  IF size >= cache_size THEN blast_dcache
  ELSE <<Op(Hit_Writeback_Inv_D, Line(addr))>>
       \o blast_range(Hit_Invalidate_D, addr, addr + size)
dma_cache_inv(addr, size) ==
  IF size >= cache_size THEN blast_dcache
  ELSE <<Op(Hit_Writeback_Inv_D, Line(addr)),
         Op(Hit_Writeback_Inv_D, Line(addr + size - 1))>>
       \o blast_range(Hit_Invalidate_D, addr, addr + size)

flush_icache_range_Bug(start, end) ==
  (IF end - start > cache_size THEN blast_icache
   ELSE blast_range(Hit_Invalidate_I, start, end))
  \o (IF end - start >= cache_size THEN blast_dcache
      ELSE blast_range(Hit_Writeback_Inv_D, start, end))
flush_icache_range(start, end) ==
  (IF end - start >= cache_size THEN blast_dcache
   ELSE blast_range(Hit_Writeback_Inv_D, start, end))
  \o (IF end - start > cache_size THEN blast_icache
      ELSE blast_range(Hit_Invalidate_I, start, end))

-----------------------------------------------------------------------------
\* What one cache instruction does.
Hit(c, b) == {s \in Slot : c[s].line = LineOf(b)}
Slots(i) == IF i.op \div 4 = 0
            THEN {<<(i.addr \div waysize) % Ways, LineOf(i.addr) % Sets>>}
            ELSE Hit(IF i.op % 4 = 0 THEN ic ELSE dc, i.addr)
Cleared(c, S) == [s \in Slot |-> IF s \in S THEN Empty ELSE c[s]]
WrittenBack(S) ==
  [b \in Byte |-> IF \E s \in S \cap Hit(dc, b) : dc[s].dirty
                  THEN dc[CHOOSE s \in S \cap Hit(dc, b) : TRUE].data[b % LineSize]
                  ELSE mem[b]]
cache_op(i) ==
  /\ IF i.op % 4 = 0
     THEN ic' = Cleared(ic, Slots(i)) /\ UNCHANGED <<mem, dc>>
     ELSE /\ mem' = IF i.op = Hit_Invalidate_D THEN mem ELSE WrittenBack(Slots(i))
          /\ dc' = Cleared(dc, Slots(i))
          /\ UNCHANGED ic

\* What the processor reads at b, by a load and by a fetch.
Seen(c, b) == IF Hit(c, b) = {} THEN mem[b]
              ELSE c[CHOOSE s \in Hit(c, b) : TRUE].data[b % LineSize]
Loaded(b) == [line |-> LineOf(b), dirty |-> FALSE,
              data |-> [o \in 0 .. LineSize - 1 |-> mem[LineOf(b) * LineSize + o]]]

\* An access brings the line in, into any way of its set, and out goes another.
Access(b, s) ==
  IF Hit(dc, b) # {} THEN s \in Hit(dc, b) /\ UNCHANGED mem
  ELSE s[2] = LineOf(b) % Sets /\ mem' = WrittenBack({s})

-----------------------------------------------------------------------------
Buf == {b \in Byte : b - job.addr \in 0 .. job.size - 1}

\* Outside the program only handlers run, which leave the buffer alone; and,
\* until the device has filled it, the lines it shares with other data.
Touchable(b) ==
  \/ phase = "program"
  \/ b \notin Buf /\ (job.kind = "in" => LineOf(b) \notin {LineOf(x) : x \in Buf})

Load(b) ==
  /\ Touchable(b)
  /\ \E s \in Slot : /\ Access(b, s)
                     /\ dc' = IF Hit(dc, b) # {} THEN dc
                              ELSE [dc EXCEPT ![s] = Loaded(b)]
  /\ UNCHANGED <<ic, job, phase, issued, filled, want>>

Store(b, v) ==
  /\ Touchable(b)
  /\ \E s \in Slot :
       /\ Access(b, s)
       /\ dc' = [dc EXCEPT ![s] = [(IF Hit(dc, b) # {} THEN @ ELSE Loaded(b))
                                   EXCEPT !.dirty = TRUE, !.data[b % LineSize] = v]]
  /\ want' = [want EXCEPT ![b] = v]
  /\ UNCHANGED <<ic, job, phase, issued, filled>>

Fetch(b) ==
  /\ job.kind = "code" /\ Hit(ic, b) = {}
  /\ \E s \in Slot : s[2] = LineOf(b) % Sets /\ ic' = [ic EXCEPT ![s] = Loaded(b)]
  /\ UNCHANGED <<mem, dc, job, phase, issued, filled, want>>

Instructions ==
  CASE job.kind = "out"  -> dma_cache_wback_inv(job.addr, job.size)
    [] job.kind = "in"   -> dma_cache_inv(job.addr, job.size)
    [] job.kind = "code" -> flush_icache_range(job.addr, job.addr + job.size)

Call == /\ phase = "program" /\ phase' = "call"
        /\ UNCHANGED <<mem, dc, ic, job, issued, filled, want>>

CacheOp ==
  /\ phase = "call" /\ cache_op(Instructions[issued + 1])
  /\ issued' = issued + 1
  /\ phase' = IF issued' = Len(Instructions) THEN "device" ELSE "call"
  /\ UNCHANGED <<job, filled, want>>

DeviceWrites(b, v) ==
  /\ phase = "device" /\ job.kind = "in" /\ b \in Buf \ filled
  /\ mem' = [mem EXCEPT ![b] = v]
  /\ want' = [want EXCEPT ![b] = v]
  /\ filled' = filled \cup {b}
  /\ UNCHANGED <<dc, ic, job, phase, issued>>

Done ==
  /\ phase = "device" /\ (job.kind = "in" => filled = Buf)
  /\ phase' = "program" /\ filled' = {} /\ issued' = 0
  /\ UNCHANGED <<mem, dc, ic, job, want>>

Init == /\ mem = [b \in Byte |-> 0] /\ want = mem
        /\ dc = [s \in Slot |-> Empty] /\ ic = dc
        /\ job \in Jobs /\ phase = "program" /\ issued = 0 /\ filled = {}
Next == \/ \E b \in Byte : Load(b) \/ Fetch(b) \/ \E v \in Value : Store(b, v)
        \/ \E b \in Byte, v \in Value : DeviceWrites(b, v)
        \/ Call \/ CacheOp \/ Done
Spec == Init /\ [][Next]_vars

-----------------------------------------------------------------------------
(* The processor reads at every byte what was last put there, by itself or  *)
(* by the device; the buffer only while the program has it.  In particular  *)
(* dma_cache_inv loses nothing that shares a line with the buffer.          *)
Coherent ==
  \A b \in Byte : phase = "program" \/ b \notin Buf => Seen(dc, b) = want[b]

(* The device finds in memory what the program wrote, for every buffer and  *)
(* whatever handlers do to the other bytes of its lines.                    *)
DeviceSees == phase = "device" /\ job.kind = "out"
                => \A b \in Buf : mem[b] = want[b]

(* Both directions of DMA: nothing stale is read, by either side.           *)
DmaExact == Coherent /\ DeviceSees

(* After flush_icache_range new code is fetched, not what either cache held *)
(* or picked up during the flush.                                          *)
FetchSees == phase = "device" /\ job.kind = "code"
               => \A b \in Buf : Seen(ic, b) = want[b]
=============================================================================
