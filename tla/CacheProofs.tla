----------------------------- MODULE CacheProofs -----------------------------
(***************************************************************************)
(* DMA and new code are seen whole, for every geometry of the caches and     *)
(* every buffer.                                                            *)
(***************************************************************************)
EXTENDS Cache, SequenceTheorems, TLAPS

Data == Value \cup {0}
Held == [line : -1 .. Lines - 1, dirty : BOOLEAN, data : [0 .. LineSize - 1 -> Data]]

\* The instructions a call of flush_icache_range gives to either cache.
DPart == IF job.size >= cache_size THEN blast_dcache
         ELSE blast_range(Hit_Writeback_Inv_D, job.addr, job.addr + job.size)
IPart == IF job.size > cache_size THEN blast_icache
         ELSE blast_range(Hit_Invalidate_I, job.addr, job.addr + job.size)
Running == phase \in {"call", "device"}
Last == job.addr + job.size - 1
BufLines == {LineOf(b) : b \in Buf}

\* Instruction i meets slot s if that holds line l.
Meets(i, s, l) == IF i.op \div 4 = 0
                  THEN s = <<(i.addr \div waysize) % Ways, LineOf(i.addr) % Sets>>
                  ELSE l = LineOf(i.addr)
Ahead == issued + 1 .. Len(Instructions)
DAhead(s) == \E k \in Ahead : /\ Instructions[k].op % 4 # 0
                              /\ Meets(Instructions[k], s, dc[s].line)
IAhead(s) == \E k \in Ahead : /\ Instructions[k].op % 4 = 0
                              /\ Meets(Instructions[k], s, ic[s].line)

Types ==
  /\ mem \in [Byte -> Data] /\ want \in [Byte -> Data]
  /\ dc \in [Slot -> Held] /\ ic \in [Slot -> Held]
  /\ job \in Jobs /\ phase \in {"program", "call", "device"}
  /\ issued \in Nat /\ filled \subseteq Buf
  /\ phase # "device" => filled = {}
  /\ phase = "program" => issued = 0
  /\ phase = "call" => issued < Len(Instructions)
  /\ phase = "device" => issued = Len(Instructions)

\* A line is in one slot at most.
Once(c) == \A s, t \in Slot : c[s].line # -1 /\ c[s].line = c[t].line => s = t

\* What has not been written is what memory holds.
CleanKept == \A s \in Slot, b \in Byte :
  dc[s].line = LineOf(b) /\ ~dc[s].dirty => dc[s].data[b % LineSize] = mem[b]

\* The slot that holds b, or else memory, has v.
Shows(c, b, v) ==
  /\ \A s \in Slot : c[s].line = LineOf(b) => c[s].data[b % LineSize] = v
  /\ (\A s \in Slot : c[s].line # LineOf(b)) => mem[b] = v
Whole == \A b \in Byte :
  phase = "program" \/ b \notin Buf \/ job.kind # "in" => Shows(dc, b, want[b])

\* What is not in memory yet is in a slot the call has still to write back.
Saved ==
  Running /\ job.kind # "in" =>
    \A b \in Buf : \/ mem[b] = want[b]
                   \/ \E s \in Slot : dc[s].line = LineOf(b) /\ DAhead(s)

\* The lines of a buffer to be filled leave the cache, those that hold other
\* data too before any is invalidated.
Emptied ==
  Running /\ job.kind = "in" =>
    /\ \A s \in Slot : dc[s].line \in BufLines =>
         /\ DAhead(s)
         /\ job.size < cache_size => /\ dc[s].line = LineOf(job.addr) => issued < 1
                                     /\ dc[s].line = LineOf(Last) => issued < 2
    /\ \A b \in filled : mem[b] = want[b]

\* Once the data cache has been dealt with, the instruction cache holds new
\* code, or what the call has still to invalidate.
Refetched ==
  Running /\ job.kind = "code" /\ issued >= Len(DPart) =>
    \A b \in Buf, s \in Slot : ic[s].line = LineOf(b) =>
      ic[s].data[b % LineSize] = want[b] \/ IAhead(s)

IInv == /\ Types /\ Once(dc) /\ Once(ic) /\ CleanKept
        /\ Whole /\ Saved /\ Emptied /\ Refetched

-----------------------------------------------------------------------------
\* Division, and the lines of bytes.
LEMMA Sizes ==
  /\ LineSize \in Nat /\ LineSize > 0 /\ Sets \in Nat /\ Sets > 0
  /\ Ways \in Nat /\ Ways > 0 /\ UnrollBy \in Nat /\ UnrollBy > 0
  /\ Lines \in Nat /\ Lines > 0
  BY CacheAssumption

LEMMA Grows == \A d \in Nat, x, y \in Int : x <= y => x * d <= y * d
<1> SUFFICES ASSUME NEW d \in Nat, NEW x \in Int, NEW y \in Int, x <= y
             PROVE  x * d <= y * d
  OBVIOUS
<1>1. (y - x) * d >= 0
  OBVIOUS
<1> QED BY <1>1

LEMMA Quotient ==
  ASSUME NEW d \in Nat \ {0}, NEW q \in Nat, NEW r \in 0 .. d - 1
  PROVE  (q * d + r) \div d = q /\ (q * d + r) % d = r
<1> DEFINE a == q * d + r
           x == a \div d
           y == a % d
<1>1. q * d \in Nat /\ a \in Nat
  OBVIOUS
<1>2. x \in Int /\ y \in Int /\ 0 <= y /\ y < d /\ a = x * d + y
  <2> HIDE DEF a
  <2> QED BY <1>1
<1> HIDE DEF x, y
<1>3. ~(x < q)
  <2> SUFFICES ASSUME x + 1 <= q PROVE FALSE
    BY <1>2
  <2>1. (x + 1) * d <= q * d
    BY <1>2, Grows
  <2>2. (x + 1) * d = x * d + d
    BY <1>2
  <2> QED BY <1>1, <1>2, <2>1, <2>2
<1>4. ~(x > q)
  <2> SUFFICES ASSUME q + 1 <= x PROVE FALSE
    BY <1>2
  <2>1. (q + 1) * d <= x * d
    BY <1>2, Grows
  <2>2. (q + 1) * d = q * d + d
    OBVIOUS
  <2>3. x * d \in Int
    BY <1>2
  <2> QED BY <1>1, <1>2, <2>1, <2>2, <2>3
<1>5. x = q /\ y = r
  BY <1>1, <1>2, <1>3, <1>4
<1> QED BY <1>5 DEF x, y

LEMMA Lined ==
  \A b \in Nat : /\ LineOf(b) \in Nat /\ b % LineSize \in 0 .. LineSize - 1
                 /\ b = LineOf(b) * LineSize + (b % LineSize)
                 /\ Line(b) = LineOf(b) * LineSize /\ Line(b) \in Nat
<1> SUFFICES ASSUME NEW b \in Nat
             PROVE  /\ LineOf(b) \in Nat /\ b % LineSize \in 0 .. LineSize - 1
                    /\ b = LineOf(b) * LineSize + (b % LineSize)
                    /\ Line(b) = LineOf(b) * LineSize /\ Line(b) \in Nat
  OBVIOUS
<1>1. /\ LineOf(b) \in Nat /\ b % LineSize \in 0 .. LineSize - 1
      /\ b = LineOf(b) * LineSize + (b % LineSize)
  BY Sizes DEF LineOf
<1>2. Line(b) = LineOf(b) * LineSize
  BY DEF Line, LineOf
<1> QED BY <1>1, <1>2, Sizes

LEMMA StartOfLine == \A l \in Nat : l * LineSize \in Nat /\ LineOf(l * LineSize) = l
<1> SUFFICES ASSUME NEW l \in Nat PROVE l * LineSize \in Nat /\ LineOf(l * LineSize) = l
  OBVIOUS
<1>1. (l * LineSize + 0) \div LineSize = l
  BY Sizes, Quotient
<1> QED BY <1>1, Sizes DEF LineOf

LEMMA LinesInOrder == \A a, b \in Nat : a <= b => LineOf(a) <= LineOf(b)
<1> SUFFICES ASSUME NEW a \in Nat, NEW b \in Nat, LineOf(b) + 1 <= LineOf(a) PROVE b < a
  BY Lined
<1>0. LineOf(b) + 1 \in Int /\ LineOf(a) \in Int /\ LineSize \in Nat
  BY Lined, Sizes
<1>1. (LineOf(b) + 1) * LineSize <= LineOf(a) * LineSize
  BY <1>0, Grows
<1>2. (LineOf(b) + 1) * LineSize = LineOf(b) * LineSize + LineSize
  BY Lined, Sizes
<1>3. LineOf(a) * LineSize \in Nat /\ LineOf(b) * LineSize \in Nat
  BY Lined, Sizes
<1> QED BY Lined, <1>1, <1>2, <1>3, Sizes

LEMMA Bytes == \A b \in Byte : b \in Nat /\ LineOf(b) \in 0 .. Lines - 1
<1> SUFFICES ASSUME NEW b \in Byte PROVE b \in Nat /\ LineOf(b) \in 0 .. Lines - 1
  OBVIOUS
<1>1. Lines * LineSize \in Nat
  BY Sizes
<1>2. b \in Nat /\ b < Lines * LineSize
  BY <1>1 DEF Byte
<1>3. ~(Lines <= LineOf(b))
  <2> SUFFICES ASSUME Lines <= LineOf(b) PROVE FALSE
    OBVIOUS
  <2>0. LineOf(b) \in Int /\ Lines \in Int /\ LineSize \in Nat
    BY <1>2, Lined, Sizes
  <2>1. Lines * LineSize <= LineOf(b) * LineSize
    BY <2>0, Grows
  <2>2. LineOf(b) * LineSize \in Nat
    BY <1>2, Lined, Sizes
  <2> QED BY <1>1, <1>2, <2>1, <2>2, Lined
<1>4. LineOf(b) \in Nat /\ Lines \in Nat
  BY <1>2, Lined, Sizes
<1> QED BY <1>2, <1>3, <1>4

\* Two bytes of a line differ by their offset.
LEMMA Offsets ==
  ASSUME NEW a \in Byte, NEW b \in Byte, LineOf(a) = LineOf(b), a % LineSize = b % LineSize
  PROVE  a = b
<1>1. a \in Nat /\ b \in Nat
  BY Bytes
<1> QED BY <1>1, Lined

-----------------------------------------------------------------------------
\* The instructions of a call.
LEMMA Tuples ==
  ASSUME NEW S, NEW n \in Nat, NEW f \in [1 .. n -> S]
  PROVE  f \in Seq(S) /\ Len(f) = n
  OBVIOUS

LEMMA Blasts ==
  ASSUME NEW op \in Nat
  PROVE  /\ blast(op) \in Seq([op : Nat, addr : Nat])
         /\ Len(blast(op)) = Ways * Sets /\ Ways * Sets \in Nat \ {0}
         /\ \A k \in 1 .. Ways * Sets : blast(op)[k] = [op |-> op, addr |-> (k - 1) * LineSize]
<1>1. Ways * Sets \in Nat \ {0}
  BY Sizes
<1>2. ASSUME NEW k \in 1 .. Ways * Sets
      PROVE  blast(op)[k] = [op |-> op, addr |-> (k - 1) * LineSize]
  <2> DEFINE d == (k - 1) \div UnrollBy
             j == (k - 1) % UnrollBy
  <2>1. d \in Nat /\ j \in 0 .. UnrollBy - 1 /\ k - 1 = d * UnrollBy + j
    BY <1>1, Sizes
  <2>2. blast(op)[k] = unroll32(d * UnrollBy * LineSize, op)[j + 1]
    BY DEF blast
  <2> HIDE DEF d, j
  <2> DEFINE base == d * UnrollBy * LineSize
             m == j + 1
  <2>3. m \in 1 .. UnrollBy /\ m - 1 = j
    BY <2>1, Sizes
  <2> HIDE DEF base, m
  <2>4. unroll32(base, op)[m] = Op(op, base + (m - 1) * LineSize)
    BY <2>3 DEF unroll32
  <2>5. base + (m - 1) * LineSize = (k - 1) * LineSize
    BY <2>1, <2>3, Sizes DEF base
  <2>6. blast(op)[k] = unroll32(base, op)[m]
    BY <2>2 DEF base, m
  <2> QED BY <2>4, <2>5, <2>6 DEF Op
<1>3. \A k \in 1 .. Ways * Sets : (k - 1) * LineSize \in Nat
  BY <1>1, Sizes
<1>4. DOMAIN blast(op) = 1 .. Ways * Sets
  BY DEF blast
<1>5. blast(op) = [k \in 1 .. Ways * Sets |-> blast(op)[k]]
  BY DEF blast
<1> HIDE DEF blast
<1>6. blast(op) \in [1 .. Ways * Sets -> [op : Nat, addr : Nat]]
  BY <1>2, <1>3, <1>4, <1>5
<1>7. blast(op) \in Seq([op : Nat, addr : Nat])
  BY <1>1, <1>6, Tuples
<1>8. Len(blast(op)) = Ways * Sets
  BY <1>1, <1>6, Tuples
<1> QED BY <1>1, <1>2, <1>7, <1>8

\* Every slot is met by its index.
LEMMA BlastMeets ==
  ASSUME NEW op \in Nat, op \div 4 = 0, NEW s \in Slot, NEW l
  PROVE  \E k \in 1 .. Len(blast(op)) : Meets(blast(op)[k], s, l)
<1>1. PICK w \in 0 .. Ways - 1, t \in 0 .. Sets - 1 : s = <<w, t>>
  BY DEF Slot
<1> DEFINE x == w * Sets + t
           k == x + 1
<1>2. w \in Nat /\ t \in Nat /\ w * Sets \in Nat /\ x \in Nat
  BY Sizes
<1>3. k \in 1 .. Ways * Sets
  <2>1. (w + 1) * Sets <= Ways * Sets
    <3>1. w + 1 \in Int /\ Ways \in Int /\ Sets \in Nat /\ w + 1 <= Ways
      BY <1>2, Sizes
    <3> QED BY <3>1, Grows
  <2>2. (w + 1) * Sets = w * Sets + Sets
    BY <1>2, Sizes
  <2>3. Ways * Sets \in Nat
    BY Sizes
  <2> QED BY <1>2, <2>1, <2>2, <2>3, Sizes
<1>4. blast(op)[k] = [op |-> op, addr |-> x * LineSize]
  <2>1. k - 1 = x
    BY <1>2
  <2> HIDE DEF x, k
  <2> QED BY <1>3, <2>1, Blasts
<1>5. LineOf(x * LineSize) = x
  <2> HIDE DEF x
  <2> QED BY <1>2, StartOfLine
<1>6. LineOf(x * LineSize) % Sets = t
  <2>1. (w * Sets + t) % Sets = t
    BY <1>2, Quotient, Sizes
  <2> QED BY <1>5, <2>1, Zenon
<1>7. (x * LineSize) \div waysize = w
  <2>1. waysize \in Nat \ {0} /\ waysize = Sets * LineSize
    BY Sizes DEF waysize
  <2>2. x * LineSize = w * waysize + t * LineSize
    BY <1>2, <2>1, Sizes
  <2>3. t * LineSize \in 0 .. waysize - 1
    <3>1. t + 1 \in Int /\ Sets \in Int /\ LineSize \in Nat /\ t + 1 <= Sets
      BY <1>2, Sizes
    <3>2. (t + 1) * LineSize <= Sets * LineSize
      BY <3>1, Grows
    <3>3. (t + 1) * LineSize = t * LineSize + LineSize /\ t * LineSize \in Nat
      BY <1>2, Sizes
    <3> QED BY <2>1, <3>2, <3>3, Sizes
  <2> QED BY <1>2, <2>1, <2>2, <2>3, Quotient
<1>8. w % Ways = w
  BY <1>2, Sizes
<1>9. Meets(blast(op)[k], s, l)
  BY <1>1, <1>4, <1>6, <1>7, <1>8 DEF Meets
<1> HIDE DEF k
<1> QED BY <1>3, <1>9, Blasts

LEMMA Ranges ==
  ASSUME NEW op \in Nat, NEW start \in Nat, NEW size \in Nat \ {0}
  PROVE  LET n == LineOf(start + size - 1) - LineOf(start) + 1
             r == blast_range(op, start, start + size)
         IN  /\ n \in Nat \ {0} /\ r \in Seq([op : Nat, addr : Nat]) /\ Len(r) = n
             /\ \A k \in 1 .. n : r[k] = [op |-> op, addr |-> (LineOf(start) + k - 1) * LineSize]
<1> DEFINE last == start + size - 1
           f == LineOf(start)
           n == LineOf(last) - f + 1
           r == blast_range(op, start, start + size)
<1>1. last \in Nat /\ start <= last /\ start + size - 1 = last
  OBVIOUS
<1>2. f \in Nat /\ LineOf(last) \in Nat /\ f <= LineOf(last) /\ n \in Nat \ {0}
  <2> HIDE DEF last
  <2>1. LineOf(start) \in Nat /\ LineOf(last) \in Nat
    BY <1>1, Lined
  <2>2. LineOf(start) <= LineOf(last)
    BY <1>1, LinesInOrder
  <2> QED BY <2>1, <2>2
<1>3. Line(last) = LineOf(last) * LineSize /\ Line(start) = f * LineSize
  BY <1>1, Lined
<1>4. (Line(last) - Line(start)) \div LineSize + 1 = n
  <2>1. Line(last) - Line(start) = (LineOf(last) - f) * LineSize
    BY <1>2, <1>3, Sizes
  <2>2. LineOf(last) - f \in Nat
    BY <1>2
  <2>3. LineOf((LineOf(last) - f) * LineSize) = LineOf(last) - f
    BY <2>2, StartOfLine
  <2> QED BY <2>1, <2>3 DEF LineOf
<1>5. r = [k \in 1 .. n |-> Op(op, Line(start) + (k - 1) * LineSize)]
  BY <1>1, <1>4 DEF blast_range
<1> HIDE DEF n, r, f, last
<1>6. ASSUME NEW k \in 1 .. n
      PROVE  /\ Line(start) + (k - 1) * LineSize = (f + k - 1) * LineSize
             /\ (f + k - 1) * LineSize \in Nat
  BY <1>2, <1>3, Sizes
<1>7. \A k \in 1 .. n : r[k] = [op |-> op, addr |-> (f + k - 1) * LineSize]
  BY <1>5, <1>6 DEF Op
<1>8. r \in [1 .. n -> [op : Nat, addr : Nat]]
  BY <1>5, <1>6 DEF Op
<1>9. r \in Seq([op : Nat, addr : Nat])
  BY <1>2, <1>8, Tuples
<1>10. Len(r) = n
  BY <1>2, <1>8, Tuples
<1> QED BY <1>2, <1>7, <1>9, <1>10 DEF n, r, f, last

\* Every line of the range is met, and no other.
LEMMA RangeMeets ==
  ASSUME NEW op \in Nat, op \div 4 # 0, NEW start \in Nat, NEW size \in Nat \ {0}
  PROVE  LET r == blast_range(op, start, start + size)
         IN  /\ \A b \in start .. start + size - 1 : \A s : \E k \in 1 .. Len(r) :
                  Meets(r[k], s, LineOf(b))
             /\ \A k \in 1 .. Len(r) : LineOf(r[k].addr)
                                         \in LineOf(start) .. LineOf(start + size - 1)
<1> DEFINE r == blast_range(op, start, start + size)
           last == start + size - 1
           f == LineOf(start)
           l == LineOf(last)
           n == l - f + 1
<1>0. last \in Nat /\ f \in Nat /\ l \in Nat
  <2>1. last \in Nat
    OBVIOUS
  <2> HIDE DEF last
  <2> QED BY <2>1, Lined
<1>1. /\ n \in Nat \ {0} /\ Len(r) = n
      /\ \A k \in 1 .. n : r[k] = [op |-> op, addr |-> (f + k - 1) * LineSize]
  BY <1>0, Ranges, Zenon
<1>5. n \in Nat \ {0} /\ Len(r) = n
  BY <1>1
<1>6. \A k \in 1 .. n : f + k - 1 \in Nat /\ f + k - 1 \in f .. l
  <2> HIDE DEF f, l
  <2> QED BY <1>0
<1> HIDE DEF r, f, l
<1>2. \A k \in 1 .. n : LineOf(r[k].addr) = f + k - 1
  <2> SUFFICES ASSUME NEW k \in 1 .. n PROVE LineOf(r[k].addr) = f + k - 1
    OBVIOUS
  <2>1. f + k - 1 \in Nat
    BY <1>6
  <2>2. r[k].addr = (f + k - 1) * LineSize
    BY <1>1
  <2> HIDE DEF n
  <2> QED BY <2>1, <2>2, StartOfLine
<1>3. ASSUME NEW b \in start .. last, NEW s
      PROVE  \E k \in 1 .. Len(r) : Meets(r[k], s, LineOf(b))
  <2> DEFINE k == LineOf(b) - f + 1
  <2>1. LineOf(b) \in Nat /\ f <= LineOf(b) /\ LineOf(b) <= l
    <3>1. b \in Nat /\ start <= b /\ b <= last
      BY <1>0
    <3> QED BY <1>0, <3>1, Lined, LinesInOrder DEF f, l
  <2>2. k \in 1 .. n /\ f + k - 1 = LineOf(b)
    BY <1>0, <2>1
  <2> HIDE DEF k, n
  <2>3. r[k].op = op /\ LineOf(r[k].addr) = LineOf(b)
    BY <1>1, <1>2, <2>2
  <2>4. Meets(r[k], s, LineOf(b))
    BY <2>3 DEF Meets
  <2> QED BY <1>1, <2>2, <2>4
<1>4. \A k \in 1 .. Len(r) : LineOf(r[k].addr) \in f .. l
  BY <1>2, <1>5, <1>6
<1> QED BY <1>3, <1>4 DEF r, f, l

Instruction == [op : Nat, addr : Nat]
\* The instructions of part meet every slot that may hold b.
Covers(part, b) ==
  \A s \in Slot : \E k \in 1 .. Len(part) : Meets(part[k], s, LineOf(b))

LEMMA JobTypes ==
  ASSUME job \in Jobs
  PROVE  /\ job.addr \in Nat /\ job.size \in Nat \ {0} /\ Last \in Nat /\ job.addr <= Last
         /\ job.kind \in {"out", "in", "code"}
         /\ \A b \in Buf : b \in Nat /\ b \in job.addr .. Last
         /\ \A b \in Nat : b \in Byte /\ b \in job.addr .. Last => b \in Buf
<1>1. job.addr \in Nat /\ job.size \in Nat \ {0} /\ job.kind \in {"out", "in", "code"}
  BY CacheAssumption
<1>2. Last \in Nat /\ job.addr <= Last
  BY <1>1 DEF Last
<1>3. \A b \in Buf : b \in Nat /\ b \in job.addr .. Last
  BY <1>1, Bytes DEF Buf, Last
<1>4. \A b \in Nat : b \in Byte /\ b \in job.addr .. Last => b \in Buf
  BY <1>1 DEF Buf, Last
<1> QED BY <1>1, <1>2, <1>3, <1>4

LEMMA BlastPart ==
  ASSUME NEW op \in Nat, op \div 4 = 0
  PROVE  /\ blast(op) \in Seq(Instruction) /\ Len(blast(op)) \in Nat \ {0}
         /\ \A k \in 1 .. Len(blast(op)) : blast(op)[k].op = op
         /\ \A b \in Buf : Covers(blast(op), b)
<1> DEFINE n == Ways * Sets
<1>1. blast(op) \in Seq(Instruction) /\ Len(blast(op)) = n /\ n \in Nat \ {0}
  BY Blasts, Zenon DEF Instruction
<1>2. \A k \in 1 .. n : blast(op)[k] = [op |-> op, addr |-> (k - 1) * LineSize]
  BY Blasts, Zenon
<1> HIDE DEF n
<1>3. \A k \in 1 .. Len(blast(op)) : blast(op)[k].op = op
  BY <1>1, <1>2
<1>4. \A b \in Buf : Covers(blast(op), b)
  BY BlastMeets, Zenon DEF Covers
<1> QED BY <1>1, <1>3, <1>4

LEMMA RangePart ==
  ASSUME NEW op \in Nat, op \div 4 # 0, job \in Jobs
  PROVE  LET r == blast_range(op, job.addr, job.addr + job.size)
         IN  /\ r \in Seq(Instruction) /\ Len(r) \in Nat \ {0}
             /\ \A k \in 1 .. Len(r) : /\ r[k].op = op
                                       /\ LineOf(r[k].addr) \in LineOf(job.addr) .. LineOf(Last)
             /\ \A b \in Buf : Covers(r, b)
<1> DEFINE r == blast_range(op, job.addr, job.addr + job.size)
<1>1. job.addr \in Nat /\ job.size \in Nat \ {0} /\ Last = job.addr + job.size - 1
  BY JobTypes DEF Last
<1>2. /\ r \in Seq(Instruction) /\ Len(r) \in Nat \ {0}
      /\ \A k \in 1 .. Len(r) : r[k].op = op
  <2> DEFINE f == LineOf(job.addr)
             n == LineOf(job.addr + job.size - 1) - f + 1
  <2>1. /\ n \in Nat \ {0} /\ r \in Seq([op : Nat, addr : Nat]) /\ Len(r) = n
        /\ \A k \in 1 .. n : r[k] = [op |-> op, addr |-> (f + k - 1) * LineSize]
    BY <1>1, Ranges, Zenon
  <2> HIDE DEF r, f, n
  <2>2. \A k \in 1 .. Len(r) : r[k].op = op
    BY <2>1
  <2> QED BY <2>1, <2>2 DEF Instruction
<1>3. \A b \in job.addr .. Last : \A s : \E k \in 1 .. Len(r) : Meets(r[k], s, LineOf(b))
  BY <1>1, RangeMeets
<1>4. \A k \in 1 .. Len(r) : LineOf(r[k].addr) \in LineOf(job.addr) .. LineOf(Last)
  BY <1>1, RangeMeets
<1>5. \A b \in Buf : Covers(r, b)
  BY <1>3, JobTypes DEF Covers
<1> QED BY <1>2, <1>4, <1>5

LEMMA Parts ==
  ASSUME job \in Jobs
  PROVE  /\ DPart \in Seq(Instruction) /\ Len(DPart) \in Nat \ {0}
         /\ \A k \in 1 .. Len(DPart) : DPart[k].op \in {1, 21}
         /\ \A b \in Buf : Covers(DPart, b)
         /\ IPart \in Seq(Instruction) /\ Len(IPart) \in Nat \ {0}
         /\ \A k \in 1 .. Len(IPart) : IPart[k].op \in {0, 16}
         /\ \A b \in Buf : Covers(IPart, b)
<1>1. /\ DPart \in Seq(Instruction) /\ Len(DPart) \in Nat \ {0}
      /\ \A k \in 1 .. Len(DPart) : DPart[k].op \in {1, 21}
      /\ \A b \in Buf : Covers(DPart, b)
  <2>1. CASE job.size >= cache_size
    <3>1. DPart = blast(1)
      BY <2>1 DEF DPart, blast_dcache, Index_Writeback_Inv_D
    <3>2. 1 \in Nat /\ 1 \div 4 = 0
      OBVIOUS
    <3> QED BY <3>1, <3>2, BlastPart
  <2>2. CASE ~(job.size >= cache_size)
    <3>1. DPart = blast_range(21, job.addr, job.addr + job.size)
      BY <2>2 DEF DPart, Hit_Writeback_Inv_D
    <3>2. 21 \in Nat /\ 21 \div 4 # 0
      OBVIOUS
    <3> QED BY <3>1, <3>2, RangePart
  <2> QED BY <2>1, <2>2
<1>2. /\ IPart \in Seq(Instruction) /\ Len(IPart) \in Nat \ {0}
      /\ \A k \in 1 .. Len(IPart) : IPart[k].op \in {0, 16}
      /\ \A b \in Buf : Covers(IPart, b)
  <2>1. CASE job.size > cache_size
    <3>1. IPart = blast(0)
      BY <2>1 DEF IPart, blast_icache, Index_Invalidate_I
    <3>2. 0 \in Nat /\ 0 \div 4 = 0
      OBVIOUS
    <3> QED BY <3>1, <3>2, BlastPart
  <2>2. CASE ~(job.size > cache_size)
    <3>1. IPart = blast_range(16, job.addr, job.addr + job.size)
      BY <2>2 DEF IPart, Hit_Invalidate_I
    <3>2. 16 \in Nat /\ 16 \div 4 # 0
      OBVIOUS
    <3> QED BY <3>1, <3>2, RangePart
  <2> QED BY <2>1, <2>2
<1> QED BY <1>1, <1>2

\* A call that writes back: everything of the buffer is met by the data cache,
\* and for new code by the instruction cache after that.
LEMMA Calls ==
  ASSUME job \in Jobs, job.kind # "in"
  PROVE  /\ Instructions \in Seq(Instruction)
         /\ Len(Instructions) \in Nat \ {0} /\ Len(DPart) \in 1 .. Len(Instructions)
         /\ \A k \in 1 .. Len(DPart) : Instructions[k].op \in {1, 21}
         /\ \A k \in Len(DPart) + 1 .. Len(Instructions) : Instructions[k].op \in {0, 16}
         /\ \A b \in Buf, s \in Slot :
              \E k \in 1 .. Len(DPart) : Meets(Instructions[k], s, LineOf(b))
         /\ job.kind = "code" => \A b \in Buf, s \in Slot :
              \E k \in Len(DPart) + 1 .. Len(Instructions) : Meets(Instructions[k], s, LineOf(b))
<1>1. CASE job.kind = "out"
  <2>1. Instructions = DPart
    BY <1>1 DEF Instructions, DPart, dma_cache_wback_inv
  <2> QED BY <1>1, <2>1, Parts DEF Covers
<1>2. CASE job.kind = "code"
  <2> DEFINE n == Len(DPart)
             m == Len(IPart)
  <2>1. Instructions = DPart \o IPart
    <3> DEFINE end == job.addr + job.size
    <3>1. Instructions = flush_icache_range(job.addr, end)
      BY <1>2 DEF Instructions
    <3> HIDE DEF end
    <3>2. end - job.addr = job.size
      BY JobTypes DEF end
    <3>3. Instructions
            = (IF job.size >= cache_size THEN blast_dcache
               ELSE blast_range(Hit_Writeback_Inv_D, job.addr, end))
              \o (IF job.size > cache_size THEN blast_icache
                  ELSE blast_range(Hit_Invalidate_I, job.addr, end))
      BY <3>1, <3>2, Zenon DEF flush_icache_range
    <3> QED BY <3>3, Zenon DEF DPart, IPart, end
  <2>3. /\ n \in Nat \ {0} /\ m \in Nat \ {0} /\ Len(Instructions) = n + m
        /\ \A k \in 1 .. n + m : Instructions[k] = IF k <= n THEN DPart[k] ELSE IPart[k - n]
    BY <2>1, Parts, ConcatProperties
  <2>12. Instructions \in Seq(Instruction)
    BY <2>1, Parts, ConcatProperties
  <2> HIDE DEF n, m
  <2>4. \A k \in 1 .. n : Instructions[k] = DPart[k]
    BY <2>3
  <2>5. \A k \in 1 .. m : Instructions[n + k] = IPart[k] /\ n + k \in n + 1 .. n + m
    BY <2>3
  <2>6. \A k \in n + 1 .. n + m : k - n \in 1 .. m /\ Instructions[k] = IPart[k - n]
    BY <2>3
  <2>7. \A k \in 1 .. n : Instructions[k].op \in {1, 21}
    BY <2>4, Parts DEF n
  <2>8. \A k \in n + 1 .. n + m : Instructions[k].op \in {0, 16}
    BY <2>6, Parts DEF m
  <2>9. \A b \in Buf, s \in Slot : \E k \in 1 .. n : Meets(Instructions[k], s, LineOf(b))
    BY <2>4, Parts DEF Covers, n
  <2>10. \A b \in Buf, s \in Slot : \E k \in n + 1 .. n + m : Meets(Instructions[k], s, LineOf(b))
    <3> SUFFICES ASSUME NEW b \in Buf, NEW s \in Slot
                 PROVE  \E k \in n + 1 .. n + m : Meets(Instructions[k], s, LineOf(b))
      OBVIOUS
    <3>1. PICK k \in 1 .. m : Meets(IPart[k], s, LineOf(b))
      BY Parts DEF Covers, m
    <3> QED BY <2>5, <3>1
  <2>11. n \in 1 .. n + m /\ n + m \in Nat \ {0}
    BY <2>3
  <2> QED BY <2>3, <2>7, <2>8, <2>9, <2>10, <2>11, <2>12 DEF n
<1> QED BY <1>1, <1>2, JobTypes

\* A call ahead of the device: the lines at the ends are written back first, and
\* only lines of the buffer are invalidated.
LEMMA InCalls ==
  ASSUME job \in Jobs, job.kind = "in"
  PROVE  /\ Instructions \in Seq(Instruction)
         /\ Len(Instructions) \in Nat \ {0}
         /\ \A k \in 1 .. Len(Instructions) : Instructions[k].op \in {1, 17, 21}
         /\ \A b \in Buf, s \in Slot :
              \E k \in 1 .. Len(Instructions) : Meets(Instructions[k], s, LineOf(b))
         /\ job.size >= cache_size =>
              \A k \in 1 .. Len(Instructions) : Instructions[k].op = 1
         /\ job.size < cache_size =>
              /\ Len(Instructions) > 2
              /\ Instructions[1].op = 21 /\ LineOf(Instructions[1].addr) = LineOf(job.addr)
              /\ Instructions[2].op = 21 /\ LineOf(Instructions[2].addr) = LineOf(Last)
              /\ \A k \in 3 .. Len(Instructions) :
                   /\ Instructions[k].op = 17
                   /\ LineOf(Instructions[k].addr) \in LineOf(job.addr) .. LineOf(Last)
<1>0. Instructions = dma_cache_inv(job.addr, job.size)
  BY DEF Instructions
<1>1. CASE job.size >= cache_size
  <2>1. Instructions = blast(1)
    BY <1>0, <1>1 DEF dma_cache_inv, blast_dcache, Index_Writeback_Inv_D
  <2>2. 1 \in Nat /\ 1 \div 4 = 0
    OBVIOUS
  <2>3. cache_size \in Int /\ job.size \in Int
    BY Sizes, JobTypes DEF cache_size, waysize
  <2> QED BY <1>1, <2>1, <2>2, <2>3, BlastPart DEF Covers
<1>2. CASE ~(job.size >= cache_size)
  <2> DEFINE edges == <<Op(21, Line(job.addr)), Op(21, Line(Last))>>
             r == blast_range(17, job.addr, job.addr + job.size)
             n == Len(r)
  <2>0. /\ job.addr \in Nat /\ Last \in Nat /\ LineOf(job.addr) \in Nat /\ LineOf(Last) \in Nat
        /\ Line(job.addr) = LineOf(job.addr) * LineSize /\ Line(Last) = LineOf(Last) * LineSize
        /\ Line(job.addr) \in Nat /\ Line(Last) \in Nat
    BY JobTypes, Lined
  <2>1. Instructions = edges \o r
    BY <1>0, <1>2 DEF dma_cache_inv, Hit_Writeback_Inv_D, Hit_Invalidate_D, Last
  <2>2. /\ edges \in Seq(Instruction) /\ Len(edges) = 2
        /\ edges[1].op = 21 /\ edges[1].addr = Line(job.addr)
        /\ edges[2].op = 21 /\ edges[2].addr = Line(Last)
    BY <2>0 DEF Op, Instruction
  <2>3. /\ r \in Seq(Instruction) /\ n \in Nat \ {0}
        /\ \A k \in 1 .. n : /\ r[k].op = 17
                             /\ LineOf(r[k].addr) \in LineOf(job.addr) .. LineOf(Last)
        /\ \A b \in Buf : Covers(r, b)
    <3>1. 17 \in Nat /\ 17 \div 4 # 0
      OBVIOUS
    <3> QED BY <3>1, RangePart
  <2>4. /\ Len(Instructions) = n + 2
        /\ \A k \in 1 .. n + 2 : Instructions[k] = IF k <= 2 THEN edges[k] ELSE r[k - 2]
    <3> HIDE DEF edges, r
    <3>1. Len(edges \o r) = Len(edges) + Len(r)
      BY <2>2, <2>3, ConcatProperties
    <3>2. \A k \in 1 .. Len(edges) + Len(r) :
            (edges \o r)[k] = IF k <= Len(edges) THEN edges[k] ELSE r[k - Len(edges)]
      BY <2>2, <2>3, ConcatProperties
    <3> QED BY <2>1, <2>2, <2>3, <3>1, <3>2
  <2> HIDE DEF edges, r, n
  <2>14. Instructions \in Seq(Instruction)
    BY <2>1, <2>2, <2>3, ConcatProperties
  <2>5. Instructions[1] = edges[1] /\ Instructions[2] = edges[2]
    BY <2>3, <2>4
  <2>6. \A k \in 3 .. n + 2 : k - 2 \in 1 .. n /\ Instructions[k] = r[k - 2]
    BY <2>3, <2>4
  <2>7. \A k \in 1 .. n : k + 2 \in 3 .. n + 2 /\ Instructions[k + 2] = r[k]
    BY <2>3, <2>4
  <2>8. LineOf(Line(job.addr)) = LineOf(job.addr) /\ LineOf(Line(Last)) = LineOf(Last)
    BY <2>0, StartOfLine
  <2>9. \A k \in 3 .. n + 2 : /\ Instructions[k].op = 17
                              /\ LineOf(Instructions[k].addr) \in LineOf(job.addr) .. LineOf(Last)
    BY <2>3, <2>6
  <2>10. \A k \in 1 .. n + 2 : Instructions[k].op \in {1, 17, 21}
    <3> SUFFICES ASSUME NEW k \in 1 .. n + 2 PROVE Instructions[k].op \in {1, 17, 21}
      OBVIOUS
    <3>1. k \in 3 .. n + 2 \/ k = 1 \/ k = 2
      BY <2>3
    <3> QED BY <2>2, <2>5, <2>9, <3>1
  <2>11. \A b \in Buf, s \in Slot : \E k \in 1 .. n + 2 : Meets(Instructions[k], s, LineOf(b))
    <3> SUFFICES ASSUME NEW b \in Buf, NEW s \in Slot
                 PROVE  \E k \in 1 .. n + 2 : Meets(Instructions[k], s, LineOf(b))
      OBVIOUS
    <3>1. PICK k \in 1 .. n : Meets(r[k], s, LineOf(b))
      BY <2>3 DEF Covers, n
    <3>2. k + 2 \in 1 .. n + 2
      BY <2>3
    <3> QED BY <2>7, <3>1, <3>2
  <2>12. n + 2 \in Nat \ {0} /\ n + 2 > 2
    BY <2>3
  <2>13. ~(job.size >= cache_size)
    BY <1>2
  <2> QED BY <2>2, <2>4, <2>5, <2>8, <2>9, <2>10, <2>11, <2>12, <2>13, <2>14
<1> QED BY <1>1, <1>2

LEMMA Addresses ==
  ASSUME job \in Jobs, NEW k \in 1 .. Len(Instructions)
  PROVE  Instructions[k].addr \in Nat /\ Instructions[k].op \in {0, 1, 16, 17, 21}
<1>1. Instructions \in Seq(Instruction)
  BY Calls, InCalls
<1>2. Instructions[k].addr \in Nat
  <2>1. Instructions[k] \in Instruction
    BY <1>1, ElementOfSeq
  <2> QED BY <2>1 DEF Instruction
<1>3. CASE job.kind = "in"
  BY <1>2, <1>3, InCalls
<1>4. CASE job.kind # "in"
  <2>1. k \in 1 .. Len(DPart) \/ k \in Len(DPart) + 1 .. Len(Instructions)
    BY <1>4, Calls
  <2> QED BY <1>2, <1>4, <2>1, Calls
<1> QED BY <1>3, <1>4

-----------------------------------------------------------------------------
\* What memory holds when slots have been written back.
LEMMA WritesBack ==
  ASSUME IInv, NEW S \in SUBSET Slot, NEW b \in Byte
  PROVE  /\ \A s \in S : dc[s].line = LineOf(b) => WrittenBack(S)[b] = dc[s].data[b % LineSize]
         /\ (\A s \in S : dc[s].line # LineOf(b)) => WrittenBack(S)[b] = mem[b]
<1> DEFINE H == S \cap Hit(dc, b)
<1>1. WrittenBack(S)[b] = IF \E s \in H : dc[s].dirty
                          THEN dc[CHOOSE s \in H : TRUE].data[b % LineSize] ELSE mem[b]
  BY DEF WrittenBack
<1>2. H = {s \in S : dc[s].line = LineOf(b)}
  BY DEF Hit
<1> HIDE DEF H
<1>3. ASSUME NEW s \in S, dc[s].line = LineOf(b)
      PROVE  WrittenBack(S)[b] = dc[s].data[b % LineSize]
  <2>1. s \in H /\ (CHOOSE t \in H : TRUE) \in H
    BY <1>2, <1>3
  <2>2. LineOf(b) # -1
    BY Bytes
  <2>3. (CHOOSE t \in H : TRUE) = s
    BY <1>2, <1>3, <2>1, <2>2 DEF IInv, Once
  <2>4. ~dc[s].dirty => dc[s].data[b % LineSize] = mem[b]
    BY <1>3 DEF IInv, CleanKept
  <2>5. \A t \in H : t = s
    BY <1>2, <1>3, <2>2 DEF IInv, Once
  <2>6. CASE dc[s].dirty
    <3>1. WrittenBack(S)[b] = dc[CHOOSE t \in H : TRUE].data[b % LineSize]
      BY <1>1, <2>1, <2>6
    <3> QED BY <3>1, <2>3
  <2>7. CASE ~dc[s].dirty
    <3>1. WrittenBack(S)[b] = mem[b]
      BY <1>1, <2>5, <2>7
    <3> QED BY <3>1, <2>4, <2>7
  <2> QED BY <2>6, <2>7
<1>4. (\A s \in S : dc[s].line # LineOf(b)) => WrittenBack(S)[b] = mem[b]
  BY <1>1, <1>2
<1> QED BY <1>3, <1>4

LEMMA Data_ ==
  ASSUME IInv, NEW S \in SUBSET Slot
  PROVE  WrittenBack(S) \in [Byte -> Data]
<1> SUFFICES ASSUME NEW b \in Byte PROVE WrittenBack(S)[b] \in Data
  BY DEF WrittenBack
<1>1. b % LineSize \in 0 .. LineSize - 1
  BY Bytes, Lined
<1>2. \A s \in S : dc[s].data[b % LineSize] \in Data
  BY <1>1 DEF IInv, Types, Held
<1>3. mem[b] \in Data
  BY DEF IInv, Types
<1> QED BY <1>2, <1>3, WritesBack

-----------------------------------------------------------------------------
\* The job stays, and with it the buffer and the instructions of the call.
LEMMA Static ==
  ASSUME job' = job
  PROVE  /\ Instructions' = Instructions /\ DPart' = DPart /\ Buf' = Buf
         /\ BufLines' = BufLines /\ Last' = Last
<1>1. Instructions' = Instructions /\ DPart' = DPart
  BY DEF Instructions, DPart
<1>2. Buf' = Buf /\ Last' = Last
  BY DEF Buf, Last
<1> QED BY <1>1, <1>2 DEF BufLines

LEMMA HeldLines ==
  ASSUME IInv
  PROVE  /\ \A s \in Slot : dc[s] \in Held /\ ic[s] \in Held
         /\ \A b \in Byte : LineOf(b) \in 0 .. Lines - 1 /\ LineOf(b) # -1
                            /\ b % LineSize \in 0 .. LineSize - 1
<1>1. \A s \in Slot : dc[s] \in Held /\ ic[s] \in Held
  BY DEF IInv, Types
<1>2. \A b \in Byte : LineOf(b) \in 0 .. Lines - 1 /\ b % LineSize \in 0 .. LineSize - 1
  BY Bytes, Lined
<1> QED BY <1>1, <1>2, Sizes

\* While the device runs, and when it is filled, no slot has a line of its buffer.
LEMMA Gone ==
  ASSUME IInv, phase = "device", job.kind = "in"
  PROVE  \A s \in Slot, b \in Buf : dc[s].line # LineOf(b)
<1>1. \A s \in Slot : ~DAhead(s)
  <2>1. issued = Len(Instructions) /\ issued \in Nat
    BY DEF IInv, Types
  <2>2. Ahead = {}
    BY <2>1 DEF Ahead
  <2> QED BY <2>2 DEF DAhead
<1>2. \A s \in Slot : dc[s].line \notin BufLines
  BY <1>1 DEF IInv, Emptied, Running
<1> QED BY <1>2 DEF BufLines

\* A line comes in, for a load or a store of b0: out goes another.
LEMMA FillKeeps ==
  ASSUME IInv, NEW b0 \in Byte, NEW s0 \in Slot, NEW l \in Held,
         Touchable(b0), Hit(dc, b0) = {},
         mem' = WrittenBack({s0}), dc' = [dc EXCEPT ![s0] = l],
         l.line = LineOf(b0),
         \A b \in Byte : LineOf(b) = LineOf(b0) /\ b # b0 => l.data[b % LineSize] = mem[b],
         l.data[b0 % LineSize] = want'[b0],
         ~l.dirty => l.data[b0 % LineSize] = mem[b0],
         want' \in [Byte -> Data], \A b \in Byte : b # b0 => want'[b] = want[b],
         UNCHANGED <<ic, job, phase, issued, filled>>
  PROVE  IInv'
<1>0. /\ Instructions' = Instructions /\ DPart' = DPart /\ Buf' = Buf
      /\ BufLines' = BufLines /\ Last' = Last /\ Running' = Running
  BY Static DEF Running
<1>1. \A s \in Slot : dc'[s] = IF s = s0 THEN l ELSE dc[s]
  BY DEF IInv, Types
<1>2. \A s \in Slot : dc[s].line # LineOf(b0)
  BY DEF Hit
<1>3. \A b \in Byte : /\ dc[s0].line = LineOf(b) => mem'[b] = dc[s0].data[b % LineSize]
                      /\ dc[s0].line # LineOf(b) => mem'[b] = mem[b]
  BY WritesBack
<1>4. \A b \in Byte : LineOf(b) # -1 /\ LineOf(b) \in Int
  BY HeldLines
<1>5. \A s \in Slot : s # s0 => DAhead(s)' = DAhead(s)
  BY <1>0, <1>1 DEF DAhead, Ahead
<1>6. Running => b0 \notin Buf
  BY DEF Touchable, Running
<1>7. Running /\ job.kind = "in" => LineOf(b0) \notin BufLines
  BY DEF Touchable, Running, BufLines
<1>8. \A b \in Byte : (phase = "program" \/ b \notin Buf \/ job.kind # "in")
                        => Shows(dc, b, want[b])
  BY DEF IInv, Whole
<1>9. Types'
  <2>1. mem' \in [Byte -> Data]
    BY Data_
  <2>2. dc' \in [Slot -> Held]
    BY DEF IInv, Types
  <2> QED BY <1>0, <2>1, <2>2 DEF IInv, Types
<1>10. Once(dc)' /\ Once(ic)'
  <2>1. Once(dc)'
    BY <1>1, <1>2 DEF IInv, Once
  <2> QED BY <2>1 DEF IInv, Once
<1>11. CleanKept'
  <2> SUFFICES ASSUME NEW s \in Slot, NEW b \in Byte, dc'[s].line = LineOf(b), ~dc'[s].dirty
               PROVE  dc'[s].data[b % LineSize] = mem'[b]
    BY DEF CleanKept
  <2>1. CASE s = s0
    <3>1. dc'[s] = l /\ LineOf(b) = LineOf(b0) /\ ~l.dirty
      BY <1>1, <2>1
    <3>2. mem'[b] = mem[b]
      BY <1>2, <1>3, <3>1
    <3>3. l.data[b % LineSize] = mem[b]
      BY <3>1
    <3> QED BY <3>1, <3>2, <3>3
  <2>2. CASE s # s0
    <3>0. dc'[s] = dc[s]
      BY <1>1, <2>2
    <3>1. dc[s0].line # LineOf(b)
      BY <1>4, <2>2, <3>0 DEF IInv, Once
    <3>2. mem'[b] = mem[b]
      BY <1>3, <3>1
    <3>3. dc[s].data[b % LineSize] = mem[b]
      BY <3>0 DEF IInv, CleanKept
    <3> QED BY <3>0, <3>2, <3>3
  <2> QED BY <2>1, <2>2
<1>12. Whole'
  <2> SUFFICES ASSUME NEW b \in Byte, phase = "program" \/ b \notin Buf \/ job.kind # "in"
               PROVE  Shows(dc, b, want[b])'
    BY <1>0 DEF Whole
  <2>1. Shows(dc, b, want[b])
    BY <1>8
  <2>2. CASE LineOf(b) = LineOf(b0)
    <3>1. mem[b] = want[b]
      BY <1>2, <2>1, <2>2 DEF Shows
    <3> QED BY <1>1, <1>2, <2>2, <3>1 DEF Shows
  <2>3. CASE LineOf(b) # LineOf(b0)
    <3>1. want'[b] = want[b]
      BY <2>3
    <3>2. ASSUME NEW s \in Slot, dc'[s].line = LineOf(b)
          PROVE  dc'[s].data[b % LineSize] = want'[b]
      <4>1. dc'[s] = dc[s]
        BY <1>1, <2>3, <3>2
      <4> QED BY <2>1, <3>1, <3>2, <4>1 DEF Shows
    <3>3. ASSUME \A s \in Slot : dc'[s].line # LineOf(b)
          PROVE  mem'[b] = want'[b]
      <4>1. CASE dc[s0].line = LineOf(b)
        BY <1>3, <2>1, <3>1, <4>1 DEF Shows
      <4>2. CASE dc[s0].line # LineOf(b)
        <5>1. \A s \in Slot : dc[s].line # LineOf(b)
          BY <1>1, <3>3, <4>2
        <5> QED BY <1>3, <2>1, <3>1, <4>2, <5>1 DEF Shows
      <4> QED BY <4>1, <4>2
    <3> QED BY <3>2, <3>3 DEF Shows
  <2> QED BY <2>2, <2>3
<1>13. Saved'
  <2> SUFFICES ASSUME Running, job.kind # "in", NEW b \in Buf
               PROVE  \/ mem'[b] = want'[b]
                      \/ \E s \in Slot : dc'[s].line = LineOf(b) /\ DAhead(s)'
    BY <1>0 DEF Saved
  <2>1. b \in Byte /\ want'[b] = want[b] /\ Shows(dc, b, want[b])
    BY <1>6, <1>8 DEF Buf
  <2>2. CASE dc[s0].line = LineOf(b)
    BY <1>3, <2>1, <2>2 DEF Shows
  <2>3. CASE dc[s0].line # LineOf(b)
    <3>1. mem'[b] = mem[b]
      BY <1>3, <2>1, <2>3
    <3>2. mem[b] = want[b] \/ \E s \in Slot : dc[s].line = LineOf(b) /\ DAhead(s)
      BY DEF IInv, Saved
    <3>3. ASSUME NEW s \in Slot, dc[s].line = LineOf(b), DAhead(s)
          PROVE  dc'[s].line = LineOf(b) /\ DAhead(s)'
      BY <1>1, <1>5, <2>3, <3>3
    <3> QED BY <2>1, <3>1, <3>2, <3>3
  <2> QED BY <2>2, <2>3
<1>14. Emptied'
  <2> SUFFICES ASSUME Running, job.kind = "in" PROVE Emptied'
    BY <1>0 DEF Emptied
  <2>1. ASSUME NEW s \in Slot, dc'[s].line \in BufLines
        PROVE  s # s0 /\ dc'[s] = dc[s] /\ DAhead(s)' = DAhead(s)
    BY <1>1, <1>5, <1>7, <2>1
  <2>2. \A b \in filled : mem'[b] = want'[b]
    <3> SUFFICES ASSUME NEW b \in filled PROVE mem'[b] = want'[b]
      OBVIOUS
    <3>1. b \in Buf /\ b \in Byte /\ phase = "device"
      BY DEF IInv, Types, Buf
    <3>2. dc[s0].line # LineOf(b)
      BY <3>1, Gone
    <3>3. mem[b] = want[b]
      BY DEF IInv, Emptied
    <3> QED BY <1>3, <1>6, <3>1, <3>2, <3>3
  <2>3. ASSUME NEW s \in Slot, dc'[s].line \in BufLines
        PROVE  /\ DAhead(s)'
               /\ job.size < cache_size => /\ dc'[s].line = LineOf(job.addr) => issued < 1
                                           /\ dc'[s].line = LineOf(Last) => issued < 2
    <3>1. dc'[s] = dc[s] /\ DAhead(s)' = DAhead(s)
      BY <2>1, <2>3
    <3> QED BY <2>3, <3>1 DEF IInv, Emptied
  <2> QED BY <1>0, <2>2, <2>3 DEF Emptied
<1>15. Refetched'
  <2> SUFFICES ASSUME Running PROVE Refetched'
    BY <1>0 DEF Refetched
  <2>1. \A b \in Buf : want'[b] = want[b]
    BY <1>6 DEF Buf
  <2>2. \A s \in Slot : IAhead(s)' = IAhead(s)
    BY <1>0 DEF IAhead, Ahead
  <2> QED BY <1>0, <2>1, <2>2 DEF IInv, Refetched
<1> QED BY <1>9, <1>10, <1>11, <1>12, <1>13, <1>14, <1>15 DEF IInv

LEMMA NothingKeeps ==
  ASSUME IInv, UNCHANGED vars
  PROVE  IInv'
<1>1. UNCHANGED <<mem, dc, ic, job, phase, issued, filled, want>>
  BY DEF vars
<1>2. /\ Instructions' = Instructions /\ DPart' = DPart /\ Buf' = Buf
      /\ BufLines' = BufLines /\ Last' = Last /\ Running' = Running
  BY <1>1, Static DEF Running
<1>3. \A s : DAhead(s)' = DAhead(s) /\ IAhead(s)' = IAhead(s)
  BY <1>1, <1>2 DEF DAhead, IAhead, Ahead
<1>4. Types' /\ Once(dc)' /\ Once(ic)' /\ CleanKept' /\ Whole'
  BY <1>1, <1>2 DEF IInv, Types, Once, CleanKept, Whole, Shows
<1>5. Saved' /\ Emptied' /\ Refetched'
  BY <1>1, <1>2, <1>3 DEF IInv, Saved, Emptied, Refetched
<1> QED BY <1>4, <1>5 DEF IInv

\* What a miss brings in.
LEMMA Brought ==
  ASSUME IInv, NEW b0 \in Byte
  PROVE  /\ Loaded(b0) \in Held /\ Loaded(b0).line = LineOf(b0) /\ ~Loaded(b0).dirty
         /\ DOMAIN Loaded(b0).data = 0 .. LineSize - 1
         /\ \A b \in Byte : LineOf(b) = LineOf(b0) => Loaded(b0).data[b % LineSize] = mem[b]
<1> DEFINE at(o) == LineOf(b0) * LineSize + o
           data == [o \in 0 .. LineSize - 1 |-> mem[at(o)]]
<1>1. LineOf(b0) \in 0 .. Lines - 1 /\ LineOf(b0) \in Nat
  BY Bytes
<1>2. \A o \in 0 .. LineSize - 1 : at(o) \in Byte
  <2>1. (LineOf(b0) + 1) * LineSize <= Lines * LineSize
    <3>1. LineOf(b0) + 1 \in Int /\ Lines \in Int /\ LineSize \in Nat /\ LineOf(b0) + 1 <= Lines
      BY <1>1, Sizes
    <3> QED BY <3>1, Grows
  <2>2. (LineOf(b0) + 1) * LineSize = LineOf(b0) * LineSize + LineSize
    BY <1>1, Sizes
  <2>3. LineOf(b0) * LineSize \in Nat /\ Lines * LineSize \in Nat
    BY <1>1, Sizes
  <2> QED BY <2>1, <2>2, <2>3, Sizes DEF Byte
<1>3. data \in [0 .. LineSize - 1 -> Data]
  <2> HIDE DEF at
  <2>1. \A o \in 0 .. LineSize - 1 : mem[at(o)] \in Data
    BY <1>2 DEF IInv, Types
  <2> QED BY <2>1
<1>4. Loaded(b0) = [line |-> LineOf(b0), dirty |-> FALSE, data |-> data]
  BY DEF Loaded
<1>5. ASSUME NEW b \in Byte, LineOf(b) = LineOf(b0)
      PROVE  data[b % LineSize] = mem[b]
  <2>1. b % LineSize \in 0 .. LineSize - 1 /\ at(b % LineSize) = b
    BY <1>5, Bytes, Lined
  <2> HIDE DEF at
  <2> QED BY <2>1
<1> HIDE DEF data
<1>6. LineOf(b0) \in -1 .. Lines - 1
  BY <1>1, Sizes
<1> QED BY <1>3, <1>4, <1>5, <1>6 DEF Held

LEMMA LoadKeeps ==
  ASSUME IInv, NEW b0 \in Byte, Load(b0)
  PROVE  IInv'
<1>1. PICK s0 \in Slot : /\ Access(b0, s0)
                         /\ dc' = IF Hit(dc, b0) # {} THEN dc
                                  ELSE [dc EXCEPT ![s0] = Loaded(b0)]
  BY DEF Load
<1>2. Touchable(b0) /\ UNCHANGED <<ic, job, phase, issued, filled, want>>
  BY DEF Load
<1>3. CASE Hit(dc, b0) # {}
  <2>1. UNCHANGED vars
    BY <1>1, <1>2, <1>3 DEF Access, vars
  <2> QED BY <2>1, NothingKeeps
<1>4. CASE Hit(dc, b0) = {}
  <2>1. mem' = WrittenBack({s0}) /\ dc' = [dc EXCEPT ![s0] = Loaded(b0)]
    BY <1>1, <1>4 DEF Access
  <2>2. mem[b0] = want[b0]
    <3>1. Shows(dc, b0, want[b0])
      BY <1>2 DEF IInv, Whole, Touchable
    <3> QED BY <1>4, <3>1 DEF Shows, Hit
  <2>3. want' \in [Byte -> Data]
    BY <1>2 DEF IInv, Types
  <2>4. Loaded(b0).data[b0 % LineSize] = mem[b0]
    BY Brought
  <2> QED BY <1>2, <1>4, <2>1, <2>2, <2>3, <2>4, Brought, FillKeeps
<1> QED BY <1>3, <1>4

\* A store to a line that is there.
LEMMA HitKeeps ==
  ASSUME IInv, NEW b0 \in Byte, NEW v \in Value, NEW s0 \in Slot, Touchable(b0),
         dc[s0].line = LineOf(b0), mem' = mem,
         dc' = [dc EXCEPT ![s0] = [dc[s0] EXCEPT !.dirty = TRUE, !.data[b0 % LineSize] = v]],
         want' = [want EXCEPT ![b0] = v],
         UNCHANGED <<ic, job, phase, issued, filled>>
  PROVE  IInv'
<1>0. /\ Instructions' = Instructions /\ DPart' = DPart /\ Buf' = Buf
      /\ BufLines' = BufLines /\ Last' = Last /\ Running' = Running
  BY Static DEF Running
<1>1. dc[s0] \in Held /\ b0 % LineSize \in 0 .. LineSize - 1 /\ LineOf(b0) # -1
  BY HeldLines
<1>2. /\ dc'[s0] \in Held /\ dc'[s0].line = LineOf(b0) /\ dc'[s0].dirty
      /\ dc'[s0].data = [dc[s0].data EXCEPT ![b0 % LineSize] = v]
      /\ \A s \in Slot : s # s0 => dc'[s] = dc[s]
  <2> DEFINE l == [dc[s0] EXCEPT !.dirty = TRUE, !.data[b0 % LineSize] = v]
  <2>1. l.line = dc[s0].line /\ l.dirty = TRUE
        /\ l.data = [dc[s0].data EXCEPT ![b0 % LineSize] = v] /\ l \in Held
    BY <1>1 DEF Held, Data
  <2> HIDE DEF l
  <2>2. dc'[s0] = l /\ \A s \in Slot : s # s0 => dc'[s] = dc[s]
    BY DEF IInv, Types, l
  <2> QED BY <2>1, <2>2
<1>3. \A s \in Slot : dc'[s].line = dc[s].line
  BY <1>2
<1>4. \A s \in Slot : DAhead(s)' = DAhead(s) /\ IAhead(s)' = IAhead(s)
  BY <1>0, <1>3 DEF DAhead, IAhead, Ahead
<1>5. Running => b0 \notin Buf
  BY DEF Touchable, Running
<1>6. want'[b0] = v /\ \A b \in Byte : b # b0 => want'[b] = want[b]
  BY DEF IInv, Types
<1>7. \A b \in Byte : dc'[s0].line = LineOf(b) =>
        dc'[s0].data[b % LineSize] = IF b = b0 THEN v ELSE dc[s0].data[b % LineSize]
  <2> SUFFICES ASSUME NEW b \in Byte, LineOf(b) = LineOf(b0)
               PROVE  dc'[s0].data[b % LineSize]
                        = IF b = b0 THEN v ELSE dc[s0].data[b % LineSize]
    BY <1>2
  <2>1. b # b0 => b % LineSize # b0 % LineSize
    BY Offsets
  <2>2. b % LineSize \in 0 .. LineSize - 1
    BY HeldLines
  <2>3. DOMAIN dc[s0].data = 0 .. LineSize - 1
    BY <1>1 DEF Held
  <2>4. \A o \in 0 .. LineSize - 1 :
          dc'[s0].data[o] = IF o = b0 % LineSize THEN v ELSE dc[s0].data[o]
    <3> DEFINE x == b0 % LineSize
               d == dc[s0].data
    <3>1. dc'[s0].data = [d EXCEPT ![x] = v] /\ DOMAIN d = 0 .. LineSize - 1
      BY <1>2, <2>3
    <3> HIDE DEF x, d
    <3>2. \A o \in 0 .. LineSize - 1 : dc'[s0].data[o] = IF o = x THEN v ELSE d[o]
      BY <3>1
    <3> QED BY <3>2 DEF x, d
  <2>5. CASE b = b0
    BY <2>2, <2>4, <2>5
  <2>6. CASE b # b0
    BY <2>1, <2>2, <2>4, <2>6
  <2> QED BY <2>5, <2>6
<1>8. Types'
  <2>1. want' \in [Byte -> Data] /\ dc' \in [Slot -> Held]
    BY <1>2 DEF IInv, Types, Data
  <2> QED BY <1>0, <2>1 DEF IInv, Types
<1>9. Once(dc)' /\ Once(ic)'
  BY <1>3 DEF IInv, Once
<1>10. CleanKept'
  <2> SUFFICES ASSUME NEW s \in Slot, NEW b \in Byte, dc'[s].line = LineOf(b), ~dc'[s].dirty
               PROVE  dc'[s].data[b % LineSize] = mem'[b]
    BY DEF CleanKept
  <2>1. s # s0 /\ dc'[s] = dc[s]
    BY <1>2
  <2> QED BY <2>1 DEF IInv, CleanKept
<1>11. Whole'
  <2> SUFFICES ASSUME NEW b \in Byte, phase = "program" \/ b \notin Buf \/ job.kind # "in"
               PROVE  Shows(dc, b, want[b])'
    BY <1>0 DEF Whole
  <2>1. Shows(dc, b, want[b])
    BY DEF IInv, Whole
  <2>2. ASSUME NEW s \in Slot, dc'[s].line = LineOf(b)
        PROVE  dc'[s].data[b % LineSize] = want'[b]
    <3>1. CASE s = s0
      BY <1>3, <1>6, <1>7, <2>1, <2>2, <3>1 DEF Shows
    <3>2. CASE s # s0
      <4>1. b # b0
        BY <1>1, <1>2, <1>3, <2>2, <3>2 DEF IInv, Once
      <4> QED BY <1>2, <1>6, <2>1, <2>2, <3>2, <4>1 DEF Shows
    <3> QED BY <3>1, <3>2
  <2>3. ASSUME \A s \in Slot : dc'[s].line # LineOf(b)
        PROVE  mem'[b] = want'[b]
    <3>1. b # b0 /\ \A s \in Slot : dc[s].line # LineOf(b)
      BY <1>3, <2>3
    <3> QED BY <1>6, <2>1, <3>1 DEF Shows
  <2> QED BY <2>2, <2>3 DEF Shows
<1>12. \A b \in Buf : Running => want'[b] = want[b]
  BY <1>5, <1>6 DEF Buf
<1>13. Saved' /\ Refetched'
  BY <1>0, <1>3, <1>4, <1>12 DEF IInv, Saved, Refetched
<1>14. Emptied'
  <2>1. \A b \in filled : b \in Buf
    BY DEF IInv, Types
  <2> QED BY <1>0, <1>3, <1>4, <1>12, <2>1 DEF IInv, Emptied
<1> QED BY <1>8, <1>9, <1>10, <1>11, <1>13, <1>14 DEF IInv

LEMMA StoreKeeps ==
  ASSUME IInv, NEW b0 \in Byte, NEW v \in Value, Store(b0, v)
  PROVE  IInv'
<1>1. PICK s0 \in Slot :
        /\ Access(b0, s0)
        /\ dc' = [dc EXCEPT ![s0] = [(IF Hit(dc, b0) # {} THEN @ ELSE Loaded(b0))
                                     EXCEPT !.dirty = TRUE, !.data[b0 % LineSize] = v]]
  BY DEF Store
<1>2. /\ Touchable(b0) /\ want' = [want EXCEPT ![b0] = v]
      /\ UNCHANGED <<ic, job, phase, issued, filled>>
  BY DEF Store
<1>3. CASE Hit(dc, b0) # {}
  <2>1. s0 \in Hit(dc, b0) /\ mem' = mem
    BY <1>1, <1>3 DEF Access
  <2>2. dc' = [dc EXCEPT ![s0] = [dc[s0] EXCEPT !.dirty = TRUE, !.data[b0 % LineSize] = v]]
    BY <1>1, <1>3
  <2>3. dc[s0].line = LineOf(b0)
    BY <2>1 DEF Hit
  <2> QED BY <1>2, <2>1, <2>2, <2>3, HitKeeps
<1>4. CASE Hit(dc, b0) = {}
  <2> DEFINE l == [Loaded(b0) EXCEPT !.dirty = TRUE, !.data[b0 % LineSize] = v]
             o == b0 % LineSize
  <2>1. mem' = WrittenBack({s0}) /\ dc' = [dc EXCEPT ![s0] = l]
    BY <1>1, <1>4 DEF Access
  <2>2. /\ Loaded(b0) \in Held /\ Loaded(b0).line = LineOf(b0)
        /\ DOMAIN Loaded(b0).data = 0 .. LineSize - 1 /\ o \in 0 .. LineSize - 1
    BY Brought, HeldLines
  <2>3. /\ l.line = LineOf(b0) /\ l.dirty = TRUE
        /\ l.data = [Loaded(b0).data EXCEPT ![o] = v] /\ l \in Held
    BY <2>2 DEF Held, Data
  <2> HIDE DEF l, o
  <2>4. \A x \in 0 .. LineSize - 1 : l.data[x] = IF x = o THEN v ELSE Loaded(b0).data[x]
    BY <2>2, <2>3
  <2>5. l.data[o] = v
    BY <2>2, <2>4
  <2>6. ASSUME NEW b \in Byte, LineOf(b) = LineOf(b0), b # b0
        PROVE  l.data[b % LineSize] = mem[b]
    <3>1. b % LineSize # o /\ b % LineSize \in 0 .. LineSize - 1
      BY <2>6, Offsets, HeldLines DEF o
    <3> QED BY <2>4, <2>6, <3>1, Brought
  <2>7. want'[b0] = v /\ \A b \in Byte : b # b0 => want'[b] = want[b]
    BY <1>2 DEF IInv, Types
  <2>8. want' \in [Byte -> Data]
    BY <1>2 DEF IInv, Types, Data
  <2>9. l.data[b0 % LineSize] = want'[b0]
    BY <2>5, <2>7 DEF o
  <2> QED BY <1>2, <1>4, <2>1, <2>3, <2>6, <2>7, <2>8, <2>9, FillKeeps
<1> QED BY <1>3, <1>4

LEMMA FetchKeeps ==
  ASSUME IInv, NEW b0 \in Byte, Fetch(b0)
  PROVE  IInv'
<1>1. PICK s0 \in Slot : ic' = [ic EXCEPT ![s0] = Loaded(b0)]
  BY DEF Fetch
<1>2. /\ job.kind = "code" /\ \A s \in Slot : ic[s].line # LineOf(b0)
      /\ UNCHANGED <<mem, dc, job, phase, issued, filled, want>>
  BY DEF Fetch, Hit
<1>0. /\ Instructions' = Instructions /\ DPart' = DPart /\ Buf' = Buf
      /\ BufLines' = BufLines /\ Last' = Last /\ Running' = Running
  BY <1>2, Static DEF Running
<1>3. \A s \in Slot : ic'[s] = IF s = s0 THEN Loaded(b0) ELSE ic[s]
  BY <1>1 DEF IInv, Types
<1>4. Types' /\ Once(dc)' /\ CleanKept' /\ Whole'
  <2>1. ic' \in [Slot -> Held]
    BY <1>1, Brought DEF IInv, Types
  <2> QED BY <1>0, <1>2, <2>1 DEF IInv, Types, Once, CleanKept, Whole, Shows
<1>5. Once(ic)'
  <2>1. Loaded(b0).line = LineOf(b0)
    BY Brought
  <2> QED BY <1>2, <1>3, <2>1 DEF IInv, Once
<1>6. \A s : DAhead(s)' = DAhead(s)
  BY <1>0, <1>2 DEF DAhead, Ahead
<1>7. Saved' /\ Emptied'
  BY <1>0, <1>2, <1>6 DEF IInv, Saved, Emptied
<1>8. Refetched'
  <2> SUFFICES ASSUME Running, issued >= Len(DPart), NEW b \in Buf, NEW s \in Slot,
                      ic'[s].line = LineOf(b)
               PROVE  ic'[s].data[b % LineSize] = want[b] \/ IAhead(s)'
    BY <1>0, <1>2 DEF Refetched
  <2>1. CASE s # s0
    <3>1. ic'[s] = ic[s] /\ IAhead(s)' = IAhead(s)
      BY <1>0, <1>2, <1>3, <2>1 DEF IAhead, Ahead
    <3> QED BY <1>2, <3>1 DEF IInv, Refetched
  <2>2. CASE s = s0
    <3>1. b \in Byte /\ ic'[s] = Loaded(b0) /\ LineOf(b) = LineOf(b0)
      BY <1>3, <2>2, Brought DEF Buf
    <3>2. ic'[s].data[b % LineSize] = mem[b]
      BY <3>1, Brought
    <3>3. \A t : ~DAhead(t)
      <4>1. job \in Jobs /\ issued \in Nat
        BY DEF IInv, Types
      <4>2. /\ Len(DPart) \in 1 .. Len(Instructions) /\ Len(Instructions) \in Nat
            /\ \A k \in Len(DPart) + 1 .. Len(Instructions) : Instructions[k].op \in {0, 16}
        BY <1>2, <4>1, Calls
      <4>3. \A k \in Ahead : k \in Len(DPart) + 1 .. Len(Instructions)
        BY <4>1, <4>2 DEF Ahead
      <4> QED BY <4>2, <4>3 DEF DAhead
    <3>4. mem[b] = want[b]
      BY <1>2, <3>3 DEF IInv, Saved
    <3> QED BY <3>2, <3>4
  <2> QED BY <2>1, <2>2
<1> QED BY <1>4, <1>5, <1>7, <1>8 DEF IInv

LEMMA CallKeeps ==
  ASSUME IInv, Call
  PROVE  IInv'
<1>1. /\ phase = "program" /\ phase' = "call" /\ issued = 0 /\ filled = {} /\ job \in Jobs
      /\ UNCHANGED <<mem, dc, ic, job, issued, filled, want>>
  BY DEF Call, IInv, Types
<1>2. /\ Instructions' = Instructions /\ DPart' = DPart /\ Buf' = Buf
      /\ BufLines' = BufLines /\ Last' = Last
  BY <1>1, Static
<1>3. Len(Instructions) \in Nat \ {0}
  BY <1>1, Calls, InCalls
<1>4. Types' /\ Once(dc)' /\ Once(ic)' /\ CleanKept' /\ Whole'
  BY <1>1, <1>2, <1>3 DEF IInv, Types, Once, CleanKept, Whole, Shows
<1>5. Ahead' = 1 .. Len(Instructions)
  BY <1>1, <1>2 DEF Ahead
<1>6. ASSUME NEW b \in Buf, NEW s \in Slot, dc[s].line = LineOf(b)
      PROVE  DAhead(s)'
  <2>1. CASE job.kind # "in"
    <3>1. PICK k \in 1 .. Len(DPart) : Meets(Instructions[k], s, LineOf(b))
      BY <1>1, <2>1, Calls
    <3>2. k \in 1 .. Len(Instructions) /\ Instructions[k].op % 4 # 0
      <4>1. Instructions[k].op \in {1, 21} /\ Len(DPart) \in 1 .. Len(Instructions)
        BY <1>1, <2>1, Calls
      <4>2. 1 % 4 # 0 /\ 21 % 4 # 0
        OBVIOUS
      <4> QED BY <1>3, <4>1, <4>2
    <3> QED BY <1>1, <1>2, <1>5, <1>6, <3>1, <3>2 DEF DAhead
  <2>2. CASE job.kind = "in"
    <3>1. PICK k \in 1 .. Len(Instructions) : Meets(Instructions[k], s, LineOf(b))
      BY <1>1, <2>2, InCalls
    <3>2. Instructions[k].op % 4 # 0
      <4>1. Instructions[k].op \in {1, 17, 21}
        BY <1>1, <2>2, InCalls
      <4>2. 1 % 4 # 0 /\ 17 % 4 # 0 /\ 21 % 4 # 0
        OBVIOUS
      <4> QED BY <4>1, <4>2
    <3> QED BY <1>1, <1>2, <1>5, <1>6, <3>1, <3>2 DEF DAhead
  <2> QED BY <2>1, <2>2
<1>7. Saved'
  <2> SUFFICES ASSUME NEW b \in Buf
               PROVE  \/ mem[b] = want[b]
                      \/ \E s \in Slot : dc[s].line = LineOf(b) /\ DAhead(s)'
    BY <1>1, <1>2 DEF Saved
  <2>1. Shows(dc, b, want[b])
    BY <1>1 DEF IInv, Whole, Buf
  <2> QED BY <1>6, <2>1 DEF Shows
<1>8. Emptied'
  <2>1. \A s \in Slot : dc[s].line \in BufLines => DAhead(s)'
    BY <1>6 DEF BufLines
  <2> QED BY <1>1, <1>2, <2>1 DEF Emptied
<1>9. Refetched'
  <2>1. job.kind = "code" => Len(DPart) \in 1 .. Len(Instructions)
    BY <1>1, Calls
  <2> QED BY <1>1, <1>2, <1>3, <2>1 DEF Refetched
<1> QED BY <1>4, <1>7, <1>8, <1>9 DEF IInv

\* A slot the instruction meets, and one it does not.
LEMMA SlotsMet ==
  ASSUME IInv, NEW i, i.op \in {0, 1, 16, 17, 21}, i.addr \in Nat
  PROVE  /\ Slots(i) \in SUBSET Slot
         /\ \A s \in Slot :
              s \in Slots(i) <=> Meets(i, s, (IF i.op % 4 = 0 THEN ic ELSE dc)[s].line)
<1>1. CASE i.op \div 4 = 0
  <2> DEFINE x == <<(i.addr \div waysize) % Ways, LineOf(i.addr) % Sets>>
  <2>1. x \in Slot
    <3>1. waysize \in Nat \ {0}
      BY Sizes DEF waysize
    <3>2. i.addr \div waysize \in Nat /\ LineOf(i.addr) \in Nat
      <4> DEFINE a == i.addr
      <4>1. a \in Nat
        OBVIOUS
      <4> HIDE DEF a
      <4>2. a \div waysize \in Nat /\ LineOf(a) \in Nat
        BY <3>1, <4>1, Lined
      <4> QED BY <4>2 DEF a
    <3>3. (i.addr \div waysize) % Ways \in 0 .. Ways - 1 /\ LineOf(i.addr) % Sets \in 0 .. Sets - 1
      BY <3>2, Sizes
    <3> QED BY <3>3 DEF Slot
  <2>2. Slots(i) = {x}
    BY <1>1 DEF Slots
  <2>3. \A s, l : Meets(i, s, l) <=> s = x
    BY <1>1 DEF Meets
  <2> QED BY <2>1, <2>2, <2>3
<1>2. CASE i.op \div 4 # 0
  BY <1>2 DEF Slots, Meets, Hit
<1> QED BY <1>1, <1>2

\* An instruction to the instruction cache.
LEMMA IOpKeeps ==
  ASSUME IInv, CacheOp, Instructions[issued + 1].op % 4 = 0
  PROVE  IInv'
<1> DEFINE k0 == issued + 1
           i == Instructions[k0]
           S == Slots(i)
<1>1. /\ phase = "call" /\ issued < Len(Instructions) /\ issued \in Nat /\ filled = {}
      /\ job \in Jobs /\ UNCHANGED <<mem, dc, job, filled, want>> /\ issued' = k0
      /\ phase' = (IF k0 = Len(Instructions) THEN "device" ELSE "call")
      /\ ic' = Cleared(ic, S)
  BY DEF CacheOp, cache_op, IInv, Types
<1>2. /\ Instructions' = Instructions /\ DPart' = DPart /\ Buf' = Buf
      /\ BufLines' = BufLines /\ Last' = Last
  BY <1>1, Static
<1>3. /\ Running /\ Running' /\ Len(Instructions) \in Nat /\ k0 \in 1 .. Len(Instructions)
  BY <1>1, Calls, InCalls DEF Running
<1>4. job.kind # "in"
  <2>1. 1 % 4 # 0 /\ 17 % 4 # 0 /\ 21 % 4 # 0
    OBVIOUS
  <2>2. ASSUME job.kind = "in" PROVE i.op \in {1, 17, 21}
    BY <1>1, <1>3, <2>2, InCalls
  <2> QED BY <2>1, <2>2
<1>5. Len(DPart) <= issued /\ Len(DPart) \in Nat
  <2>1. /\ Len(DPart) \in 1 .. Len(Instructions)
        /\ \A k \in 1 .. Len(DPart) : Instructions[k].op \in {1, 21}
    BY <1>1, <1>4, Calls
  <2>2. 1 % 4 # 0 /\ 21 % 4 # 0
    OBVIOUS
  <2>3. ~(k0 \in 1 .. Len(DPart))
    BY <2>1, <2>2
  <2> QED BY <1>1, <1>3, <2>1, <2>3
<1>6. \A s \in Slot : ic'[s] = IF s \in S THEN Empty ELSE ic[s]
  BY <1>1 DEF Cleared
<1>7. Empty.line = -1 /\ Empty \in Held
  BY Sizes DEF Empty, Held, Data
<1>8. Ahead = Ahead' \cup {k0} /\ Ahead' \subseteq Ahead
  BY <1>1, <1>2, <1>3 DEF Ahead
<1>9. \A s : DAhead(s)' = DAhead(s)
  BY <1>1, <1>2, <1>8 DEF DAhead
<1>10. Types' /\ Once(dc)' /\ CleanKept' /\ Whole'
  <2>1. ic' \in [Slot -> Held]
    <3>1. \A s \in Slot : ic'[s] \in Held
      BY <1>6, <1>7 DEF IInv, Types
    <3> QED BY <1>1, <3>1 DEF Cleared
  <2>2. Types'
    BY <1>1, <1>2, <1>3, <2>1 DEF IInv, Types
  <2> QED BY <1>1, <1>2, <1>4, <2>2 DEF IInv, Once, CleanKept, Whole, Shows
<1>11. Once(ic)'
  BY <1>6, <1>7 DEF IInv, Once
<1>12. Saved' /\ Emptied'
  BY <1>1, <1>2, <1>3, <1>4, <1>9 DEF IInv, Saved, Emptied
<1>13. Refetched'
  <2> SUFFICES ASSUME job.kind = "code", NEW b \in Buf, NEW s \in Slot, ic'[s].line = LineOf(b)
               PROVE  ic'[s].data[b % LineSize] = want[b] \/ IAhead(s)'
    BY <1>1, <1>2 DEF Refetched
  <2>1. LineOf(b) # -1
    BY Bytes DEF Buf
  <2>2. s \notin S /\ ic'[s] = ic[s]
    BY <1>6, <1>7, <2>1
  <2>3. ic[s].data[b % LineSize] = want[b] \/ IAhead(s)
    BY <1>3, <1>5, <2>2 DEF IInv, Refetched
  <2>4. ASSUME IAhead(s) PROVE IAhead(s)'
    <3>1. PICK k \in Ahead : /\ Instructions[k].op % 4 = 0
                             /\ Meets(Instructions[k], s, ic[s].line)
      BY <2>4 DEF IAhead
    <3>2. k # k0
      <4>1. i.op \in {0, 1, 16, 17, 21} /\ i.addr \in Nat
        BY <1>1, <1>3, <1>4, Calls, Addresses
      <4>2. s \in S <=> Meets(i, s, ic[s].line)
        BY <4>1, SlotsMet
      <4> QED BY <2>2, <3>1, <4>2
    <3> QED BY <1>2, <1>8, <2>2, <3>1, <3>2 DEF IAhead
  <2> QED BY <2>2, <2>3, <2>4
<1> QED BY <1>10, <1>11, <1>12, <1>13 DEF IInv

\* A line is all in memory, or not at all.
LEMMA WholeLines ==
  ASSUME NEW b \in Byte, NEW a \in Nat, LineOf(a) = LineOf(b)
  PROVE  a \in Byte
<1> DEFINE l == LineOf(a)
<1>1. l \in 0 .. Lines - 1 /\ l \in Nat /\ l + 1 <= Lines
  BY Bytes, Sizes
<1>2. a = l * LineSize + (a % LineSize) /\ a % LineSize \in 0 .. LineSize - 1
  BY Lined
<1> HIDE DEF l
<1>3. (l + 1) * LineSize <= Lines * LineSize
  <2>1. l + 1 \in Int /\ Lines \in Int /\ LineSize \in Nat
    BY <1>1, Sizes
  <2> QED BY <1>1, <2>1, Grows
<1>4. (l + 1) * LineSize = l * LineSize + LineSize
  BY <1>1, Sizes
<1>5. l * LineSize \in Nat /\ Lines * LineSize \in Nat
  BY <1>1, Sizes
<1> QED BY <1>2, <1>3, <1>4, <1>5, Sizes DEF Byte

\* What is invalidated holds only the buffer.
LEMMA OnlyTheBuffer ==
  ASSUME IInv, phase = "call", job.kind = "in", Instructions[issued + 1].op = 17,
         NEW b \in Byte, NEW s \in Slot,
         dc[s].line = LineOf(b), LineOf(b) = LineOf(Instructions[issued + 1].addr)
  PROVE  b \in Buf
<1>1. job \in Jobs /\ issued \in Nat /\ issued < Len(Instructions) /\ b \in Nat
  BY Bytes DEF IInv, Types
<1>2. Len(Instructions) \in Nat \ {0} /\ issued + 1 \in 1 .. Len(Instructions)
  BY <1>1, InCalls
<1>3. job.size < cache_size
  <2>1. ~(job.size >= cache_size)
    BY <1>1, <1>2, InCalls
  <2>2. cache_size \in Int /\ job.size \in Int
    BY <1>1, Sizes, JobTypes DEF cache_size, waysize
  <2> QED BY <2>1, <2>2
<1>4. issued + 1 \in 3 .. Len(Instructions)
  <2>1. issued + 1 # 1 /\ issued + 1 # 2
    BY <1>1, <1>3, InCalls
  <2> QED BY <1>2, <2>1
<1>5. LineOf(b) \in LineOf(job.addr) .. LineOf(Last)
  BY <1>1, <1>3, <1>4, InCalls
<1>6. job.addr \in Nat /\ Last \in Nat /\ job.addr <= Last
  BY <1>1, JobTypes
<1>7. ASSUME NEW a \in {job.addr, Last}
      PROVE  LineOf(b) # LineOf(a)
  <2> SUFFICES ASSUME LineOf(b) = LineOf(a) PROVE FALSE
    OBVIOUS
  <2>1. a \in Byte
    BY <1>6, WholeLines
  <2>2. a \in Buf
    BY <1>1, <1>6, <2>1, JobTypes
  <2>3. dc[s].line \in BufLines
    BY <2>2 DEF BufLines
  <2>4. issued < 2
    BY <1>1, <1>3, <2>3 DEF IInv, Emptied, Running
  <2> QED BY <1>1, <1>4, <2>4
<1>8. LineOf(job.addr) < LineOf(b) /\ LineOf(b) < LineOf(Last)
  <2>1. LineOf(job.addr) \in Nat /\ LineOf(Last) \in Nat /\ LineOf(b) \in Nat
    BY <1>1, <1>6, Lined
  <2>2. LineOf(b) # LineOf(job.addr) /\ LineOf(b) # LineOf(Last)
    BY <1>7
  <2> QED BY <1>5, <2>1, <2>2
<1>9. ~(b <= job.addr) /\ ~(Last <= b)
  <2>1. LineOf(job.addr) \in Nat /\ LineOf(Last) \in Nat /\ LineOf(b) \in Nat
    BY <1>1, <1>6, Lined
  <2>2. b <= job.addr => LineOf(b) <= LineOf(job.addr)
    BY <1>1, <1>6, LinesInOrder
  <2>3. Last <= b => LineOf(Last) <= LineOf(b)
    BY <1>1, <1>6, LinesInOrder
  <2> QED BY <1>8, <2>1, <2>2, <2>3
<1> QED BY <1>1, <1>6, <1>9, JobTypes

\* An instruction to the data cache.
LEMMA DOpKeeps ==
  ASSUME IInv, CacheOp, Instructions[issued + 1].op % 4 # 0
  PROVE  IInv'
<1> DEFINE k0 == issued + 1
           i == Instructions[k0]
           S == Slots(i)
<1>1. /\ phase = "call" /\ issued < Len(Instructions) /\ issued \in Nat /\ filled = {}
      /\ job \in Jobs /\ UNCHANGED <<ic, job, filled, want>> /\ issued' = k0
      /\ phase' = (IF k0 = Len(Instructions) THEN "device" ELSE "call")
      /\ dc' = Cleared(dc, S)
      /\ mem' = IF i.op = 17 THEN mem ELSE WrittenBack(S)
  BY DEF CacheOp, cache_op, IInv, Types, Hit_Invalidate_D
<1>2. /\ Instructions' = Instructions /\ DPart' = DPart /\ Buf' = Buf
      /\ BufLines' = BufLines /\ Last' = Last
  BY <1>1, Static
<1>3. /\ Running /\ Running' /\ Len(Instructions) \in Nat /\ k0 \in 1 .. Len(Instructions)
  BY <1>1, Calls, InCalls DEF Running
<1>4. i.op \in {0, 1, 16, 17, 21} /\ i.addr \in Nat
  BY <1>1, <1>3, Addresses
<1>5. S \in SUBSET Slot /\ \A s \in Slot : s \in S <=> Meets(i, s, dc[s].line)
  BY <1>4, SlotsMet
<1>6. job.kind # "in" => i.op # 17 /\ k0 \in 1 .. Len(DPart)
  <2> SUFFICES ASSUME job.kind # "in" PROVE i.op # 17 /\ k0 \in 1 .. Len(DPart)
    OBVIOUS
  <2>1. /\ Len(DPart) \in 1 .. Len(Instructions)
        /\ \A k \in 1 .. Len(DPart) : Instructions[k].op \in {1, 21}
        /\ \A k \in Len(DPart) + 1 .. Len(Instructions) : Instructions[k].op \in {0, 16}
    BY <1>1, Calls
  <2>2. 0 % 4 = 0 /\ 16 % 4 = 0
    OBVIOUS
  <2>3. ~(k0 \in Len(DPart) + 1 .. Len(Instructions))
    BY <2>1, <2>2
  <2>4. k0 \in 1 .. Len(DPart)
    BY <1>1, <1>3, <2>1, <2>3
  <2> QED BY <2>1, <2>4
<1>7. \A s \in Slot : dc'[s] = IF s \in S THEN Empty ELSE dc[s]
  BY <1>1 DEF Cleared
<1>8. /\ Empty.line = -1 /\ Empty \in Held
      /\ \A b \in Byte : LineOf(b) # -1 /\ b % LineSize \in 0 .. LineSize - 1
  BY Sizes, HeldLines DEF Empty, Held, Data
<1>9. Ahead = Ahead' \cup {k0} /\ Ahead' \subseteq Ahead
  BY <1>1, <1>2, <1>3 DEF Ahead
<1>10. ASSUME NEW s \in Slot, s \notin S, DAhead(s)
       PROVE  DAhead(s)'
  <2>1. PICK k \in Ahead : /\ Instructions[k].op % 4 # 0
                           /\ Meets(Instructions[k], s, dc[s].line)
    BY <1>10 DEF DAhead
  <2>2. k # k0
    BY <1>5, <1>10, <2>1
  <2> QED BY <1>2, <1>7, <1>9, <1>10, <2>1, <2>2 DEF DAhead
<1> HIDE DEF S, i
<1>11. ASSUME NEW b \in Byte, b \notin Buf \/ job.kind # "in", NEW s \in S,
              dc[s].line = LineOf(b)
       PROVE  mem'[b] = dc[s].data[b % LineSize]
  <2>1. i.op # 17
    <3> SUFFICES ASSUME i.op = 17 PROVE FALSE
      OBVIOUS
    <3>1. s \in Slot /\ Meets(i, s, dc[s].line) /\ job.kind = "in"
      BY <1>5, <1>6
    <3>2. 17 \div 4 # 0
      OBVIOUS
    <3>3. dc[s].line = LineOf(i.addr)
      BY <3>1, <3>2 DEF Meets
    <3> QED BY <1>1, <1>11, <3>1, <3>3, OnlyTheBuffer DEF i
  <2>2. mem' = WrittenBack(S)
    BY <1>1, <2>1
  <2> QED BY <1>5, <1>11, <2>2, WritesBack
<1>12. ASSUME NEW b \in Byte, \A s \in S : dc[s].line # LineOf(b)
       PROVE  mem'[b] = mem[b]
  BY <1>1, <1>5, <1>12, WritesBack
<1>13. ASSUME NEW b \in Byte, NEW s \in Slot, dc'[s].line = LineOf(b)
       PROVE  s \notin S /\ dc'[s] = dc[s] /\ mem'[b] = mem[b]
  <2>1. s \notin S /\ dc'[s] = dc[s]
    BY <1>7, <1>8, <1>13
  <2>2. \A t \in S : dc[t].line # LineOf(b)
    BY <1>5, <1>8, <1>13, <2>1 DEF IInv, Once
  <2> QED BY <1>12, <2>1, <2>2
<1>14. Types'
  <2>1. mem' \in [Byte -> Data]
    BY <1>1, <1>5, Data_ DEF IInv, Types
  <2>2. dc' \in [Slot -> Held]
    <3>1. \A s \in Slot : dc'[s] \in Held
      BY <1>7, <1>8 DEF IInv, Types
    <3> QED BY <1>1, <3>1 DEF Cleared
  <2> QED BY <1>1, <1>2, <1>3, <2>1, <2>2 DEF IInv, Types
<1>15. Once(dc)' /\ Once(ic)'
  BY <1>1, <1>7, <1>8 DEF IInv, Once
<1>16. CleanKept'
  BY <1>13 DEF IInv, CleanKept
<1>17. ASSUME NEW b \in Byte, b \notin Buf \/ job.kind # "in"
       PROVE  /\ Shows(dc, b, want[b])
              /\ \A s \in S : dc[s].line = LineOf(b) => mem'[b] = want[b]
  <2>1. Shows(dc, b, want[b])
    BY <1>17 DEF IInv, Whole
  <2> QED BY <1>5, <1>11, <1>17, <2>1 DEF Shows
<1>18. Whole'
  <2> SUFFICES ASSUME NEW b \in Byte, b \notin Buf \/ job.kind # "in"
               PROVE  Shows(dc, b, want[b])'
    BY <1>1, <1>2 DEF Whole
  <2>1. ASSUME NEW s \in Slot, dc'[s].line = LineOf(b)
        PROVE  dc'[s].data[b % LineSize] = want'[b]
    BY <1>1, <1>13, <1>17, <2>1 DEF Shows
  <2>2. ASSUME \A s \in Slot : dc'[s].line # LineOf(b)
        PROVE  mem'[b] = want'[b]
    <3>1. CASE \E s \in S : dc[s].line = LineOf(b)
      BY <1>1, <1>17, <3>1
    <3>2. CASE \A s \in S : dc[s].line # LineOf(b)
      <4>1. \A s \in Slot : dc[s].line # LineOf(b)
        BY <1>7, <2>2, <3>2
      <4> QED BY <1>1, <1>12, <1>17, <3>2, <4>1 DEF Shows
    <3> QED BY <3>1, <3>2
  <2> QED BY <2>1, <2>2 DEF Shows
<1>19. Saved'
  <2> SUFFICES ASSUME job.kind # "in", NEW b \in Buf
               PROVE  \/ mem'[b] = want[b]
                      \/ \E s \in Slot : dc'[s].line = LineOf(b) /\ DAhead(s)'
    BY <1>1, <1>2 DEF Saved
  <2>1. b \in Byte
    BY DEF Buf
  <2>2. CASE \E s \in S : dc[s].line = LineOf(b)
    BY <1>17, <2>1, <2>2
  <2>3. CASE \A s \in S : dc[s].line # LineOf(b)
    <3>1. mem'[b] = mem[b]
      BY <1>12, <2>1, <2>3
    <3>2. mem[b] = want[b] \/ \E s \in Slot : dc[s].line = LineOf(b) /\ DAhead(s)
      BY <1>3 DEF IInv, Saved
    <3>3. ASSUME NEW s \in Slot, dc[s].line = LineOf(b), DAhead(s)
          PROVE  dc'[s].line = LineOf(b) /\ DAhead(s)'
      BY <1>7, <1>10, <2>3, <3>3
    <3> QED BY <3>1, <3>2, <3>3
  <2> QED BY <2>2, <2>3
<1>20. Emptied'
  <2> SUFFICES ASSUME job.kind = "in", NEW s \in Slot, dc'[s].line \in BufLines
               PROVE  /\ DAhead(s)'
                      /\ job.size < cache_size =>
                           /\ dc'[s].line = LineOf(job.addr) => issued' < 1
                           /\ dc'[s].line = LineOf(Last) => issued' < 2
    BY <1>1, <1>2 DEF Emptied
  <2>1. s \notin S /\ dc'[s] = dc[s]
    BY <1>7, <1>8 DEF BufLines, Buf
  <2>2. /\ DAhead(s)
        /\ job.size < cache_size => /\ dc[s].line = LineOf(job.addr) => issued < 1
                                    /\ dc[s].line = LineOf(Last) => issued < 2
    BY <1>3, <2>1 DEF IInv, Emptied
  <2>3. ~Meets(i, s, dc[s].line)
    BY <1>5, <2>1
  <2>4. 21 \div 4 # 0
    OBVIOUS
  <2>5. ASSUME job.size < cache_size, dc[s].line = LineOf(job.addr) PROVE FALSE
    <3>1. k0 = 1
      BY <1>1, <2>2, <2>5
    <3>2. i.op = 21 /\ LineOf(i.addr) = LineOf(job.addr)
      BY <1>1, <2>5, <3>1, InCalls DEF i
    <3> QED BY <2>3, <2>4, <2>5, <3>2 DEF Meets
  <2>6. ASSUME job.size < cache_size, dc[s].line = LineOf(Last) PROVE k0 < 2
    <3>1. k0 # 2
      <4> SUFFICES ASSUME k0 = 2 PROVE FALSE
        OBVIOUS
      <4>1. i.op = 21 /\ LineOf(i.addr) = LineOf(Last)
        BY <1>1, <2>6, InCalls DEF i
      <4> QED BY <2>3, <2>4, <2>6, <4>1 DEF Meets
    <3> QED BY <1>1, <2>2, <2>6, <3>1
  <2> QED BY <1>1, <1>10, <2>1, <2>2, <2>5, <2>6
<1>21. Refetched'
  <2> SUFFICES ASSUME job.kind = "code", k0 >= Len(DPart), NEW b \in Buf, NEW s \in Slot,
                      ic[s].line = LineOf(b)
               PROVE  IAhead(s)'
    BY <1>1, <1>2 DEF Refetched
  <2>1. k0 = Len(DPart)
    BY <1>1, <1>6
  <2>2. PICK k \in Len(DPart) + 1 .. Len(Instructions) : Meets(Instructions[k], s, LineOf(b))
    BY <1>1, Calls
  <2>3. Instructions[k].op % 4 = 0
    <3>1. Instructions[k].op \in {0, 16}
      BY <1>1, Calls
    <3>2. 0 % 4 = 0 /\ 16 % 4 = 0
      OBVIOUS
    <3> QED BY <3>1, <3>2
  <2>4. Ahead' = Len(DPart) + 1 .. Len(Instructions)
    BY <1>1, <1>2, <2>1 DEF Ahead
  <2> QED BY <1>1, <1>2, <2>2, <2>3, <2>4 DEF IAhead
<1> QED BY <1>14, <1>15, <1>16, <1>18, <1>19, <1>20, <1>21 DEF IInv

LEMMA DeviceKeeps ==
  ASSUME IInv, NEW b0 \in Byte, NEW v \in Value, DeviceWrites(b0, v)
  PROVE  IInv'
<1>1. /\ phase = "device" /\ job.kind = "in" /\ b0 \in Buf
      /\ mem' = [mem EXCEPT ![b0] = v] /\ want' = [want EXCEPT ![b0] = v]
      /\ filled' = filled \cup {b0} /\ UNCHANGED <<dc, ic, job, phase, issued>>
  BY DEF DeviceWrites
<1>2. /\ Instructions' = Instructions /\ DPart' = DPart /\ Buf' = Buf
      /\ BufLines' = BufLines /\ Last' = Last /\ Running' = Running
  BY <1>1, Static DEF Running
<1>3. mem'[b0] = v /\ want'[b0] = v
      /\ \A b \in Byte : b # b0 => mem'[b] = mem[b] /\ want'[b] = want[b]
  BY <1>1 DEF IInv, Types
<1>4. \A s \in Slot, b \in Buf : dc[s].line # LineOf(b)
  BY <1>1, Gone
<1>5. \A s : DAhead(s)' = DAhead(s)
  BY <1>1, <1>2 DEF DAhead, Ahead
<1>6. Types'
  <2>1. mem' \in [Byte -> Data] /\ want' \in [Byte -> Data]
    BY <1>1 DEF IInv, Types, Data
  <2> QED BY <1>1, <1>2, <2>1 DEF IInv, Types
<1>7. Once(dc)' /\ Once(ic)'
  BY <1>1 DEF IInv, Once
<1>8. CleanKept'
  <2> SUFFICES ASSUME NEW s \in Slot, NEW b \in Byte, dc[s].line = LineOf(b), ~dc[s].dirty
               PROVE  dc[s].data[b % LineSize] = mem'[b]
    BY <1>1 DEF CleanKept
  <2>1. b # b0
    BY <1>1, <1>4
  <2> QED BY <1>3, <2>1 DEF IInv, CleanKept
<1>9. Whole'
  <2> SUFFICES ASSUME NEW b \in Byte, b \notin Buf
               PROVE  Shows(dc, b, want[b])'
    BY <1>1, <1>2 DEF Whole
  <2>1. Shows(dc, b, want[b]) /\ b # b0
    BY <1>1 DEF IInv, Whole
  <2> QED BY <1>1, <1>3, <2>1 DEF Shows
<1>10. Saved' /\ Refetched'
  BY <1>1 DEF Saved, Refetched
<1>11. Emptied'
  <2>1. \A b \in filled' : mem'[b] = want'[b]
    <3> SUFFICES ASSUME NEW b \in filled' PROVE mem'[b] = want'[b]
      OBVIOUS
    <3>1. CASE b = b0
      BY <1>3, <3>1
    <3>2. CASE b # b0
      <4>1. b \in filled /\ b \in Byte
        BY <1>1, <3>2 DEF IInv, Types, Buf
      <4>2. mem[b] = want[b]
        BY <1>1, <4>1 DEF IInv, Emptied, Running
      <4> QED BY <1>3, <3>2, <4>1, <4>2
    <3> QED BY <3>1, <3>2
  <2> QED BY <1>1, <1>2, <1>5, <2>1 DEF IInv, Emptied, Running
<1> QED BY <1>6, <1>7, <1>8, <1>9, <1>10, <1>11 DEF IInv

LEMMA DoneKeeps ==
  ASSUME IInv, Done
  PROVE  IInv'
<1>1. /\ phase = "device" /\ (job.kind = "in" => filled = Buf)
      /\ phase' = "program" /\ filled' = {} /\ issued' = 0
      /\ UNCHANGED <<mem, dc, ic, job, want>>
  BY DEF Done
<1>2. Buf' = Buf /\ ~Running'
  BY <1>1, Static DEF Running
<1>3. Types' /\ Once(dc)' /\ Once(ic)' /\ CleanKept'
  BY <1>1, <1>2 DEF IInv, Types, Once, CleanKept
<1>4. Whole'
  <2> SUFFICES ASSUME NEW b \in Byte PROVE Shows(dc, b, want[b])
    BY <1>1 DEF Whole, Shows
  <2>1. CASE b \notin Buf \/ job.kind # "in"
    BY <2>1 DEF IInv, Whole
  <2>2. CASE b \in Buf /\ job.kind = "in"
    <3>1. mem[b] = want[b]
      BY <1>1, <2>2 DEF IInv, Emptied, Running
    <3>2. \A s \in Slot : dc[s].line # LineOf(b)
      BY <1>1, <2>2, Gone
    <3> QED BY <3>1, <3>2 DEF Shows
  <2> QED BY <2>1, <2>2
<1>5. Saved' /\ Emptied' /\ Refetched'
  BY <1>2 DEF Saved, Emptied, Refetched
<1> QED BY <1>3, <1>4, <1>5 DEF IInv

LEMMA InitIInv == Init => IInv
<1> SUFFICES ASSUME Init PROVE IInv
  OBVIOUS
<1>1. /\ mem = [b \in Byte |-> 0] /\ want = mem /\ dc = [s \in Slot |-> Empty] /\ ic = dc
      /\ job \in Jobs /\ phase = "program" /\ issued = 0 /\ filled = {}
  BY DEF Init
<1>2. Empty \in Held /\ Empty.line = -1
  BY Sizes DEF Empty, Held, Data
<1>3. \A b \in Byte : LineOf(b) # -1
  BY Bytes
<1>4. Types
  BY <1>1, <1>2 DEF Types, Data
<1>5. \A s \in Slot : dc[s].line = -1 /\ ic[s].line = -1
  BY <1>1, <1>2
<1>6. Once(dc) /\ Once(ic) /\ CleanKept
  BY <1>3, <1>5 DEF Once, CleanKept
<1>7. Whole
  <2>1. \A b \in Byte : mem[b] = want[b]
    BY <1>1
  <2> QED BY <1>3, <1>5, <2>1 DEF Whole, Shows
<1>8. ~Running
  BY <1>1 DEF Running
<1> QED BY <1>4, <1>6, <1>7, <1>8 DEF IInv, Saved, Emptied, Refetched

LEMMA NextKeeps == IInv /\ [Next]_vars => IInv'
<1> SUFFICES ASSUME IInv, [Next]_vars PROVE IInv'
  OBVIOUS
<1>1. CASE \E b \in Byte : Load(b) \/ Fetch(b) \/ \E v \in Value : Store(b, v)
  BY <1>1, LoadKeeps, FetchKeeps, StoreKeeps
<1>2. CASE \E b \in Byte, v \in Value : DeviceWrites(b, v)
  BY <1>2, DeviceKeeps
<1>3. CASE Call
  BY <1>3, CallKeeps
<1>4. CASE CacheOp
  BY <1>4, IOpKeeps, DOpKeeps
<1>5. CASE Done
  BY <1>5, DoneKeeps
<1>6. CASE UNCHANGED vars
  BY <1>6, NothingKeeps
<1> QED BY <1>1, <1>2, <1>3, <1>4, <1>5, <1>6 DEF Next

-----------------------------------------------------------------------------
\* What is read is what the slot shows, for there is only one.
LEMMA Reads ==
  ASSUME NEW c, NEW b, NEW v, Shows(c, b, v)
  PROVE  Seen(c, b) = v
<1>1. CASE Hit(c, b) = {}
  BY <1>1 DEF Shows, Seen, Hit
<1>2. CASE Hit(c, b) # {}
  <2>1. (CHOOSE s \in Hit(c, b) : TRUE) \in Hit(c, b)
    BY <1>2
  <2> QED BY <1>2, <2>1 DEF Shows, Seen, Hit
<1> QED BY <1>1, <1>2

LEMMA Exact == IInv => DmaExact
<1> SUFFICES ASSUME IInv PROVE DmaExact
  OBVIOUS
<1>1. Coherent
  BY Reads DEF IInv, Whole, Coherent
<1>2. DeviceSees
  <2> SUFFICES ASSUME phase = "device", job.kind = "out", NEW b \in Buf
               PROVE  mem[b] = want[b]
    BY DEF DeviceSees
  <2>1. issued = Len(Instructions) /\ issued \in Nat
    BY DEF IInv, Types
  <2>2. \A s : ~DAhead(s)
    BY <2>1 DEF DAhead, Ahead
  <2> QED BY <2>2 DEF IInv, Saved, Running
<1> QED BY <1>1, <1>2 DEF DmaExact

LEMMA Fetches == IInv => FetchSees
<1> SUFFICES ASSUME IInv, phase = "device", job.kind = "code", NEW b \in Buf
             PROVE  Seen(ic, b) = want[b]
  BY DEF FetchSees
<1>1. issued = Len(Instructions) /\ issued \in Nat /\ job \in Jobs
  BY DEF IInv, Types
<1>2. \A s : ~DAhead(s) /\ ~IAhead(s)
  BY <1>1 DEF DAhead, IAhead, Ahead
<1>3. mem[b] = want[b]
  BY <1>2 DEF IInv, Saved, Running
<1>4. issued >= Len(DPart)
  <2>1. Len(DPart) \in 1 .. Len(Instructions)
    BY <1>1, Calls
  <2> QED BY <1>1, <2>1
<1>5. \A s \in Slot : ic[s].line = LineOf(b) => ic[s].data[b % LineSize] = want[b]
  BY <1>2, <1>4 DEF IInv, Refetched, Running
<1> QED BY <1>3, <1>5, Reads DEF Shows

LEMMA Inductive == Spec => []IInv
  BY InitIInv, NextKeeps, PTL DEF Spec

(* DMA is exact in both directions whatever the number and size of lines,    *)
(* sets and ways, for every buffer, aligned or not and larger than the cache *)
(* or not, and with handlers that run between the instructions of a call:    *)
(* dma_cache_wback_inv and dma_cache_inv (cache.c).                          *)
THEOREM DmaIsExact == Spec => []DmaExact
  BY Inductive, Exact, PTL

(* After flush_icache_range the processor fetches the code that was written,  *)
(* whatever either cache held or picked up while it was flushed.              *)
THEOREM NewCodeIsFetched == Spec => []FetchSees
  BY Inductive, Fetches, PTL
=============================================================================
