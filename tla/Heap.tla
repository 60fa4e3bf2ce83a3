-------------------------------- MODULE Heap --------------------------------
(***************************************************************************)
(* malloc.c: the circular first-fit free list of Kernighan and Ritchie.    *)
(* An address counts header units.  A step is one turn of a loop: malloc's *)
(* search, or free's walk to the place of a block.  Only the headers in use *)
(* are kept: what the rest of the memory holds is the caller's, and a walk  *)
(* that strays off them is an error of the model.                          *)
(***************************************************************************)
EXTENDS Integers, FiniteSets

CONSTANTS Unit,       \* bytes of a header: sizeof (HEADER)
          SizeMod,    \* 2^32: the range of unsigned
          NALLOC,     \* units morecore asks for at a time
          Base,       \* address of the static header base
          MemStart,   \* the first value of membase
          MemLimit,   \* bound: morecore is never asked beyond this address
          Requests    \* bytes the callers ask for

ASSUME HeapAssumption ==
  /\ Unit \in Nat \ {0} /\ NALLOC \in Nat \ {0} /\ SizeMod \in Nat
  /\ Base \in Nat /\ MemStart \in Nat /\ MemLimit \in Nat
  /\ Base < MemStart /\ MemStart <= MemLimit
  /\ Requests \subseteq 0 .. SizeMod - Unit   \* above it, Units wraps to 1

VARIABLES hdr,      \* address of a header |-> [ptr, size]
          allocp,   \* where the next search begins, or NULL
          membase,
          live,     \* blocks the callers hold |-> the bytes they asked for
          pc,       \* "idle", "malloc", or "free" (whose caller is in ret)
          ret,      \* the caller of free: "user" or "morecore"
          p, q,     \* the two pointers of malloc and of free
          nbytes    \* the argument of the malloc in progress

vars == <<hdr, allocp, membase, live, pc, ret, p, q, nbytes>>

NULL == Base - 1
Units_Bug(n) == ((n + Unit - 1) % SizeMod) \div Unit  \* no unit for the header
Units(n) == ((n + Unit - 1) % SizeMod) \div Unit + 1
nunits == Units(nbytes)
Header(s, n) == [ptr |-> s, size |-> n]
Put(f, a, v) == [b \in DOMAIN f \cup {a} |-> IF b = a THEN v ELSE f[b]]

HeapInit ==
  /\ hdr = [a \in {Base} |-> Header(NULL, 0)] /\ allocp = NULL /\ membase = MemStart
  /\ live = [a \in {} |-> 0]
  /\ pc = "idle" /\ ret = "user" /\ p = NULL /\ q = NULL /\ nbytes = 0

\* A call ends, and with it its locals.
Return == pc' = "idle" /\ ret' = "user" /\ p' = NULL /\ q' = NULL /\ nbytes' = 0

-----------------------------------------------------------------------------
\* A call of malloc: the first one makes the list of base alone.
malloc(n) ==
  /\ pc = "idle" /\ pc' = "malloc" /\ nbytes' = n
  /\ IF allocp = NULL
     THEN /\ hdr' = [hdr EXCEPT ![Base] = Header(Base, 0)]
          /\ allocp' = Base /\ q' = Base /\ p' = Base
     ELSE q' = allocp /\ p' = hdr[allocp].ptr /\ UNCHANGED <<hdr, allocp>>
  /\ UNCHANGED <<membase, live, ret>>

TailOf_Bug(b) == b + nunits  \* behind what is taken, not behind what is left
TailOf(b) == b + (hdr[b].size - nunits)

\* The block is big enough: unlink it, or cut its tail off.
MallocFit ==
  LET left == hdr[p].size - nunits
      block == IF left = 0 THEN p ELSE TailOf(p)
  IN  /\ pc = "malloc" /\ left >= 0
      /\ hdr' = IF left = 0
                THEN [hdr EXCEPT ![q].ptr = hdr[p].ptr]
                ELSE Put([hdr EXCEPT ![p].size = left], block,
                         Header(NULL, nunits))
      /\ live' = Put(live, block, nbytes)
      /\ allocp' = q /\ Return /\ UNCHANGED membase

Exhausted_Bug == p = Base  \* once around counted from base
Exhausted == p = allocp

MallocNext ==
  /\ pc = "malloc" /\ hdr[p].size < nunits /\ ~Exhausted
  /\ q' = p /\ p' = hdr[p].ptr
  /\ UNCHANGED <<hdr, allocp, membase, live, pc, ret, nbytes>>

\* Once around without a fit: sbrk a multiple of NALLOC, and free it.
Rounded(n) == NALLOC * ((Units(n) + NALLOC - 1) \div NALLOC)
rnu == Rounded(nbytes)
morecore ==
  /\ pc = "malloc" /\ hdr[p].size < nunits /\ Exhausted
  /\ membase' = membase + rnu
  /\ hdr' = Put(hdr, membase, Header(NULL, rnu))
  /\ pc' = "free" /\ ret' = "morecore" /\ p' = membase /\ q' = allocp
  /\ UNCHANGED <<allocp, live, nbytes>>

free(b) ==
  /\ pc = "idle" /\ b \in DOMAIN live
  /\ pc' = "free" /\ ret' = "user" /\ p' = b /\ q' = allocp
  /\ live' = [a \in DOMAIN live \ {b} |-> live[a]]
  /\ UNCHANGED <<hdr, allocp, membase, nbytes>>

\* The two exits of free's loop: between two blocks, or at an end of the list.
AtEnd_Bug == q > hdr[q].ptr /\ (p > q \/ p < hdr[q].ptr)  \* base alone is no end
Between == p > q /\ p < hdr[q].ptr
AtEnd == q >= hdr[q].ptr /\ (p > q \/ p < hdr[q].ptr)

FreeNext ==
  /\ pc = "free" /\ ~Between /\ ~AtEnd
  /\ q' = hdr[q].ptr
  /\ UNCHANGED <<hdr, allocp, membase, live, pc, ret, p, nbytes>>

TouchesNext_Bug == FALSE  \* no merge with the next block
TouchesNext == p + hdr[p].size = hdr[q].ptr
TouchesPrev == q + hdr[q].size = p

\* Link p behind q, merging it with either neighbour it touches.
FreeLink ==
  LET next == hdr[q].ptr
      block == IF TouchesNext THEN Header(hdr[next].ptr, hdr[p].size + hdr[next].size)
               ELSE Header(next, hdr[p].size)
      merged == IF TouchesPrev
                THEN [hdr EXCEPT ![q] = Header(block.ptr,
                                               hdr[q].size + block.size)]
                ELSE [hdr EXCEPT ![q].ptr = p, ![p] = block]
      gone == (IF TouchesNext THEN {next} ELSE {})
              \cup (IF TouchesPrev THEN {p} ELSE {})
  IN  /\ pc = "free" /\ (Between \/ AtEnd)
      /\ hdr' = [a \in DOMAIN hdr \ gone |-> merged[a]]
      /\ allocp' = q
      /\ IF ret = "morecore"
         THEN pc' = "malloc" /\ p' = hdr'[q].ptr /\ UNCHANGED <<ret, q, nbytes>>
         ELSE Return
      /\ UNCHANGED <<membase, live>>

Step == MallocFit \/ MallocNext \/ morecore \/ FreeNext \/ FreeLink
\* Bound: a caller asks for no more than memory up to MemLimit can give.
InBound(n) == \/ membase + Rounded(n) <= MemLimit
              \/ \E b \in DOMAIN hdr \ DOMAIN live : hdr[b].size >= Units(n)
HeapNext == \/ \E n \in Requests : InBound(n) /\ malloc(n)
            \/ \E b \in DOMAIN live : free(b)
            \/ Step

\* The calls run: they are straight C, with no other thread.
HeapSpec == HeapInit /\ [][HeapNext]_vars /\ WF_vars(Step)

-----------------------------------------------------------------------------
\* The block free is about to link is in nobody's hands.
Moving == IF pc = "free" THEN {p} ELSE {}
Free == DOMAIN hdr \ (DOMAIN live \cup Moving)
Blocks == DOMAIN hdr \ {Base}

HeapTypeOK ==
  /\ DOMAIN hdr \subseteq {Base} \cup MemStart .. MemLimit /\ Base \in DOMAIN hdr
  /\ \A b \in DOMAIN hdr : /\ hdr[b].ptr \in {NULL, Base} \cup MemStart .. MemLimit
                           /\ hdr[b].size \in 0 .. MemLimit
  /\ allocp \in {NULL} \cup Free /\ membase \in MemStart .. MemLimit
  /\ DOMAIN live \subseteq Blocks /\ \A b \in DOMAIN live : live[b] \in Requests
  /\ pc \in {"idle", "malloc", "free"} /\ ret \in {"user", "morecore"}
  /\ pc # "idle" => allocp # NULL /\ q \in Free
  /\ pc = "malloc" => p = hdr[q].ptr
  /\ pc = "free" => p \in Blocks

(* The units sbrk gave out are tiled by the blocks: none is in two blocks,  *)
(* and none is lost, whatever order blocks are split and merged in.         *)
NoLeak == /\ \A u \in MemStart .. membase - 1 :
               Cardinality({b \in Blocks : u \in b .. b + hdr[b].size - 1}) = 1
          /\ \A b \in Blocks : b + hdr[b].size <= membase

(* The free list is a single circle through base in the order of addresses, *)
(* so free finds the one place a block belongs, and no two neighbours on it *)
(* touch: free merged them.  HeapTypeOK is part of it.                     *)
Next(b) == hdr[b].ptr
ListSound ==
  /\ HeapTypeOK
  /\ allocp # NULL =>
       \A b \in Free :
         /\ Next(b) \in Free
         /\ \A c \in Free : IF b < Next(b) THEN c <= b \/ c >= Next(b)
                            ELSE Next(b) <= c /\ c <= b
         /\ b = Base \/ b + hdr[b].size # Next(b)

(* morecore is the last resort: the search has seen every free block.       *)
GrowsWhenFull ==
  [][membase' # membase => \A b \in Free : hdr[b].size < nunits]_vars

(* Blocks handed out never share a byte, and lie in memory sbrk gave out:   *)
(* the allocator of Allocator.tla, whose Answer is the exit of malloc.      *)
InMalloc == pc = "malloc" \/ (pc = "free" /\ ret = "morecore")
Abs == INSTANCE Allocator WITH
         memory <- MemStart * Unit .. membase * Unit - 1,
         used <- [a \in {(b + 1) * Unit : b \in DOMAIN live} |->
                    live[a \div Unit - 1]],
         asked <- IF InMalloc THEN nbytes ELSE -1
Allocates == Abs!AbsSpec

(* Every call returns: the search meets a block that fits, or the block     *)
(* morecore adds; free's walk finds a place.                               *)
CallsReturn == (pc # "idle") ~> (pc = "idle")

=============================================================================
