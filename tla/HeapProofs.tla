----------------------------- MODULE HeapProofs -----------------------------
(***************************************************************************)
(* The allocator for any sizes, any memory and any order of calls.         *)
(***************************************************************************)
EXTENDS Heap, FiniteSetTheorems, TLAPS

Address == {NULL, Base} \cup MemStart .. MemLimit

Types ==
  /\ hdr \in [DOMAIN hdr -> [ptr : Address, size : Nat]]
  /\ Base \in DOMAIN hdr /\ hdr[Base].size = 0
  /\ live \in [DOMAIN live -> Requests] /\ DOMAIN live \subseteq Blocks
  /\ allocp \in {NULL} \cup Free /\ (allocp = NULL => DOMAIN hdr = {Base})
  /\ membase \in MemStart .. MemLimit
  /\ pc \in {"idle", "malloc", "free"} /\ ret \in {"user", "morecore"}
  /\ nbytes \in Nat
  /\ InMalloc => nbytes \in Requests
  /\ pc = "idle" => ret = "user"
  /\ pc # "idle" => allocp # NULL /\ q \in Free
  /\ pc = "malloc" => p = hdr[q].ptr
  /\ pc = "free" => p \in Blocks \ DOMAIN live

\* The blocks lie side by side from MemStart to membase.
Tiled ==
  /\ \A b \in Blocks : /\ b \in MemStart .. membase - 1 /\ hdr[b].size > 0
                       /\ b + hdr[b].size <= membase
  /\ \A a, b \in Blocks : a < b => a + hdr[a].size <= b
  /\ \A u \in MemStart .. membase - 1 :
       \E b \in Blocks : b <= u /\ u < b + hdr[b].size

\* The circle of ListSound.
Circle ==
  allocp # NULL =>
    \A b \in Free :
      /\ Next(b) \in Free
      /\ \A c \in Free : IF b < Next(b) THEN c <= b \/ c >= Next(b)
                         ELSE Next(b) <= c /\ c <= b
      /\ b = Base \/ b + hdr[b].size # Next(b)

\* What malloc has walked over is too small, and what it needs can be had.
Past(b) == IF allocp <= q THEN allocp < b /\ b <= q ELSE allocp < b \/ b <= q
Searched ==
  /\ pc = "malloc" => /\ \A b \in Free : Past(b) => hdr[b].size < nunits
                      /\ \/ membase + rnu <= MemLimit
                         \/ \E b \in Free : hdr[b].size >= nunits
  /\ pc = "free" /\ ret = "morecore" => hdr[p].size >= nunits

Sizes == \A b \in DOMAIN live : hdr[b].size = Units(live[b])

IInv == Types /\ Tiled /\ Circle /\ Searched /\ Sizes

-----------------------------------------------------------------------------
\* Units and rounding.
LEMMA Constants ==
  /\ Unit \in Nat /\ Unit > 0 /\ NALLOC \in Nat /\ NALLOC > 0 /\ SizeMod \in Nat
  /\ Base \in Nat /\ MemStart \in Nat /\ MemLimit \in Nat
  /\ Base < MemStart /\ MemStart <= MemLimit /\ NULL \in Int /\ NULL < Base
  BY HeapAssumption DEF NULL

LEMMA UnitsHold ==
  ASSUME NEW n \in Requests
  PROVE  /\ n \in Nat /\ Units(n) \in Nat \ {0}
         /\ n <= (Units(n) - 1) * Unit
<1>1. n \in 0 .. SizeMod - Unit
  BY HeapAssumption
<1>2. (n + Unit - 1) % SizeMod = n + Unit - 1
  BY <1>1, Constants
<1> DEFINE x == n + Unit - 1
           d == x \div Unit
<1>3. x \in Nat /\ Units(n) = d + 1
  BY <1>1, <1>2, Constants DEF Units
<1>4. d \in Nat /\ x = d * Unit + (x % Unit) /\ x % Unit \in 0 .. Unit - 1
  <2> HIDE DEF x
  <2> QED BY <1>3, Constants
<1>5. n <= d * Unit
  <2> HIDE DEF d
  <2>1. d * Unit \in Nat
    BY <1>4, Constants
  <2>2. n + Unit - 1 <= d * Unit + (Unit - 1)
    BY <1>1, <1>3, <1>4, <2>1, Constants
  <2> QED BY <1>1, <2>1, <2>2, Constants
<1> HIDE DEF d
<1> QED BY <1>1, <1>3, <1>4, <1>5

LEMMA RoundedUp ==
  ASSUME NEW n \in Requests
  PROVE  Rounded(n) \in Nat /\ Rounded(n) >= Units(n)
<1> DEFINE u == Units(n)
           d == (u + NALLOC - 1) \div NALLOC
<1>1. u \in Nat \ {0} /\ Rounded(n) = NALLOC * d
  BY UnitsHold DEF Rounded
<1> HIDE DEF u
<1>2. d \in Nat /\ u + NALLOC - 1 = NALLOC * d + ((u + NALLOC - 1) % NALLOC)
  BY <1>1, Constants
<1>3. (u + NALLOC - 1) % NALLOC \in 0 .. NALLOC - 1
  BY <1>1, Constants
<1> HIDE DEF d
<1>4. NALLOC * d \in Nat
  BY <1>2, Constants
<1>5. NALLOC * d >= u
  BY <1>1, <1>2, <1>3, <1>4, Constants
<1> QED BY <1>1, <1>4, <1>5 DEF u

-----------------------------------------------------------------------------
\* What the invariant says of a header.
LEMMA Headers ==
  ASSUME IInv
  PROVE  /\ \A b \in DOMAIN hdr : b \in Int /\ hdr[b].size \in Nat /\ hdr[b].ptr \in Int
         /\ \A b \in DOMAIN hdr : b # Base => b >= MemStart /\ b > Base
                                               /\ hdr[b].size > 0 /\ b + hdr[b].size <= membase
         /\ hdr[Base].size = 0 /\ Base \in Free
         /\ \A a, b \in DOMAIN hdr : a < b => a + hdr[a].size <= b
         /\ membase \in Int /\ MemStart <= membase /\ membase <= MemLimit
<1>1. \A b \in DOMAIN hdr : hdr[b].ptr \in Address /\ hdr[b].size \in Nat
  BY DEF IInv, Types
<1>2. \A b \in DOMAIN hdr : b # Base => /\ b \in MemStart .. membase - 1
                                        /\ hdr[b].size > 0 /\ b + hdr[b].size <= membase
  BY DEF IInv, Tiled, Blocks
<1>3. Address \subseteq Int
  BY Constants DEF Address
<1>4. membase \in Int /\ MemStart <= membase /\ membase <= MemLimit /\ hdr[Base].size = 0
  BY Constants DEF IInv, Types
<1>5. Base \in Free
  BY DEF IInv, Types, Free, Moving, Blocks
<1>6. \A b \in DOMAIN hdr : b \in Int /\ hdr[b].size \in Nat /\ hdr[b].ptr \in Int
  <2>1. \A b \in DOMAIN hdr : b \in Int
    BY <1>2, <1>4, Constants
  <2> QED BY <1>1, <1>3, <2>1
<1>7. \A b \in DOMAIN hdr : b # Base => b >= MemStart /\ b > Base
  BY <1>2, <1>4, <1>6, Constants
<1>8. ASSUME NEW a \in DOMAIN hdr, NEW b \in DOMAIN hdr, a < b
      PROVE  a + hdr[a].size <= b
  <2>1. CASE a = Base
    BY <1>4, <1>6, <1>8, <2>1
  <2>2. CASE b = Base
    BY <1>6, <1>7, <1>8, <2>2, Constants
  <2>3. CASE a # Base /\ b # Base
    BY <1>8, <2>3 DEF IInv, Tiled, Blocks
  <2> QED BY <2>1, <2>2, <2>3
<1> QED BY <1>2, <1>4, <1>5, <1>6, <1>7, <1>8

\* While a call runs there is a list.
LEMMA Running ==
  ASSUME IInv, pc # "idle"
  PROVE  /\ allocp \in Free /\ allocp # NULL /\ q \in Free /\ Next(q) \in Free
         /\ pc = "malloc" => p = Next(q) /\ nbytes \in Requests
         /\ pc = "free" /\ ret = "morecore" => nbytes \in Requests
<1>1. Types
  BY DEF IInv
<1>2. allocp # NULL /\ q \in Free
  BY <1>1, Zenon DEF Types
<1>3. allocp \in Free
  BY <1>1, <1>2, Zenon DEF Types
<1>4. pc = "malloc" => p = Next(q) /\ nbytes \in Requests
  BY <1>1, Zenon DEF Types, InMalloc, Next
<1>5. pc = "free" /\ ret = "morecore" => nbytes \in Requests
  BY <1>1, Zenon DEF Types, InMalloc
<1> QED BY <1>2, <1>3, <1>4, <1>5 DEF IInv, Circle

LEMMA InitIInv ==
  ASSUME HeapInit
  PROVE  IInv
<1>1. hdr = [x \in {Base} |-> [ptr |-> NULL, size |-> 0]]
  BY DEF HeapInit, Header
<1>2. DOMAIN hdr = {Base} /\ Blocks = {} /\ DOMAIN live = {} /\ hdr[Base].size = 0
  BY <1>1 DEF HeapInit, Blocks
<1>3. Types
  BY <1>1, <1>2, Constants DEF HeapInit, Types, Address, InMalloc, Free, Moving
<1>4. Tiled /\ Circle /\ Searched /\ Sizes
  BY <1>1, <1>2, Constants DEF HeapInit, Tiled, Circle, Searched, Sizes
<1> QED BY <1>3, <1>4 DEF IInv

-----------------------------------------------------------------------------
\* A call begins.
LEMMA MallocKeeps ==
  ASSUME IInv, NEW n \in Requests, InBound(n), malloc(n)
  PROVE  IInv'
<1>1. /\ pc = "idle" /\ pc' = "malloc" /\ nbytes' = n /\ ret = "user"
      /\ UNCHANGED <<membase, live, ret>> /\ n \in Nat
      /\ Free = DOMAIN hdr \ DOMAIN live
  BY UnitsHold DEF malloc, IInv, Types, Free, Moving
<1>2. /\ nunits' = Units(n) /\ rnu' = Rounded(n)
  BY <1>1 DEF nunits, rnu
<1>3. CASE allocp # NULL
  <2>1. hdr' = hdr /\ allocp' = allocp /\ q' = allocp /\ p' = hdr[allocp].ptr
    BY <1>3 DEF malloc
  <2>2. Free' = Free /\ Blocks' = Blocks
    BY <1>1, <2>1 DEF Free, Moving, Blocks
  <2>3. Types'
    BY <1>1, <1>3, <2>1, <2>2 DEF IInv, Types, InMalloc
  <2>4. Tiled' /\ Sizes'
    BY <1>1, <2>1, <2>2 DEF IInv, Tiled, Sizes
  <2>5. Circle'
    BY <2>1, <2>2 DEF IInv, Circle, Next
  <2>6. Searched'
    <3>1. \A b \in Free : ~Past(b)'
      <4>1. allocp \in Int
        BY <1>3, Headers DEF IInv, Types, Free
      <4>2. \A b \in Free : b \in Int
        BY Headers DEF Free
      <4> QED BY <2>1, <4>1, <4>2 DEF Past
    <3> QED BY <1>1, <1>2, <2>1, <2>2, <3>1 DEF Searched, InBound
  <2> QED BY <2>3, <2>4, <2>5, <2>6 DEF IInv
<1>4. CASE allocp = NULL
  <2>1. /\ DOMAIN hdr = {Base} /\ hdr[Base].size = 0 /\ DOMAIN live = {}
    BY <1>4 DEF IInv, Types, Blocks
  <2>2. /\ hdr' = [hdr EXCEPT ![Base] = [ptr |-> Base, size |-> 0]]
        /\ allocp' = Base /\ q' = Base /\ p' = Base
    BY <1>4 DEF malloc, Header
  <2>3. /\ DOMAIN hdr' = {Base} /\ hdr'[Base] = [ptr |-> Base, size |-> 0]
        /\ hdr'[Base].ptr = Base /\ hdr'[Base].size = 0
    BY <2>1, <2>2
  <2>4. Free' = {Base} /\ Blocks' = Blocks /\ Blocks = {}
    BY <1>1, <2>1, <2>3 DEF Free, Moving, Blocks
  <2>5. Types'
    <3>1. hdr' \in [DOMAIN hdr' -> [ptr : Address, size : Nat]]
      BY <2>1, <2>2, <2>3 DEF Address
    <3> QED BY <1>1, <2>1, <2>2, <2>3, <2>4, <3>1, Constants DEF IInv, Types, InMalloc
  <2>6. Tiled' /\ Sizes'
    BY <1>1, <2>1, <2>4 DEF IInv, Tiled, Sizes
  <2>7. Circle'
    BY <2>3, <2>4, Constants DEF Circle, Next
  <2>8. Searched'
    <3>1. ~Past(Base)'
      BY <2>2, Constants DEF Past
    <3>2. InBound(n) => \/ membase + Rounded(n) <= MemLimit
                        \/ hdr[Base].size >= Units(n)
      BY <1>1, <2>1 DEF InBound
    <3> QED BY <1>1, <1>2, <2>1, <2>3, <2>4, <3>1, <3>2 DEF Searched
  <2> QED BY <2>5, <2>6, <2>7, <2>8 DEF IInv
<1> QED BY <1>3, <1>4

LEMMA FreeKeeps ==
  ASSUME IInv, NEW b \in DOMAIN live, free(b)
  PROVE  IInv'
<1>1. /\ pc = "idle" /\ pc' = "free" /\ ret' = "user" /\ p' = b /\ q' = allocp
      /\ live' = [a \in DOMAIN live \ {b} |-> live[a]]
      /\ UNCHANGED <<hdr, allocp, membase, nbytes>>
  BY DEF free
<1>2. b \in Blocks /\ DOMAIN live' = DOMAIN live \ {b}
  BY <1>1 DEF IInv, Types
<1>3. allocp # NULL
  BY <1>2 DEF IInv, Types, Blocks
<1>4. Free' = Free /\ Blocks' = Blocks
  BY <1>1, <1>2 DEF Free, Moving, Blocks
<1>5. Types'
  <2>1. live' \in [DOMAIN live' -> Requests] /\ DOMAIN live' \subseteq Blocks
    BY <1>1, <1>2 DEF IInv, Types
  <2> QED BY <1>1, <1>2, <1>3, <1>4, <2>1 DEF IInv, Types, InMalloc
<1>6. Tiled' /\ Searched'
  BY <1>1, <1>4 DEF IInv, Tiled, Searched
<1>7. Circle'
  BY <1>1, <1>4 DEF IInv, Circle, Next
<1>8. Sizes'
  BY <1>1, <1>2 DEF IInv, Sizes
<1> QED BY <1>5, <1>6, <1>7, <1>8 DEF IInv

-----------------------------------------------------------------------------
\* A turn of the search, and of the walk of free.
LEMMA MallocNextKeeps ==
  ASSUME IInv, MallocNext
  PROVE  IInv'
<1>1. /\ pc = "malloc" /\ hdr[p].size < nunits /\ p # allocp
      /\ q' = p /\ p' = hdr[p].ptr
      /\ UNCHANGED <<hdr, allocp, membase, live, pc, ret, nbytes>>
  BY DEF MallocNext, Exhausted
<1>2. /\ p = Next(q) /\ q \in Free /\ p \in Free /\ allocp \in Free /\ allocp # NULL
      /\ nbytes \in Requests
  <2>1. p = Next(q) /\ q \in Free /\ allocp \in Free /\ allocp # NULL /\ nbytes \in Requests
    BY <1>1, Running
  <2> QED BY <2>1 DEF IInv, Circle
<1>3. Free' = Free /\ Blocks' = Blocks /\ nunits' = nunits /\ rnu' = rnu
  BY <1>1 DEF Free, Moving, Blocks, nunits, rnu
<1>4. Types'
  BY <1>1, <1>2, <1>3 DEF IInv, Types, InMalloc
<1>5. Tiled' /\ Sizes'
  BY <1>1, <1>3 DEF IInv, Tiled, Sizes
<1>6. Circle'
  BY <1>1, <1>3 DEF IInv, Circle, Next
<1>7. Searched'
  <2>1. ASSUME NEW b \in Free, Past(b)'
        PROVE  hdr[b].size < nunits
    <3>1. b = p \/ Past(b)
      <4>1. b \in Int /\ p \in Int /\ q \in Int /\ allocp \in Int
        BY <1>2, Headers DEF Free
      <4>2. /\ IF q < p THEN b <= q \/ b >= p ELSE p <= b /\ b <= q
            /\ IF q < p THEN allocp <= q \/ allocp >= p ELSE p <= allocp /\ allocp <= q
        BY <1>2 DEF IInv, Circle, Next
      <4> QED BY <1>1, <2>1, <4>1, <4>2 DEF Past
    <3> QED BY <1>1, <2>1, <3>1 DEF IInv, Searched
  <2> QED BY <1>1, <1>3, <2>1 DEF IInv, Searched
<1> QED BY <1>4, <1>5, <1>6, <1>7 DEF IInv

LEMMA FreeNextKeeps ==
  ASSUME IInv, FreeNext
  PROVE  IInv'
<1>1. /\ pc = "free" /\ q' = hdr[q].ptr
      /\ UNCHANGED <<hdr, allocp, membase, live, pc, ret, p, nbytes>>
  BY DEF FreeNext
<1>2. Free' = Free /\ Blocks' = Blocks /\ nunits' = nunits /\ rnu' = rnu
  BY <1>1 DEF Free, Moving, Blocks, nunits, rnu
<1>3. q' \in Free
  BY <1>1 DEF IInv, Types, Circle, Next
<1>4. Types'
  BY <1>1, <1>2, <1>3 DEF IInv, Types, InMalloc
<1>5. Tiled' /\ Sizes' /\ Searched'
  BY <1>1, <1>2 DEF IInv, Tiled, Sizes, Searched
<1>6. Circle'
  BY <1>1, <1>2 DEF IInv, Circle, Next
<1> QED BY <1>4, <1>5, <1>6 DEF IInv

-----------------------------------------------------------------------------
\* At the end of the search every free block has been seen.
LEMMA AllSeen ==
  ASSUME IInv, pc = "malloc", hdr[p].size < nunits, p = allocp
  PROVE  \A b \in Free : hdr[b].size < nunits
<1>1. p = Next(q) /\ q \in Free /\ allocp \in Free
  BY DEF IInv, Types, Next
<1> SUFFICES ASSUME NEW b \in Free, b # p PROVE hdr[b].size < nunits
  OBVIOUS
<1>2. Past(b)
  <2>1. b \in Int /\ p \in Int /\ q \in Int
    BY <1>1, Headers DEF Free
  <2>2. IF q < p THEN b <= q \/ b >= p ELSE p <= b /\ b <= q
    BY <1>1 DEF IInv, Types, Circle, Next
  <2> QED BY <2>1, <2>2 DEF Past
<1> QED BY <1>2 DEF IInv, Searched

LEMMA MorecoreKeeps ==
  ASSUME IInv, morecore
  PROVE  IInv'
<1>1. /\ pc = "malloc" /\ hdr[p].size < nunits /\ p = allocp
      /\ membase' = membase + rnu
      /\ hdr' = Put(hdr, membase, [ptr |-> NULL, size |-> rnu])
      /\ pc' = "free" /\ ret' = "morecore" /\ p' = membase /\ q' = allocp
      /\ UNCHANGED <<allocp, live, nbytes>>
  BY DEF morecore, Exhausted, Header
<1>2. /\ nbytes \in Requests /\ rnu \in Nat /\ rnu >= nunits /\ nunits \in Nat \ {0}
      /\ nunits' = nunits /\ allocp \in Free /\ allocp # NULL
  <2>1. nbytes \in Requests /\ allocp \in Free /\ allocp # NULL
    BY <1>1, Running
  <2>2. nunits' = nunits
    BY <1>1 DEF nunits
  <2> QED BY <2>1, <2>2, RoundedUp, UnitsHold DEF rnu, nunits
<1>3. membase + rnu <= MemLimit
  <2>1. \A b \in Free : ~(hdr[b].size >= nunits)
    BY <1>1, <1>2, AllSeen, Headers DEF Free
  <2> QED BY <1>1, <2>1 DEF IInv, Searched
<1>4. membase \notin DOMAIN hdr
  BY Headers, Constants
<1>5. /\ DOMAIN hdr' = DOMAIN hdr \cup {membase}
      /\ hdr'[membase] = [ptr |-> NULL, size |-> rnu]
      /\ hdr'[membase].size = rnu
      /\ \A b \in DOMAIN hdr : hdr'[b] = hdr[b]
  BY <1>1, <1>4 DEF Put
<1>6. Blocks' = Blocks \cup {membase}
  BY <1>4, <1>5, Headers, Constants DEF Blocks
<1>7. Free' = Free
  BY <1>1, <1>4, <1>5 DEF Free, Moving, IInv, Types, Blocks
<1>8. Types'
  <2>1. hdr' \in [DOMAIN hdr' -> [ptr : Address, size : Nat]]
    <3>1. \A b \in DOMAIN hdr' : hdr'[b] \in [ptr : Address, size : Nat]
      BY <1>2, <1>5 DEF IInv, Types, Address
    <3> QED BY <1>1, <3>1 DEF Put
  <2>2. membase' \in MemStart .. MemLimit
    BY <1>1, <1>2, <1>3, Headers, Constants
  <2>3. p' \in Blocks' \ DOMAIN live
    BY <1>1, <1>4, <1>6 DEF IInv, Types, Blocks
  <2>4. hdr'[Base].size = 0 /\ Base \in DOMAIN hdr'
    BY <1>5 DEF IInv, Types
  <2> QED BY <1>1, <1>2, <1>5, <1>6, <1>7, <2>1, <2>2, <2>3, <2>4 DEF IInv, Types, InMalloc
<1>9. Tiled'
  <2>1. \A b \in Blocks' : /\ b \in MemStart .. membase' - 1 /\ hdr'[b].size > 0
                           /\ b + hdr'[b].size <= membase'
    BY <1>1, <1>2, <1>5, <1>6, Headers, Constants DEF Blocks
  <2>2. \A a, b \in Blocks' : a < b => a + hdr'[a].size <= b
    BY <1>2, <1>5, <1>6, Headers DEF Blocks
  <2>3. ASSUME NEW u \in MemStart .. membase' - 1
        PROVE  \E b \in Blocks' : b <= u /\ u < b + hdr'[b].size
    <3>1. CASE u < membase
      <4>1. \E b \in Blocks : b <= u /\ u < b + hdr[b].size
        BY <3>1, Headers, Constants DEF IInv, Tiled
      <4> QED BY <1>5, <1>6, <4>1 DEF Blocks
    <3>2. CASE u >= membase
      BY <1>1, <1>2, <1>5, <1>6, <3>2, Headers, Constants
    <3> QED BY <3>1, <3>2, Headers, Constants
  <2> QED BY <2>1, <2>2, <2>3 DEF Tiled
<1>10. Circle'
  BY <1>1, <1>5, <1>7 DEF IInv, Circle, Next, Free
<1>11. Searched' /\ Sizes'
  BY <1>1, <1>2, <1>5 DEF IInv, Searched, Sizes, Types, Blocks
<1> QED BY <1>8, <1>9, <1>10, <1>11 DEF IInv

-----------------------------------------------------------------------------
LEMMA NoLoop ==
  ASSUME IInv, allocp # NULL, NEW b \in Free, b # Base
  PROVE  Next(b) # b
<1>1. b \in DOMAIN hdr /\ Base \in Free
  BY Headers DEF Free
<1>2. b \in Int /\ b > Base /\ Base \in Int
  BY <1>1, Headers, Constants
<1>3. Next(b) = b => Base >= b
  BY <1>1, <1>2 DEF IInv, Circle
<1> QED BY <1>2, <1>3

LEMMA FreeAbove == IInv => \A b \in Free : b \in Int /\ b >= Base /\ b # NULL
<1> SUFFICES ASSUME IInv, NEW b \in Free PROVE b \in Int /\ b >= Base /\ b # NULL
  OBVIOUS
<1>1. b \in DOMAIN hdr
  BY DEF Free
<1> QED BY <1>1, Headers, Constants

\* malloc takes a block that fits exactly off the list.
LEMMA TakeKeeps ==
  ASSUME IInv, MallocFit, hdr[p].size = nunits
  PROVE  IInv'
<1>1. /\ q \in Free /\ p = Next(q) /\ p \in Free /\ nbytes \in Requests
      /\ nunits \in Nat \ {0} /\ pc = "malloc" /\ allocp # NULL
  BY Running, UnitsHold DEF MallocFit, nunits
<1>2. /\ p \in DOMAIN hdr /\ q \in DOMAIN hdr /\ p # Base /\ p \in Int /\ q \in Int
      /\ p \notin DOMAIN live /\ q \notin DOMAIN live
  BY <1>1, Headers DEF Free
<1>3. /\ hdr' = [hdr EXCEPT ![q].ptr = hdr[p].ptr]
      /\ live' = Put(live, p, nbytes) /\ allocp' = q
      /\ pc' = "idle" /\ ret' = "user" /\ nbytes' = 0 /\ UNCHANGED membase
  <2>1. hdr[p].size - nunits = 0
    BY <1>1
  <2> QED BY <2>1 DEF MallocFit, Return
<1>4. /\ DOMAIN hdr' = DOMAIN hdr
      /\ \A b \in DOMAIN hdr : hdr'[b].size = hdr[b].size
      /\ \A b \in DOMAIN hdr \ {q} : hdr'[b] = hdr[b]
      /\ hdr'[q].ptr = hdr[p].ptr
  BY <1>2, <1>3 DEF IInv, Types
<1>5. Blocks' = Blocks /\ DOMAIN live' = DOMAIN live \cup {p}
  BY <1>3, <1>4 DEF Blocks, Put
<1>6. Free' = Free \ {p}
  BY <1>1, <1>3, <1>4, <1>5 DEF Free, Moving
<1>7. p # q
  BY <1>1, <1>2, NoLoop
<1>8. Types'
  <2>1. hdr' \in [DOMAIN hdr' -> [ptr : Address, size : Nat]]
    BY <1>2, <1>3 DEF IInv, Types
  <2>2. live' \in [DOMAIN live' -> Requests] /\ DOMAIN live' \subseteq Blocks'
    BY <1>1, <1>2, <1>3, <1>5 DEF IInv, Types, Put, Blocks
  <2>3. allocp' \in Free' /\ allocp' # NULL
    BY <1>1, <1>2, <1>3, <1>6, <1>7, Headers, Constants
  <2> QED BY <1>2, <1>3, <1>4, <2>1, <2>2, <2>3 DEF IInv, Types, InMalloc
<1>9. Tiled'
  BY <1>3, <1>4, <1>5 DEF IInv, Tiled, Blocks
<1>10. Circle'
  <2> SUFFICES ASSUME NEW b \in Free'
               PROVE  /\ Next(b)' \in Free'
                      /\ \A c \in Free' : IF b < Next(b)' THEN c <= b \/ c >= Next(b)'
                                          ELSE Next(b)' <= c /\ c <= b
                      /\ b = Base \/ b + hdr'[b].size # Next(b)'
    BY DEF Circle
  <2>0. b \in Free /\ b # p /\ b \in DOMAIN hdr
    BY <1>6 DEF Free
  <2>1. CASE b = q
    <3>1. Next(b)' = Next(p) /\ Next(p) \in Free /\ Next(p) \in Int
      BY <1>1, <1>2, <1>4, <2>1, Headers DEF Next, IInv, Circle
    <3>2. Next(p) # p
      BY <1>1, <1>2, NoLoop
    <3>3. \A c \in Free : c \in Int /\ c >= Base /\ hdr[c].size \in Nat
      BY Headers, Constants DEF Free
    <3>4. /\ \A c \in Free : IF q < p THEN c <= q \/ c >= p ELSE p <= c /\ c <= q
          /\ \A c \in Free : IF p < Next(p) THEN c <= p \/ c >= Next(p)
                             ELSE Next(p) <= c /\ c <= p
      BY <1>1 DEF IInv, Circle
    <3>5. q < p
      BY <1>1, <1>2, <1>7, <3>3, <3>4, Headers
    <3>6. q # Base => q + hdr[q].size # Next(p)
      <4>1. q + hdr[q].size <= p
        BY <1>2, <3>5, Headers
      <4>2. Next(p) > p \/ Next(p) = Base
        BY <1>1, <3>1, <3>2, <3>3, <3>4, Headers
      <4>3. q # Base => q > Base
        BY <1>2, Headers
      <4> QED BY <1>1, <1>2, <3>1, <3>3, <4>1, <4>2, <4>3, Constants
    <3> QED BY <1>2, <1>4, <1>6, <2>1, <3>1, <3>2, <3>3, <3>4, <3>5, <3>6
  <2>2. CASE b # q
    <3>1. Next(b)' = Next(b) /\ hdr'[b].size = hdr[b].size /\ Next(b) \in Free
      BY <1>1, <1>4, <2>0, <2>2 DEF Next, IInv, Circle
    <3>2. Next(b) # p
      <4>1. \A c \in Free : c \in Int
        BY Headers DEF Free
      <4> QED BY <1>1, <1>2, <1>7, <2>0, <2>2, <4>1 DEF IInv, Circle
    <3> QED BY <1>1, <1>6, <2>0, <3>1, <3>2 DEF IInv, Circle
  <2> QED BY <2>1, <2>2
<1>11. Searched'
  BY <1>3 DEF Searched
<1>12. Sizes'
  <2>1. \A b \in DOMAIN live' : live'[b] = IF b = p THEN nbytes ELSE live[b]
    BY <1>3 DEF Put
  <2> QED BY <1>2, <1>4, <1>5, <2>1 DEF IInv, Sizes, Types, Blocks, nunits
<1> QED BY <1>8, <1>9, <1>10, <1>11, <1>12 DEF IInv

\* malloc cuts the tail off a block that is too big.
LEMMA CutKeeps ==
  ASSUME IInv, MallocFit, hdr[p].size # nunits
  PROVE  IInv'
<1> DEFINE left == hdr[p].size - nunits
           tail == p + left
<1>1. /\ q \in Free /\ p = Next(q) /\ p \in Free /\ nbytes \in Requests
      /\ nunits \in Nat \ {0} /\ pc = "malloc" /\ allocp # NULL
  BY Running, UnitsHold DEF MallocFit, nunits
<1>2. /\ p \in DOMAIN hdr /\ p \in Int /\ hdr[p].size \in Nat
      /\ left \in Nat /\ left > 0 /\ left + nunits = hdr[p].size /\ p # Base
  <2>1. /\ p \in DOMAIN hdr /\ p \in Int /\ hdr[p].size \in Nat /\ left >= 0
    BY <1>1, Headers DEF Free, MallocFit
  <2> QED BY <1>1, <2>1, Headers
<1>3. /\ hdr' = Put([hdr EXCEPT ![p].size = left], tail, [ptr |-> NULL, size |-> nunits])
      /\ live' = Put(live, tail, nbytes) /\ allocp' = q
      /\ pc' = "idle" /\ ret' = "user" /\ nbytes' = 0 /\ UNCHANGED membase
  <2>1. left # 0
    BY <1>2
  <2> QED BY <2>1 DEF MallocFit, Return, TailOf, Header
<1>4. tail \notin DOMAIN hdr /\ tail \in Int /\ tail > p
  BY <1>1, <1>2, Headers
<1> HIDE DEF left, tail
<1>5. /\ DOMAIN hdr' = DOMAIN hdr \cup {tail}
      /\ \A b \in DOMAIN hdr \ {p} : hdr'[b] = hdr[b]
      /\ hdr'[p] = [hdr[p] EXCEPT !.size = left]
      /\ hdr'[tail] = [ptr |-> NULL, size |-> nunits]
  BY <1>2, <1>3, <1>4 DEF Put
<1>6. /\ \A b \in DOMAIN hdr : hdr'[b].ptr = hdr[b].ptr
      /\ hdr'[p].size = left /\ hdr'[tail].size = nunits
      /\ \A b \in DOMAIN hdr \ {p} : hdr'[b].size = hdr[b].size
  BY <1>2, <1>5 DEF IInv, Types
<1>7. /\ Blocks' = Blocks \cup {tail} /\ DOMAIN live' = DOMAIN live \cup {tail}
      /\ tail # Base
  BY <1>2, <1>3, <1>4, <1>5, Headers DEF Blocks, Put
<1>8. Free' = Free
  BY <1>1, <1>3, <1>4, <1>5, <1>7 DEF Free, Moving
<1>9. Types'
  <2>1. hdr' \in [DOMAIN hdr' -> [ptr : Address, size : Nat]]
    <3>1. \A b \in DOMAIN hdr' : hdr'[b] \in [ptr : Address, size : Nat]
      BY <1>1, <1>2, <1>5 DEF IInv, Types, Address
    <3> QED BY <1>3, <3>1 DEF Put
  <2>2. live' \in [DOMAIN live' -> Requests] /\ DOMAIN live' \subseteq Blocks'
    BY <1>1, <1>3, <1>7 DEF IInv, Types, Put
  <2>3. allocp' \in Free' /\ allocp' # NULL
    BY <1>1, <1>3, <1>8, FreeAbove
  <2>4. Base \in DOMAIN hdr' /\ hdr'[Base].size = 0
    BY <1>2, <1>5, <1>6, Headers DEF IInv, Types
  <2> QED BY <1>3, <2>1, <2>2, <2>3, <2>4 DEF IInv, Types, InMalloc
<1>10. Tiled'
  <2>0. tail + nunits = p + hdr[p].size /\ p + left = tail
    BY <1>1, <1>2 DEF tail
  <2>1. \A b \in Blocks' : /\ b \in MemStart .. membase' - 1 /\ hdr'[b].size > 0
                           /\ b + hdr'[b].size <= membase'
    <3>1. \A b \in Blocks \ {p} : /\ b \in MemStart .. membase' - 1 /\ hdr'[b].size > 0
                                 /\ b + hdr'[b].size <= membase'
      BY <1>3, <1>6 DEF Blocks, IInv, Tiled
    <3>2. /\ p \in MemStart .. membase - 1 /\ p + hdr[p].size <= membase
          /\ membase \in Int
      BY <1>2, Headers, Constants DEF Blocks, IInv, Tiled
    <3>3. /\ p \in MemStart .. membase' - 1 /\ hdr'[p].size > 0
          /\ p + hdr'[p].size <= membase'
      BY <1>1, <1>2, <1>3, <1>4, <1>6, <2>0, <3>2
    <3>4. /\ tail \in MemStart .. membase' - 1 /\ hdr'[tail].size > 0
          /\ tail + hdr'[tail].size <= membase'
      BY <1>1, <1>2, <1>3, <1>4, <1>6, <2>0, <3>2, Constants
    <3> QED BY <1>7, <3>1, <3>3, <3>4
  <2>2. \A a, b \in Blocks' : a < b => a + hdr'[a].size <= b
    <3>1. \A b \in Blocks : b < tail => b + hdr'[b].size <= tail
      BY <1>1, <1>2, <1>4, <1>6, <2>0, Headers DEF Blocks
    <3>2. \A b \in Blocks : b > tail => tail + nunits <= b
      BY <1>1, <1>2, <1>4, <1>6, <2>0, Headers DEF Blocks
    <3>3. \A a, b \in Blocks : a < b => a + hdr'[a].size <= b
      BY <1>1, <1>2, <1>6, Headers DEF Blocks
    <3> QED BY <1>4, <1>6, <1>7, <3>1, <3>2, <3>3
  <2>3. ASSUME NEW u \in MemStart .. membase' - 1
        PROVE  \E b \in Blocks' : b <= u /\ u < b + hdr'[b].size
    <3>1. PICK b \in Blocks : b <= u /\ u < b + hdr[b].size
      BY <1>3 DEF IInv, Tiled
    <3>2. CASE b # p
      BY <1>6, <1>7, <3>1, <3>2 DEF Blocks
    <3>3. CASE b = p /\ u < tail
      BY <1>6, <1>7, <2>0, <3>1, <3>3
    <3>4. CASE b = p /\ ~(u < tail)
      BY <1>4, <1>6, <1>7, <2>0, <3>1, <3>4, Constants, Headers
    <3> QED BY <3>2, <3>3, <3>4
  <2> QED BY <2>1, <2>2, <2>3 DEF Tiled
<1>11. Circle'
  <2>1. \A b \in Free : Next(b)' = Next(b)
    BY <1>6 DEF Next, Free
  <2>2. Next(p) \in Free /\ Next(p) \in Int /\ (Next(p) <= p \/ Next(p) >= p + hdr[p].size)
    <3>1. Next(p) \in Free
      BY <1>1 DEF IInv, Circle
    <3>2. Next(p) \in DOMAIN hdr
      BY <3>1 DEF Free
    <3> QED BY <1>2, <3>1, <3>2, Headers
  <2>3. p + left # Next(p)
    BY <1>1, <1>2, <2>2
  <2> QED BY <1>1, <1>6, <1>8, <2>1, <2>3 DEF IInv, Circle, Free
<1>12. Searched'
  BY <1>3 DEF Searched
<1>13. Sizes'
  <2>1. \A b \in DOMAIN live' : live'[b] = IF b = tail THEN nbytes ELSE live[b]
    BY <1>3 DEF Put
  <2>2. p \notin DOMAIN live
    BY <1>1 DEF Free
  <2> QED BY <1>4, <1>6, <1>7, <2>1, <2>2 DEF IInv, Sizes, Types, Blocks, nunits
<1> QED BY <1>9, <1>10, <1>11, <1>12, <1>13 DEF IInv

LEMMA FitKeeps ==
  ASSUME IInv, MallocFit
  PROVE  IInv'
  BY TakeKeeps, CutKeeps

-----------------------------------------------------------------------------
\* No two blocks of the circle have the same next one.
LEMMA NextInjective ==
  ASSUME IInv, allocp # NULL, NEW a \in Free, NEW b \in Free, Next(a) = Next(b)
  PROVE  a = b
<1>1. Next(a) \in Free
  BY DEF IInv, Circle
<1>2. a \in Int /\ b \in Int /\ Next(a) \in Int
  BY <1>1, FreeAbove
<1>3. /\ IF a < Next(a) THEN b <= a \/ b >= Next(a) ELSE Next(a) <= b /\ b <= a
      /\ IF b < Next(a) THEN a <= b \/ a >= Next(a) ELSE Next(a) <= a /\ a <= b
  BY DEF IInv, Circle
<1> QED BY <1>2, <1>3

\* The place free has found: p is behind q, and before the next block if that
\* is not the beginning of the circle.
LEMMA Place ==
  ASSUME IInv, pc = "free", Between \/ AtEnd
  PROVE  /\ q \in Free /\ Next(q) \in Free /\ allocp # NULL
         /\ p \in Blocks \ DOMAIN live /\ p \notin Free
         /\ q < p /\ q + hdr[q].size <= p
         /\ \/ p < Next(q) /\ p + hdr[p].size <= Next(q)
            \/ Next(q) = Base /\ \A c \in Free : c <= q
<1> DEFINE n == Next(q)
<1>1. /\ q \in Free /\ n \in Free /\ allocp # NULL
      /\ p \in Blocks \ DOMAIN live /\ p \notin Free
  BY Running DEF IInv, Types, Free, Moving
<1>2. p \in DOMAIN hdr /\ q \in DOMAIN hdr /\ n \in DOMAIN hdr /\ p # Base
  BY <1>1 DEF Free, Blocks
<1>3. p \in Int /\ q \in Int /\ n \in Int /\ Base \in Int /\ p > Base /\ n >= Base
  BY <1>1, <1>2, Headers, FreeAbove, Constants
<1>4. CASE Between
  <2>1. q < p /\ p < n
    BY <1>3, <1>4 DEF Between, Next
  <2> QED BY <1>1, <1>2, <2>1, Headers
<1>5. CASE AtEnd
  <2>1. ~(q < n)
    BY <1>3, <1>5 DEF AtEnd, Next
  <2>2. \A c \in Free : n <= c /\ c <= q
    BY <1>1, <2>1 DEF IInv, Circle
  <2>3. n = Base
    BY <1>3, <2>2, Headers
  <2>4. q < p
    BY <1>3, <1>5, <2>3 DEF AtEnd, Next
  <2> QED BY <1>1, <1>2, <2>2, <2>3, <2>4, Headers
<1> QED BY <1>4, <1>5

\* free links its block, whole or as part of a neighbour: s is the block its
\* units are in then, and last the one behind which s ends.
LEMMA LinkKeeps ==
  ASSUME IInv, FreeLink
  PROVE  IInv'
<1> DEFINE n == Next(q)
           next == IF TouchesNext THEN hdr[n].ptr ELSE n
           size == IF TouchesNext THEN hdr[p].size + hdr[n].size ELSE hdr[p].size
           s == IF TouchesPrev THEN q ELSE p
           gone == (IF TouchesNext THEN {n} ELSE {}) \cup (IF TouchesPrev THEN {p} ELSE {})
<1>0. pc = "free" /\ (Between \/ AtEnd)
  BY DEF FreeLink
<1>1. /\ q \in Free /\ n \in Free /\ allocp # NULL
      /\ p \in Blocks \ DOMAIN live /\ p \notin Free
      /\ q < p /\ q + hdr[q].size <= p
      /\ \/ p < n /\ p + hdr[p].size <= n
         \/ n = Base /\ \A c \in Free : c <= q
  BY <1>0, Place
<1>2. /\ p \in DOMAIN hdr /\ q \in DOMAIN hdr /\ n \in DOMAIN hdr /\ p # Base
      /\ q \notin DOMAIN live /\ n \notin DOMAIN live
      /\ p # q /\ p # n
  BY <1>1 DEF Free, Blocks
<1>3. /\ p \in Int /\ q \in Int /\ n \in Int /\ p > Base /\ n >= Base /\ q >= Base
      /\ Base \in Int /\ hdr[Base].size = 0 /\ Base \in DOMAIN hdr
      /\ hdr[p].size \in Nat \ {0} /\ hdr[q].size \in Nat /\ hdr[n].size \in Nat
  BY <1>1, <1>2, Headers, FreeAbove, Constants DEF IInv, Types
<1>4. TouchesNext => n > p /\ n # Base /\ n # q /\ p + hdr[p].size = n
  BY <1>1, <1>3 DEF TouchesNext, Next
<1>5. TouchesPrev => q # Base /\ q + hdr[q].size = p
  BY <1>3 DEF TouchesPrev
<1>6. /\ DOMAIN hdr' = DOMAIN hdr \ gone
      /\ \A a \in DOMAIN hdr' : a # p /\ a # q => hdr'[a] = hdr[a]
      /\ hdr'[q] = IF TouchesPrev THEN [ptr |-> next, size |-> hdr[q].size + size]
                   ELSE [ptr |-> p, size |-> hdr[q].size]
      /\ ~TouchesPrev => hdr'[p] = [ptr |-> next, size |-> size]
  <2> DEFINE block == IF TouchesNext THEN Header(hdr[n].ptr, hdr[p].size + hdr[n].size)
                      ELSE Header(n, hdr[p].size)
             merged == IF TouchesPrev
                       THEN [hdr EXCEPT ![q] = Header(block.ptr, hdr[q].size + block.size)]
                       ELSE [hdr EXCEPT ![q].ptr = p, ![p] = block]
  <2>1. hdr' = [a \in DOMAIN hdr \ gone |-> merged[a]]
    BY DEF FreeLink, Next
  <2>2. block = [ptr |-> next, size |-> size]
    BY DEF Header
  <2>3. block.ptr = next /\ block.size = size
    BY <2>2
  <2> HIDE DEF block
  <2>4. CASE TouchesPrev
    <3>1. merged = [hdr EXCEPT ![q] = [ptr |-> next, size |-> hdr[q].size + size]]
      BY <2>3, <2>4 DEF Header
    <3>2. q \notin gone
      BY <1>2, <1>4
    <3> HIDE DEF gone, merged, next, size
    <3> QED BY <1>2, <2>1, <2>4, <3>1, <3>2
  <2>5. CASE ~TouchesPrev
    <3>1. merged = [hdr EXCEPT ![q].ptr = p, ![p] = [ptr |-> next, size |-> size]]
      BY <2>2, <2>5
    <3>2. q \notin gone /\ p \notin gone
      BY <1>2, <1>4, <2>5
    <3>3. hdr[q] = [ptr |-> hdr[q].ptr, size |-> hdr[q].size]
      BY <1>2 DEF IInv, Types
    <3> HIDE DEF gone, merged, next, size
    <3>4. /\ merged[q] = [hdr[q] EXCEPT !.ptr = p] /\ merged[p] = [ptr |-> next, size |-> size]
          /\ \A a \in DOMAIN hdr : a # p /\ a # q => merged[a] = hdr[a]
      BY <1>2, <3>1
    <3>5. [hdr[q] EXCEPT !.ptr = p] = [ptr |-> p, size |-> hdr[q].size]
      BY <3>3
    <3> QED BY <1>2, <2>1, <2>5, <3>2, <3>4, <3>5
  <2> QED BY <2>4, <2>5
<1>7. /\ membase' = membase /\ live' = live /\ allocp' = q /\ pc' \in {"idle", "malloc"}
      /\ pc' = "malloc" => /\ ret = "morecore" /\ ret' = ret /\ nbytes' = nbytes /\ q' = q
                           /\ p' = hdr'[q].ptr
      /\ pc' = "idle" => ret' = "user" /\ nbytes' = 0
  BY DEF FreeLink, Return
<1>8. /\ gone \subseteq DOMAIN hdr /\ gone \cap DOMAIN live = {} /\ Base \notin gone
      /\ q \notin gone /\ s \notin gone /\ s \in {p, q} /\ s # Base
      /\ n \in gone <=> TouchesNext
      /\ p \in gone <=> TouchesPrev
  BY <1>1, <1>2, <1>4, <1>5
<1>9. /\ size \in Nat \ {0} /\ size >= hdr[p].size
      /\ next \in Free /\ next \notin gone /\ next # p
      /\ TouchesNext => p + size = n + hdr[n].size /\ next = Next(n)
      /\ ~TouchesNext => size = hdr[p].size /\ next = n
  <2>1. CASE TouchesNext
    <3>1. Next(n) \in Free /\ Next(n) # n
      BY <1>1, <1>4, <2>1, NoLoop DEF IInv, Circle
    <3>2. next = Next(n) /\ size = hdr[p].size + hdr[n].size
      BY <2>1 DEF Next
    <3>3. next \notin gone /\ next # p
      BY <1>1, <3>1, <3>2
    <3> QED BY <1>3, <1>4, <2>1, <3>1, <3>2, <3>3
  <2>2. CASE ~TouchesNext
    <3>1. next = n /\ size = hdr[p].size
      BY <2>2
    <3>2. next \notin gone
      BY <1>2, <2>2, <3>1
    <3> QED BY <1>1, <1>2, <1>3, <2>2, <3>1, <3>2
  <2> QED BY <2>1, <2>2
<1>10. /\ s \in DOMAIN hdr' /\ q \in DOMAIN hdr' /\ Base \in DOMAIN hdr'
       /\ hdr'[s].ptr = next /\ s + hdr'[s].size = p + size /\ hdr'[s].size \in Nat \ {0}
       /\ s # q => hdr'[q].ptr = p /\ hdr'[q].size = hdr[q].size /\ s = p
       /\ \A a \in DOMAIN hdr' : a # s => hdr'[a].size = hdr[a].size
  <2>1. s \in DOMAIN hdr' /\ q \in DOMAIN hdr' /\ Base \in DOMAIN hdr'
    BY <1>2, <1>3, <1>6, <1>8
  <2> HIDE DEF next, size, gone
  <2>2. CASE TouchesPrev
    <3>1. s = q /\ hdr'[s] = [ptr |-> next, size |-> hdr[q].size + size]
      BY <1>6, <2>2
    <3>2. \A a \in DOMAIN hdr' : a # s => hdr'[a] = hdr[a]
      BY <1>6, <1>8, <2>2, <3>1
    <3> QED BY <1>3, <1>5, <1>9, <2>1, <2>2, <3>1, <3>2
  <2>3. CASE ~TouchesPrev
    <3>1. s = p /\ hdr'[p] = [ptr |-> next, size |-> size]
          /\ hdr'[q] = [ptr |-> p, size |-> hdr[q].size]
      BY <1>6, <2>3
    <3> QED BY <1>3, <1>6, <1>9, <2>1, <3>1
  <2> QED BY <2>2, <2>3
<1>11. Free' = (Free \cup {p}) \ gone
  <2>1. Free = (DOMAIN hdr \ DOMAIN live) \ {p}
    BY <1>0 DEF Free, Moving
  <2>2. Free' = DOMAIN hdr' \ DOMAIN live
    BY <1>7 DEF Free, Moving
  <2> HIDE DEF gone
  <2> QED BY <1>1, <1>2, <1>6, <1>8, <2>1, <2>2
<1>12. Blocks' = Blocks \ gone
  <2> HIDE DEF gone
  <2> QED BY <1>6 DEF Blocks
<1>13. q \in Free' /\ s \in Free' /\ next \in Free'
  <2> HIDE DEF gone, next, s
  <2> QED BY <1>1, <1>8, <1>9, <1>11
<1> HIDE DEF next, size, s, gone
<1>14. Types'
  <2>1. hdr' \in [DOMAIN hdr' -> [ptr : Address, size : Nat]]
    <3>0. \A b \in DOMAIN hdr : hdr[b] \in [ptr : Address, size : Nat] /\ b \in Address
      <4>1. \A b \in DOMAIN hdr : b # Base => b \in MemStart .. membase - 1
        BY DEF IInv, Tiled, Blocks
      <4>2. membase \in MemStart .. MemLimit
        BY DEF IInv, Types
      <4> QED BY <4>1, <4>2, Constants DEF IInv, Types, Address
    <3>1. next \in Address
      BY <1>9, <3>0 DEF Free
    <3>2. p \in Address
      BY <1>2, <3>0
    <3>3. hdr'[q] \in [ptr : Address, size : Nat]
      BY <1>3, <1>6, <1>9, <3>1, <3>2
    <3>4. p \in DOMAIN hdr' => hdr'[p] \in [ptr : Address, size : Nat]
      BY <1>6, <1>8, <1>9, <3>1
    <3>5. \A b \in DOMAIN hdr' : hdr'[b] \in [ptr : Address, size : Nat]
      BY <1>6, <3>0, <3>3, <3>4
    <3>6. hdr' = [a \in DOMAIN hdr' |-> hdr'[a]]
      BY DEF FreeLink
    <3> QED BY <3>5, <3>6
  <2>2. hdr'[Base].size = 0
    BY <1>3, <1>8, <1>10
  <2>3. DOMAIN live' \subseteq Blocks'
    BY <1>7, <1>8, <1>12 DEF IInv, Types
  <2>4. allocp' \in Free' /\ allocp' # NULL
    BY <1>1, <1>7, <1>13, FreeAbove
  <2>5. pc' = "malloc" => nbytes' \in Requests
    BY <1>0, <1>7, Running
  <2> QED BY <1>7, <1>10, <1>13, <2>1, <2>2, <2>3, <2>4, <2>5 DEF IInv, Types, InMalloc
<1>15. Tiled'
  <2>0. p + size <= membase /\ membase \in Int
    BY <1>2, <1>3, <1>9, Headers
  <2>1. \A b \in Blocks' : /\ b \in MemStart .. membase' - 1 /\ hdr'[b].size > 0
                           /\ b + hdr'[b].size <= membase'
    <3>1. \A b \in Blocks : /\ b \in MemStart .. membase - 1 /\ hdr[b].size > 0
                            /\ b + hdr[b].size <= membase
      BY DEF IInv, Tiled
    <3>2. \A b \in Blocks' \ {s} : hdr'[b].size = hdr[b].size
      BY <1>10 DEF Blocks
    <3> QED BY <1>7, <1>10, <1>12, <2>0, <3>1, <3>2
  <2>2. \A a, b \in Blocks' : a < b => a + hdr'[a].size <= b
    <3>1. ASSUME NEW b \in Blocks', s < b
          PROVE  p + size <= b
      <4>1. b \in DOMAIN hdr /\ b \in Int /\ b \notin gone
        BY <1>12, Headers DEF Blocks
      <4>2. p < b
        <5>1. CASE TouchesPrev
          <6>1. s = q /\ b # p
            BY <1>8, <4>1, <5>1 DEF s
          <6> QED BY <1>2, <1>3, <1>5, <3>1, <4>1, <5>1, <6>1, Headers
        <5>2. CASE ~TouchesPrev
          BY <3>1, <5>2 DEF s
        <5> QED BY <5>1, <5>2
      <4>3. p + hdr[p].size <= b
        BY <1>2, <4>1, <4>2, Headers
      <4>4. CASE TouchesNext
        <5>1. n < b
          BY <1>3, <1>4, <1>8, <4>1, <4>3, <4>4
        <5> QED BY <1>2, <1>9, <4>1, <4>4, <5>1, Headers
      <4> QED BY <1>9, <4>3, <4>4
    <3>2. \A b \in Blocks' : s < b => s + hdr'[s].size <= b
      BY <1>10, <3>1
    <3>3. \A a, b \in Blocks' : a < b /\ a # s => a + hdr'[a].size <= b
      BY <1>10, <1>12, Headers DEF Blocks
    <3> QED BY <3>2, <3>3
  <2>3. ASSUME NEW u \in MemStart .. membase' - 1
        PROVE  \E b \in Blocks' : b <= u /\ u < b + hdr'[b].size
    <3>1. PICK b \in Blocks : b <= u /\ u < b + hdr[b].size
      BY <1>7 DEF IInv, Tiled
    <3>2. b \in DOMAIN hdr /\ b \in Int /\ hdr[b].size \in Nat /\ u \in Int
      BY <3>1, Headers, Constants DEF Blocks
    <3>3. s \in Blocks'
      BY <1>8, <1>10 DEF Blocks
    <3>4. CASE b \notin gone /\ b # s
      BY <1>6, <1>10, <1>12, <3>1, <3>4 DEF Blocks
    <3>5. CASE b \in {p, n} /\ b \in gone \cup {s}
      <4>1. b <= u /\ u < p + size
        <5>1. CASE b = p
          BY <1>3, <1>9, <3>1, <3>2, <5>1
        <5>2. CASE b = n /\ TouchesNext
          BY <1>9, <3>1, <5>2
        <5>3. CASE b = n /\ ~TouchesNext /\ n # p
          <6>1. b = s /\ s = q
            BY <1>8, <3>5, <5>3 
          <6> QED BY <1>1, <1>3, <1>9, <3>1, <3>2, <5>3, <6>1, Headers
        <5> QED BY <3>5, <5>1, <5>2, <5>3
      <4>2. s <= b
        <5>1. s <= p
          BY <1>3, <1>1, <1>8
        <5>2. b = n /\ TouchesNext => p < b
          BY <1>4
        <5>3. b = n /\ ~TouchesNext => b = s \/ b = p
          BY <1>8, <3>5
        <5> QED BY <1>3, <1>8, <3>2, <3>5, <5>1, <5>2, <5>3
      <4> QED BY <1>3, <1>8, <1>10, <3>2, <3>3, <4>1, <4>2
    <3>6. CASE b = q /\ s = q
      <4>1. u < p + size
        BY <1>1, <1>3, <1>9, <3>1, <3>2, <3>6
      <4> QED BY <1>10, <3>1, <3>3, <3>6, <4>1
    <3>7. gone \subseteq {p, n}
      BY DEF gone
    <3> QED BY <1>8, <3>4, <3>5, <3>6, <3>7
  <2> QED BY <2>1, <2>2, <2>3 DEF Tiled
<1>16. Circle'
  <2> SUFFICES ASSUME NEW b \in Free'
               PROVE  /\ Next(b)' \in Free'
                      /\ \A c \in Free' : IF b < Next(b)' THEN c <= b \/ c >= Next(b)'
                                          ELSE Next(b)' <= c /\ c <= b
                      /\ b = Base \/ b + hdr'[b].size # Next(b)'
    BY DEF Circle
  <2>0. /\ b \in DOMAIN hdr' /\ b \notin gone
        /\ \A c \in Free' : c \in Int /\ c >= Base /\ c \notin gone /\ (c \in Free \/ c = p)
        /\ \A c \in Free : c \in Int /\ c >= Base
    <3>1. b \in DOMAIN hdr'
      BY DEF Free
    <3> QED BY <1>3, <1>11, <3>1, FreeAbove
  <2>1. /\ \A c \in Free : IF q < n THEN c <= q \/ c >= n ELSE n <= c /\ c <= q
        /\ \A c \in Free : IF n < Next(n) THEN c <= n \/ c >= Next(n)
                           ELSE Next(n) <= c /\ c <= n
        /\ Next(n) \in Free
    BY <1>1 DEF IInv, Circle
  <2>2. CASE b = s
    <3>1. Next(b)' = next /\ next \in Int
      BY <1>10, <1>13, <2>0, <2>2 DEF Next
    <3>2. b + hdr'[b].size # next
      <4>1. CASE TouchesNext
        BY <1>1, <1>4, <1>9, <1>10, <2>2, <4>1 DEF IInv, Circle
      <4>2. CASE ~TouchesNext
        BY <1>9, <1>10, <2>2, <4>2 DEF TouchesNext, Next
      <4> QED BY <4>1, <4>2
    <3>3. ASSUME NEW c \in Free'
          PROVE  IF s < next THEN c <= s \/ c >= next ELSE next <= c /\ c <= s
      <4>1. c \in Int /\ c \notin gone /\ (c \in Free \/ c = p)
        BY <2>0
      <4>2. s \in Int /\ (s = p \/ s = q) /\ (c = p => s = p)
        BY <1>3, <1>8, <4>1 DEF s
      <4>3. CASE ~TouchesNext
        <5>1. next = n
          BY <1>9, <4>3
        <5> QED BY <1>1, <1>3, <2>1, <4>1, <4>2, <5>1
      <4>4. CASE TouchesNext
        <5>1. next = Next(n) /\ n > p /\ c # n
          BY <1>4, <1>8, <1>9, <4>1, <4>4
        <5>2. q < n /\ q <= s /\ s <= p /\ q < p /\ next \in Int
          BY <1>1, <1>3, <1>13, <2>0, <4>2, <5>1
        <5>3. c \in Free => c <= q \/ c > n
          BY <1>3, <2>1, <4>1, <5>1, <5>2
        <5>4. CASE n < next
          <6>1. c \in Free => c <= n \/ c >= next
            BY <2>1, <5>1, <5>4
          <6> QED BY <1>3, <4>1, <4>2, <5>1, <5>2, <5>3, <5>4, <6>1
        <5>5. CASE ~(n < next)
          <6>1. \A d \in Free : next <= d /\ d <= n
            BY <2>1, <5>1, <5>5
          <6>2. next <= q
            BY <1>1, <6>1
          <6> QED BY <1>3, <4>1, <4>2, <5>2, <5>3, <6>1, <6>2
        <5> QED BY <5>4, <5>5
      <4> QED BY <4>3, <4>4
    <3> QED BY <1>13, <2>2, <3>1, <3>2, <3>3
  <2>3. CASE b = q /\ b # s
    <3>1. Next(b)' = p /\ hdr'[b].size = hdr[b].size /\ s = p /\ ~TouchesPrev
      BY <1>10, <2>3 DEF Next, s
    <3>2. b + hdr[b].size # p
      BY <2>3, <3>1 DEF TouchesPrev
    <3>3. \A c \in Free' : c <= q \/ c >= p
      BY <1>1, <1>3, <2>0, <2>1
    <3> QED BY <1>1, <1>13, <2>3, <3>1, <3>2, <3>3
  <2>4. CASE b # q /\ b # s
    <3>1. b \in Free /\ b # p
      <4>1. b = p => s = p
        BY <1>8, <2>0 DEF s
      <4> QED BY <2>0, <2>4, <4>1
    <3>2. /\ Next(b)' = Next(b) /\ hdr'[b].size = hdr[b].size /\ Next(b) \in Free
          /\ Next(b) # n
      BY <1>1, <1>6, <2>0, <2>4, <3>1, NextInjective DEF Next, IInv, Circle
    <3>3. Next(b) \in Free'
      <4>1. Next(b) \notin gone
        BY <1>1, <3>2 DEF gone
      <4> QED BY <1>11, <3>2, <4>1
    <3>4. /\ \A c \in Free : IF b < Next(b) THEN c <= b \/ c >= Next(b)
                             ELSE Next(b) <= c /\ c <= b
          /\ b = Base \/ b + hdr[b].size # Next(b)
      BY <1>1, <3>1 DEF IInv, Circle
    <3>5. IF b < Next(b) THEN p <= b \/ p >= Next(b) ELSE Next(b) <= p /\ p <= b
      <4>1. b \in Int /\ Next(b) \in Int
        BY <2>0, <3>1, <3>2
      <4>2. IF b < Next(b) THEN q <= b \/ q >= Next(b) ELSE Next(b) <= q /\ q <= b
        BY <1>1, <3>4
      <4>3. IF q < n THEN b <= q \/ b >= n ELSE n <= b /\ b <= q
        BY <2>1, <3>1
      <4> QED BY <1>1, <1>3, <2>4, <3>1, <4>1, <4>2, <4>3
    <3> QED BY <2>0, <3>2, <3>3, <3>4, <3>5
  <2> QED BY <2>2, <2>3, <2>4
<1>17. Searched'
  <2>1. pc' = "malloc" => \A b \in Free' : ~Past(b)'
    <3>1. \A b \in Free' : b \in Int
      BY <1>3, <1>11, FreeAbove
    <3> QED BY <1>3, <1>7, <3>1 DEF Past
  <2>2. pc' = "malloc" => \E b \in Free' : hdr'[b].size >= nunits'
    <3> SUFFICES ASSUME pc' = "malloc" PROVE hdr'[s].size >= nunits'
      BY <1>13
    <3>1. hdr[p].size >= nunits /\ nunits' = nunits
      BY <1>0, <1>7 DEF IInv, Searched, nunits
    <3>2. nunits \in Nat
      BY <1>0, <1>7, Running, UnitsHold DEF nunits
    <3>3. s <= p /\ s \in Int
      BY <1>1, <1>3, <1>8
    <3> QED BY <1>3, <1>9, <1>10, <3>1, <3>2, <3>3
  <2> QED BY <1>7, <2>1, <2>2 DEF Searched
<1>18. Sizes'
  <2>1. \A b \in DOMAIN live : b \in DOMAIN hdr' /\ b # s
    BY <1>1, <1>2, <1>6, <1>8 DEF IInv, Types, Blocks
  <2> QED BY <1>7, <1>10, <2>1 DEF IInv, Sizes
<1> QED BY <1>14, <1>15, <1>16, <1>17, <1>18 DEF IInv

-----------------------------------------------------------------------------
LEMMA NextKeeps == IInv /\ [HeapNext]_vars => IInv'
<1> SUFFICES ASSUME IInv, [HeapNext]_vars PROVE IInv'
  OBVIOUS
<1>1. CASE \E n \in Requests : InBound(n) /\ malloc(n)
  BY <1>1, MallocKeeps
<1>2. CASE \E b \in DOMAIN live : free(b)
  BY <1>2, FreeKeeps
<1>3. CASE Step
  BY <1>3, FitKeeps, MallocNextKeeps, MorecoreKeeps, FreeNextKeeps, LinkKeeps DEF Step
<1>4. CASE UNCHANGED vars
  <2>1. /\ UNCHANGED <<hdr, allocp, membase, live, pc, ret, p, q, nbytes>>
    BY <1>4 DEF vars
  <2>2. Free' = Free /\ Blocks' = Blocks /\ nunits' = nunits /\ rnu' = rnu
    BY <2>1 DEF Free, Moving, Blocks, nunits, rnu
  <2>3. Types' /\ Tiled'
    BY <2>1, <2>2 DEF IInv, Types, Tiled, InMalloc
  <2>4. Circle' /\ Searched' /\ Sizes'
    BY <2>1, <2>2 DEF IInv, Circle, Next, Searched, Past, Sizes
  <2> QED BY <2>3, <2>4 DEF IInv
<1> QED BY <1>1, <1>2, <1>3, <1>4 DEF HeapNext

LEMMA Inductive == HeapSpec => []IInv
  BY InitIInv, NextKeeps, PTL DEF HeapSpec

(* For any sizes and any order of calls the free list is one circle through  *)
(* base in the order of addresses, with no two neighbours left unmerged      *)
(* (malloc.c:115-135).                                                       *)
THEOREM ListIsSound == HeapSpec => []ListSound
<1>1. ASSUME IInv
      PROVE  HeapTypeOK
  <2>1. DOMAIN hdr \subseteq {Base} \cup MemStart .. MemLimit /\ Base \in DOMAIN hdr
    <3>1. \A b \in DOMAIN hdr : b # Base => b \in MemStart .. MemLimit
      BY <1>1, Headers, Constants
    <3> QED BY <1>1, <3>1 DEF IInv, Types
  <2>2. \A b \in DOMAIN hdr : /\ hdr[b].ptr \in {NULL, Base} \cup MemStart .. MemLimit
                              /\ hdr[b].size \in 0 .. MemLimit
    <3> SUFFICES ASSUME NEW b \in DOMAIN hdr
                 PROVE  /\ hdr[b].ptr \in {NULL, Base} \cup MemStart .. MemLimit
                        /\ hdr[b].size \in 0 .. MemLimit
      OBVIOUS
    <3>1. hdr[b].ptr \in Address
      BY <1>1 DEF IInv, Types
    <3>2. hdr[b].size <= MemLimit
      BY <1>1, Headers, Constants
    <3> QED BY <1>1, <3>1, <3>2, Headers, Constants DEF Address
  <2> QED BY <1>1, <2>1, <2>2 DEF IInv, Types, HeapTypeOK
<1>2. IInv => ListSound
  BY <1>1 DEF IInv, Circle, ListSound
<1> QED BY <1>2, Inductive, PTL

(* Every unit morecore was given is in exactly one block, however blocks are  *)
(* split and merged.                                                        *)
THEOREM NothingLeaks == HeapSpec => []NoLeak
<1>1. ASSUME IInv, NEW u \in MemStart .. membase - 1
      PROVE  Cardinality({b \in Blocks : u \in b .. b + hdr[b].size - 1}) = 1
  <2>1. PICK b \in Blocks : b <= u /\ u < b + hdr[b].size
    BY <1>1 DEF IInv, Tiled
  <2>2. \A a \in Blocks : a \in Int /\ hdr[a].size \in Nat
    BY <1>1, Headers DEF Blocks
  <2>3. \A a \in Blocks : u \in a .. a + hdr[a].size - 1 => a = b
    <3> SUFFICES ASSUME NEW a \in Blocks, u \in a .. a + hdr[a].size - 1 PROVE a = b
      OBVIOUS
    <3>1. a <= u /\ u < a + hdr[a].size /\ u \in Int
      BY <1>1, <2>2, Headers, Constants
    <3>2. a < b => a + hdr[a].size <= b
      BY <1>1 DEF IInv, Tiled
    <3>3. b < a => b + hdr[b].size <= a
      BY <1>1 DEF IInv, Tiled
    <3> QED BY <2>1, <2>2, <3>1, <3>2, <3>3
  <2>4. {a \in Blocks : u \in a .. a + hdr[a].size - 1} = {b}
    BY <1>1, <2>1, <2>2, <2>3, Constants, Headers
  <2> QED BY <2>4, FS_Singleton
<1>2. IInv => NoLeak
  BY <1>1 DEF IInv, Tiled, NoLeak
<1> QED BY <1>2, Inductive, PTL

(* morecore grows memory only when the search has been once around and no    *)
(* free block is big enough (malloc.c:90-91).                               *)
THEOREM GrowsOnlyWhenFull == HeapSpec => GrowsWhenFull
<1>1. ASSUME IInv, [HeapNext]_vars, membase' # membase
      PROVE  \A b \in Free : hdr[b].size < nunits
  <2>1. morecore
    BY <1>1 DEF HeapNext, Step, vars, malloc, free, MallocFit, MallocNext, FreeNext, FreeLink
  <2> QED BY <1>1, <2>1, AllSeen DEF morecore, Exhausted
<1>2. IInv /\ [HeapNext]_vars
      => [membase' # membase => \A b \in Free : hdr[b].size < nunits]_vars
  BY <1>1
<1> QED BY <1>2, Inductive, PTL DEF HeapSpec, GrowsWhenFull

-----------------------------------------------------------------------------
\* The map to Allocator.tla: block b has its bytes from At(b) on.
At(b) == (b + 1) * Unit
AbsMemory == MemStart * Unit .. membase * Unit - 1
AbsUsed == [a \in {At(b) : b \in DOMAIN live} |-> live[a \div Unit - 1]]
AbsAsked == IF InMalloc THEN nbytes ELSE -1

LEMMA Monotonic == \A x, y \in Int : x <= y => x * Unit <= y * Unit
<1> SUFFICES ASSUME NEW x \in Int, NEW y \in Int, x <= y PROVE x * Unit <= y * Unit
  OBVIOUS
<1>1. (y - x) * Unit >= 0
  BY Constants
<1> QED BY <1>1, Constants

LEMMA Back == \A b \in Nat : At(b) \in Int /\ At(b) \div Unit - 1 = b
<1> SUFFICES ASSUME NEW b \in Nat PROVE At(b) \in Int /\ At(b) \div Unit - 1 = b
  OBVIOUS
<1>1. At(b) \in Int
  BY Constants DEF At
<1> DEFINE d == At(b) \div Unit
           r == At(b) % Unit
<1>2. d \in Int /\ r \in Int /\ 0 <= r /\ r < Unit /\ At(b) = d * Unit + r
  BY <1>1, Constants
<1> HIDE DEF d, r
<1>3. (b + 1) * Unit = d * Unit + r
  BY <1>2 DEF At
<1>4. ~(d < b + 1)
  <2> SUFFICES ASSUME d + 1 <= b + 1 PROVE FALSE
    BY <1>2
  <2>1. (d + 1) * Unit <= (b + 1) * Unit
    BY <1>2, Monotonic
  <2>2. (d + 1) * Unit = d * Unit + Unit
    BY <1>2, Constants
  <2> QED BY <1>2, <1>3, <2>1, <2>2, Constants
<1>5. ~(d > b + 1)
  <2> SUFFICES ASSUME b + 2 <= d PROVE FALSE
    BY <1>2
  <2>1. (b + 2) * Unit <= d * Unit
    BY <1>2, Monotonic
  <2>2. (b + 2) * Unit = (b + 1) * Unit + Unit
    BY Constants
  <2> QED BY <1>2, <1>3, <2>1, <2>2, Constants
<1> QED BY <1>1, <1>2, <1>4, <1>5 DEF d

\* A block holds the bytes asked for, behind its header and before its end.
LEMMA Inside ==
  ASSUME NEW b \in Nat, NEW n \in Requests, NEW s \in Int, s >= Units(n)
  PROVE  At(b) + n <= (b + s) * Unit
<1>1. n \in Nat /\ Units(n) \in Nat /\ n <= (Units(n) - 1) * Unit
  BY UnitsHold
<1>2. n <= (s - 1) * Unit
  <2>1. (Units(n) - 1) * Unit <= (s - 1) * Unit
    BY <1>1, Monotonic
  <2>2. (s - 1) * Unit \in Int /\ (Units(n) - 1) * Unit \in Int
    BY <1>1, Constants
  <2> QED BY <1>1, <2>1, <2>2
<1>3. (b + s) * Unit = (b + 1) * Unit + (s - 1) * Unit
  BY Constants
<1>4. (b + 1) * Unit \in Int /\ (s - 1) * Unit \in Int
  BY Constants
<1> QED BY <1>1, <1>2, <1>3, <1>4 DEF At

LEMMA UsedStarts ==
  ASSUME IInv
  PROVE  /\ DOMAIN AbsUsed = {At(b) : b \in DOMAIN live}
         /\ \A b \in DOMAIN live : b \in Nat /\ AbsUsed[At(b)] = live[b]
<1>1. \A b \in DOMAIN live : b \in Nat
  BY Headers, Constants DEF IInv, Types, Blocks
<1>2. \A b \in DOMAIN live : At(b) \div Unit - 1 = b
  BY <1>1, Back
<1> QED BY <1>1, <1>2 DEF AbsUsed

LEMMA AsksMap ==
  ASSUME IInv, NEW n \in Requests, malloc(n)
  PROVE  Abs!Ask(n)
<1>1. AbsAsked = -1 /\ AbsAsked' = n
  BY DEF malloc, AbsAsked, InMalloc
<1>2. UNCHANGED <<AbsMemory, AbsUsed>>
  BY DEF malloc, AbsMemory, AbsUsed, At
<1> QED BY <1>1, <1>2 DEF Abs!Ask, Abs!None, AbsMemory, AbsUsed, AbsAsked, At

LEMMA FreeMaps ==
  ASSUME IInv, NEW b \in DOMAIN live, free(b)
  PROVE  \E a \in DOMAIN AbsUsed : Abs!GiveBack(a)
<1>1. AbsAsked = -1 /\ AbsAsked' = -1 /\ UNCHANGED AbsMemory
  BY DEF free, AbsAsked, AbsMemory, InMalloc
<1>2. At(b) \in DOMAIN AbsUsed
  BY UsedStarts
<1>3. \A c \in DOMAIN live : c # b => At(c) # At(b)
  BY UsedStarts, Back
<1>4. /\ live' = [a \in DOMAIN live \ {b} |-> live[a]]
      /\ DOMAIN live' = DOMAIN live \ {b}
  BY DEF free
<1>5. AbsUsed' = [a \in {At(c) : c \in DOMAIN live'} |-> live'[a \div Unit - 1]]
  BY DEF AbsUsed, At
<1>6. {At(c) : c \in DOMAIN live'} = DOMAIN AbsUsed \ {At(b)}
  BY <1>3, <1>4, UsedStarts
<1>7. ASSUME NEW a \in DOMAIN AbsUsed \ {At(b)}
      PROVE  live'[a \div Unit - 1] = AbsUsed[a]
  <2>1. PICK c \in DOMAIN live : a = At(c)
    BY UsedStarts
  <2>2. c \in DOMAIN live' /\ a \div Unit - 1 = c
    BY <1>4, <1>7, <2>1, UsedStarts, Back
  <2> QED BY <1>4, <2>1, <2>2, UsedStarts
<1>8. AbsUsed' = [a \in DOMAIN AbsUsed \ {At(b)} |-> AbsUsed[a]]
  BY <1>5, <1>6, <1>7
<1>9. Abs!GiveBack(At(b))
  BY <1>1, <1>2, <1>8 DEF Abs!GiveBack, Abs!None, AbsMemory, AbsUsed, AbsAsked, At
<1> QED BY <1>2, <1>9

LEMMA GrowMaps ==
  ASSUME IInv, morecore
  PROVE  Abs!Grow
<1>1. nbytes \in Requests /\ pc = "malloc"
  BY Running DEF morecore
<1>2. AbsAsked # -1 /\ AbsAsked' = AbsAsked /\ AbsUsed' = AbsUsed
  BY <1>1, UnitsHold DEF morecore, AbsAsked, AbsUsed, InMalloc, At
<1>3. AbsMemory \subseteq AbsMemory'
  <2>1. membase' = membase + rnu /\ rnu \in Nat /\ membase \in Int /\ membase' \in Int
    BY <1>1, RoundedUp, Headers DEF morecore, rnu
  <2>2. membase * Unit <= membase' * Unit
    BY <2>1, Monotonic
  <2>3. membase * Unit \in Int /\ membase' * Unit \in Int /\ MemStart * Unit \in Int
    BY <2>1, Constants
  <2> QED BY <2>2, <2>3, Constants DEF AbsMemory
<1> QED BY <1>2, <1>3 DEF Abs!Grow, Abs!None, AbsMemory, AbsUsed, AbsAsked, At

\* The block malloc hands out is one nobody held.
LEMMA FitHandsOut ==
  ASSUME IInv, MallocFit
  PROVE  \E block \in Blocks' :
           /\ live' = Put(live, block, nbytes) /\ block \notin DOMAIN live
           /\ DOMAIN live \subseteq DOMAIN live' /\ block \in DOMAIN live'
<1> DEFINE left == hdr[p].size - nunits
           block == IF left = 0 THEN p ELSE p + left
<1>1. live' = Put(live, block, nbytes)
  BY DEF MallocFit, TailOf
<1>2. q \in Free /\ p \in Free /\ nunits \in Nat \ {0} /\ pc = "malloc"
  BY Running, UnitsHold DEF MallocFit, nunits
<1>3. p \in DOMAIN hdr /\ p \notin DOMAIN live /\ p \in Int /\ hdr[p].size \in Nat
  BY <1>2, Headers DEF Free
<1>4. block \notin DOMAIN live
  <2>1. CASE left = 0
    BY <1>3, <2>1
  <2>2. CASE left # 0
    <3>1. left > 0 /\ p + left < p + hdr[p].size
      BY <1>2, <1>3, <2>2 DEF MallocFit
    <3>2. \A a \in DOMAIN hdr : a <= p \/ p + hdr[p].size <= a
      BY <1>3, Headers
    <3>3. p + left \notin DOMAIN hdr
      BY <1>2, <1>3, <3>1, <3>2, Headers
    <3> QED BY <2>2, <3>3 DEF IInv, Types, Blocks
  <2> QED BY <2>1, <2>2
<1>5. DOMAIN live' = DOMAIN live \cup {block}
  BY <1>1 DEF Put
<1>6. block \in Blocks'
  BY <1>5, FitKeeps DEF IInv, Types
<1> HIDE DEF block
<1> QED BY <1>1, <1>4, <1>5, <1>6

LEMMA AnswerMaps ==
  ASSUME IInv, MallocFit
  PROVE  \E a \in AbsMemory \cup {m + 1 : m \in AbsMemory} : Abs!Answer(a)
<1>1. IInv'
  BY FitKeeps
<1>2. PICK b \in Blocks' : /\ live' = Put(live, b, nbytes) /\ b \notin DOMAIN live
                           /\ DOMAIN live \subseteq DOMAIN live' /\ b \in DOMAIN live'
  BY FitHandsOut
<1>3. /\ nbytes \in Requests /\ pc = "malloc" /\ pc' = "idle" /\ ret' = "user"
      /\ membase' = membase /\ nbytes \in Nat
  BY Running, UnitsHold DEF MallocFit, Return
<1>4. AbsAsked = nbytes /\ AbsAsked # -1 /\ AbsAsked' = -1 /\ AbsMemory' = AbsMemory
  BY <1>3 DEF AbsAsked, InMalloc, AbsMemory
<1>5. /\ \A c \in DOMAIN live : live'[c] = live[c]
      /\ live'[b] = nbytes /\ DOMAIN live' = DOMAIN live \cup {b}
  BY <1>2 DEF Put
<1>6. /\ \A c \in DOMAIN live' :
           /\ c \in Nat /\ live'[c] \in Requests /\ hdr'[c].size = Units(live'[c])
           /\ MemStart <= c /\ c + hdr'[c].size <= membase
           /\ hdr'[c].size \in Int
      /\ \A c, d \in DOMAIN live' : c < d => c + hdr'[c].size <= d
  <2>1. DOMAIN live' \subseteq Blocks' /\ \A c \in DOMAIN live' : live'[c] \in Requests
    BY <1>1 DEF IInv, Types
  <2>2. \A c \in DOMAIN live' : hdr'[c].size = Units(live'[c])
    BY <1>1 DEF IInv, Sizes
  <2>3. \A c \in Blocks' : c \in MemStart .. membase' - 1 /\ c + hdr'[c].size <= membase'
    BY <1>1 DEF IInv, Tiled
  <2>4. membase' \in Int
    BY <1>3, Headers
  <2>5. \A c, d \in DOMAIN live' : c < d => c + hdr'[c].size <= d
    BY <1>1, <2>1 DEF IInv, Tiled
  <2> QED BY <1>3, <2>1, <2>2, <2>3, <2>4, <2>5, UnitsHold, Constants
<1>7. \A c \in DOMAIN live' : At(c) + live'[c] <= (c + hdr'[c].size) * Unit
  BY <1>6, UnitsHold, Inside
<1>8. \A c, d \in DOMAIN live' : c < d => At(c) + live'[c] <= At(d)
  <2> SUFFICES ASSUME NEW c \in DOMAIN live', NEW d \in DOMAIN live', c < d
               PROVE  At(c) + live'[c] <= At(d)
    OBVIOUS
  <2>1. c + hdr'[c].size <= d + 1
    BY <1>6
  <2>2. (c + hdr'[c].size) * Unit <= At(d)
    BY <1>6, <2>1, Monotonic DEF At
  <2>3. /\ (c + hdr'[c].size) * Unit \in Int /\ At(c) \in Int /\ At(d) \in Int
        /\ live'[c] \in Int
    BY <1>6, UnitsHold, Constants DEF At
  <2> QED BY <1>7, <2>2, <2>3
<1>9. MemStart * Unit < At(b) /\ At(b) + nbytes <= membase * Unit
  <2>1. b \in Nat /\ membase \in Int /\ MemStart <= b /\ b + hdr'[b].size <= membase
    BY <1>2, <1>6, Headers
  <2>2. MemStart * Unit <= b * Unit /\ At(b) = b * Unit + Unit /\ b * Unit \in Int
    BY <2>1, Monotonic, Constants DEF At
  <2>3. (b + hdr'[b].size) * Unit <= membase * Unit
    BY <1>2, <1>6, <2>1, Monotonic
  <2>4. (b + hdr'[b].size) * Unit \in Int /\ membase * Unit \in Int /\ MemStart * Unit \in Int
    BY <1>2, <1>6, <2>1, Constants
  <2> QED BY <1>2, <1>3, <1>5, <1>7, <2>2, <2>3, <2>4, Constants
<1>10. /\ MemStart * Unit \in Int /\ membase * Unit \in Int /\ At(b) \in Int
       /\ b \in Nat
  BY <1>2, <1>6, Headers, Constants DEF At
<1>11. At(b) \in AbsMemory \cup {m + 1 : m \in AbsMemory}
  <2>1. At(b) - 1 \in AbsMemory
    BY <1>3, <1>9, <1>10 DEF AbsMemory
  <2> QED BY <1>10, <2>1
<1>12. At(b) \notin DOMAIN AbsUsed
  BY <1>2, <1>10, UsedStarts, Back
<1>13. \A i \in At(b) .. At(b) + nbytes - 1 : i \in AbsMemory
  BY <1>3, <1>9, <1>10 DEF AbsMemory
<1>14. ASSUME NEW a \in DOMAIN AbsUsed
       PROVE  (At(b) .. At(b) + nbytes - 1) \cap (a .. a + AbsUsed[a] - 1) = {}
  <2>1. PICK c \in DOMAIN live : a = At(c)
    BY UsedStarts
  <2>2. AbsUsed[a] = live'[c] /\ c \in DOMAIN live' /\ c # b /\ c \in Nat
    BY <1>2, <1>5, <2>1, UsedStarts
  <2>3. At(c) \in Int /\ live'[c] \in Nat
    BY <1>6, <2>2, Back, UnitsHold
  <2>4. At(b) + nbytes <= At(c) \/ At(c) + live'[c] <= At(b)
    BY <1>2, <1>5, <1>8, <1>10, <2>2
  <2> QED BY <1>3, <1>10, <2>1, <2>2, <2>3, <2>4
<1>15. AbsUsed' = [a \in DOMAIN AbsUsed \cup {At(b)} |->
                     IF a = At(b) THEN AbsAsked ELSE AbsUsed[a]]
  <2>1. AbsUsed' = [a \in {At(c) : c \in DOMAIN live'} |-> live'[a \div Unit - 1]]
    BY DEF AbsUsed, At
  <2>2. {At(c) : c \in DOMAIN live'} = DOMAIN AbsUsed \cup {At(b)}
    BY <1>5, UsedStarts
  <2>3. ASSUME NEW a \in DOMAIN AbsUsed \cup {At(b)}
        PROVE  live'[a \div Unit - 1] = IF a = At(b) THEN AbsAsked ELSE AbsUsed[a]
    <3>1. CASE a = At(b)
      BY <1>4, <1>5, <1>10, <3>1, Back
    <3>2. CASE a # At(b)
      <4>1. PICK c \in DOMAIN live : a = At(c)
        BY <3>2, UsedStarts
      <4>2. a \div Unit - 1 = c /\ AbsUsed[a] = live[c]
        BY <4>1, UsedStarts, Back
      <4> QED BY <1>5, <3>2, <4>1, <4>2
    <3> QED BY <3>1, <3>2
  <2> QED BY <2>1, <2>2, <2>3
<1>16. Abs!Answer(At(b))
  BY <1>4, <1>12, <1>13, <1>14, <1>15
  DEF Abs!Answer, Abs!None, Abs!Bytes, Abs!Vacant, AbsMemory, AbsUsed, AbsAsked, At
<1> QED BY <1>11, <1>16

LEMMA StepMaps == IInv /\ [HeapNext]_vars => [Abs!AbsNext]_(Abs!absVars)
<1> SUFFICES ASSUME IInv, [HeapNext]_vars PROVE Abs!AbsNext \/ UNCHANGED Abs!absVars
  OBVIOUS
<1>1. CASE \E n \in Requests : InBound(n) /\ malloc(n)
  BY <1>1, AsksMap DEF Abs!AbsNext
<1>2. CASE \E b \in DOMAIN live : free(b)
  <2>1. \E a \in DOMAIN AbsUsed : Abs!GiveBack(a)
    BY <1>2, FreeMaps
  <2> QED BY <2>1 DEF Abs!AbsNext, AbsUsed, At
<1>3. CASE MallocFit
  <2>1. \E a \in AbsMemory \cup {m + 1 : m \in AbsMemory} : Abs!Answer(a)
    BY <1>3, AnswerMaps
  <2> QED BY <2>1 DEF Abs!AbsNext, AbsMemory
<1>4. CASE morecore
  BY <1>4, GrowMaps DEF Abs!AbsNext
<1>5. CASE MallocNext \/ FreeNext \/ FreeLink \/ UNCHANGED vars
  <2>1. UNCHANGED <<membase, live>>
    BY <1>5 DEF MallocNext, FreeNext, FreeLink, vars
  <2>2. AbsAsked' = AbsAsked
    BY <1>5 DEF MallocNext, FreeNext, FreeLink, Return, vars, AbsAsked, InMalloc
  <2>3. AbsMemory' = AbsMemory /\ AbsUsed' = AbsUsed
    BY <2>1 DEF AbsMemory, AbsUsed, At
  <2> QED BY <2>2, <2>3 DEF Abs!absVars, AbsMemory, AbsUsed, AbsAsked, At
<1> QED BY <1>1, <1>2, <1>3, <1>4, <1>5 DEF HeapNext, Step

(* malloc and free are the allocator of Allocator.tla: bytes handed out      *)
(* belong to no other block in use and lie in memory morecore was given,     *)
(* whatever is asked and given back in whatever order (malloc.c:67-135).     *)
THEOREM Implements == HeapSpec => Allocates
<1>1. HeapInit => Abs!AbsInit
  <2> SUFFICES ASSUME HeapInit PROVE Abs!AbsInit
    OBVIOUS
  <2>1. AbsMemory = {}
    BY Constants DEF HeapInit, AbsMemory
  <2>2. AbsUsed = [a \in {} |-> 0] /\ AbsAsked = -1
    BY DEF HeapInit, AbsUsed, AbsAsked, InMalloc
  <2> QED BY <2>1, <2>2 DEF Abs!AbsInit, Abs!None, AbsMemory, AbsUsed, AbsAsked, At
<1> QED BY <1>1, StepMaps, Inductive, PTL DEF HeapSpec, Allocates, Abs!AbsSpec
=============================================================================
