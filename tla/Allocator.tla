----------------------------- MODULE Allocator -----------------------------
(***************************************************************************)
(* What malloc() and free() of the game's C library promise: a call of     *)
(* malloc is answered by bytes that no block in use has, at most one call  *)
(* at a time, and free gives them back.  Memory grows only for a call of    *)
(* malloc.  Heap.tla implements this.                                      *)
(***************************************************************************)
EXTENDS Integers

CONSTANTS Requests   \* sizes asked for

VARIABLES memory,    \* the addresses of the bytes there are
          used,      \* start of each block in use |-> the bytes asked for
          asked      \* the size a call of malloc is waiting for, or None

None == -1
absVars == <<memory, used, asked>>

Bytes(a, n) == a .. a + n - 1
Vacant(a, n) == \A b \in DOMAIN used : Bytes(a, n) \cap Bytes(b, used[b]) = {}

AbsInit == memory = {} /\ used = [a \in {} |-> 0] /\ asked = None

Ask(n) == asked = None /\ asked' = n /\ UNCHANGED <<memory, used>>

Grow == asked # None /\ memory \subseteq memory' /\ UNCHANGED <<used, asked>>

Answer(a) ==
  /\ asked # None
  /\ a \notin DOMAIN used /\ Bytes(a, asked) \subseteq memory /\ Vacant(a, asked)
  /\ used' = [b \in DOMAIN used \cup {a} |-> IF b = a THEN asked ELSE used[b]]
  /\ asked' = None /\ UNCHANGED memory

GiveBack(a) ==
  /\ asked = None /\ a \in DOMAIN used
  /\ used' = [b \in DOMAIN used \ {a} |-> used[b]]
  /\ UNCHANGED <<memory, asked>>

\* An empty block may start behind the last byte.
AbsNext == \/ \E n \in Requests : Ask(n)
           \/ Grow
           \/ \E a \in memory \cup {m + 1 : m \in memory} : Answer(a)
           \/ \E a \in DOMAIN used : GiveBack(a)

AbsSpec == AbsInit /\ [][AbsNext]_absVars
=============================================================================
