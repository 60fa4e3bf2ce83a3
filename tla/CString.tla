------------------------------ MODULE CString ------------------------------
(***************************************************************************)
(* The strings and blocks of memory of the C library: string.c, and the     *)
(* files of one function each that are linked beside it.  Memory m maps     *)
(* addresses above NULL to bytes.  A loop that walks to a byte is First; a   *)
(* loop that writes is done byte by byte, since its areas may overlap.      *)
(***************************************************************************)
EXTENDS Integers, Sequences, FiniteSetsExt

NULL == 0
NUL == 0
Signed8(c) == IF c > 127 THEN c - 256 ELSE c   \* char is signed

\* The first address from s on at which a walk stops.
First(m, s, Stop(_)) == Min({a \in DOMAIN m : a >= s /\ Stop(m[a])})
End(m, s) == First(m, s, LAMBDA c : c = NUL)

strlen(m, s) == End(m, s) - s
strnlen(m, s, len) ==
  Min({len} \cup {a - s : a \in {b \in DOMAIN m : b >= s /\ m[b] = NUL}})
strfind(m, s, c) == First(m, s, LAMBDA x : x \in {NUL, c})
strchr(m, s, c) == LET a == strfind(m, s, c)
                   IN  IF s = NULL \/ m[a] = NUL THEN NULL ELSE a
Chars(m, s) == {m[a] : a \in s .. End(m, s) - 1}
strspn(m, p, s) == First(m, p, LAMBDA x : x \notin Chars(m, s)) - p
strcspn(m, p, s) == First(m, p, LAMBDA x : x \in Chars(m, s) \cup {NUL}) - p

-----------------------------------------------------------------------------
\* Where two strings, or two blocks, stop being equal; n bytes at most.
Differ(m, a, b, n) ==
  Min({n} \cup {k \in 0 .. n - 1 : m[a + k] # m[b + k]})
DifferOrEnd(m, a, b, n) ==
  Min({n} \cup {k \in 0 .. n - 1 : a + k \in DOMAIN m /\ b + k \in DOMAIN m
                                   /\ (m[a + k] # m[b + k] \/ m[a + k] = NUL)})

Room(m, a, b) == Max(DOMAIN m) - Max({a, b}) + 1
strcmp_Bug(m, a, b) == LET k == DifferOrEnd(m, a, b, Room(m, a, b))
                       IN  Signed8(m[a + k]) - Signed8(m[b + k])
strcmp(m, a, b) == LET k == DifferOrEnd(m, a, b, Room(m, a, b))
                   IN  m[a + k] - m[b + k]
strncmp(m, a, b, n) == LET k == DifferOrEnd(m, a, b, n)
                       IN  IF k = n THEN 0 ELSE m[a + k] - m[b + k]
memcmp(m, a, b, n) == LET k == Differ(m, a, b, n)
                      IN  IF k = n THEN 0 ELSE m[a + k] - m[b + k]

\* strncmp.c subtracts signed characters, memcmp.c keeps the difference in one.
strncmp_c(m, a, b, n) ==
  LET k == DifferOrEnd(m, a, b, n)
  IN  IF a = NULL \/ b = NULL \/ k = n THEN 0
      ELSE Signed8(m[a + k]) - Signed8(m[b + k])
memcmp_c(m, a, b, n) == Signed8(memcmp(m, a, b, n) % 256)

-----------------------------------------------------------------------------
\* Copying n bytes, from the bottom or from the top.
Up(m, d, s, n) ==
  LET go[k \in 0 .. n] ==
        IF k = 0 THEN m
        ELSE LET t == go[k - 1] IN [t EXCEPT ![d + k - 1] = t[s + k - 1]]
  IN  go[n]
Down(m, d, s, n) ==
  LET go[k \in 0 .. n] ==
        IF k = 0 THEN m
        ELSE LET t == go[k - 1] IN [t EXCEPT ![d + n - k] = t[s + n - k]]
  IN  go[n]
memset(m, s, c, n) == [a \in DOMAIN m |-> IF a \in s .. s + n - 1 THEN c ELSE m[a]]

memcpy(m, d, s, n) == Up(m, d, s, n)
memcpy_c(m, d, s, n) == IF s < d THEN Down(m, d, s, n) ELSE Up(m, d, s, n)
memmove_Bug(m, d, s, n) == Up(m, d, s, n)
memmove(m, d, s, n) == IF s < d /\ s + n > d THEN Down(m, d, s, n)
                       ELSE Up(m, d, s, n)
bzero(m, s, n) == memset(m, s, NUL, n)

strcpy(m, d, s) == Up(m, d, s, strlen(m, s) + 1)
\* strcpy.c ends the string at d before it looks at s.
strcpy_c(m, d, s) ==
  LET t == [m EXCEPT ![d] = NUL]
  IN  IF d = NULL THEN m ELSE IF s = NULL THEN t ELSE strcpy(t, d, s)
strncpy(m, d, s, len) ==
  LET n == strnlen(m, s, len)
  IN  memset(Up(m, d, s, n), d + n, NUL, len - n)
strlcpy(m, d, s, l) ==
  LET n == strnlen(m, s, l - 1)
  IN  IF d = NULL \/ l = 0 THEN [mem |-> m, ret |-> 0]
      ELSE IF s = NULL THEN [mem |-> [m EXCEPT ![d] = NUL], ret |-> 0]
      ELSE [mem |-> [Up(m, d, s, n) EXCEPT ![d + n] = NUL], ret |-> n + 1]
strcat(m, d, s) == IF d = NULL \/ s = NULL THEN m
                   ELSE Up(m, End(m, d), s, strlen(m, s) + 1)

\* Shift a string up by one and put c in front.
strichr(m, p, c) == IF p = NULL THEN m
                    ELSE [Down(m, p + 1, p, strlen(m, p) + 1) EXCEPT ![p] = c]
toupper(c) == IF c \in 97 .. 122 THEN c - 32 ELSE c
strtoupper(m, p) ==
  [a \in DOMAIN m |-> IF p # NULL /\ a \in p .. End(m, p) - 1
                      THEN toupper(m[a]) ELSE m[a]]

\* strtok cuts the string t it is in the middle of; p begins a new one.
strtok_Bug(m, t, p, tok) ==
  LET from == IF p # NULL THEN p ELSE t
      r == from + strspn(m, from, tok)
      n == strcspn(m, r, tok)
  IN  [mem |-> [m EXCEPT ![r + n] = NUL], t |-> r + n + 1,
       ret |-> IF n = 0 THEN NULL ELSE r]
strtok(m, t, p, tok) ==
  LET from == IF p # NULL THEN p ELSE t
      r == from + strspn(m, from, tok)
      n == strcspn(m, r, tok)
      end == r + n
  IN  IF n = 0 THEN [mem |-> m, t |-> from, ret |-> NULL]
      ELSE [mem |-> [m EXCEPT ![end] = NUL],
            t |-> IF m[end] = NUL THEN end ELSE end + 1, ret |-> r]
=============================================================================
