---------------------------- MODULE CStringSpec ----------------------------
(***************************************************************************)
(* What the functions of CString promise of a memory: a sequence of bytes   *)
(* that ends with a NUL, so that every address of it points to a string.    *)
(***************************************************************************)
EXTENDS CString

IsMemory(m) == m \in Seq(0 .. 255) /\ m # <<>> /\ m[Len(m)] = NUL

\* The string at p, and the first k elements of a sequence.
Str(m, p) == SubSeq(m, p, End(m, p) - 1)
Head_(s, k) == SubSeq(s, 1, Min({k, Len(s)}))

\* The order of strings: the first difference decides, as unsigned characters.
Before(s, t) ==
  \E k \in 0 .. Len(s) : /\ k < Len(t)
                         /\ Head_(s, k) = Head_(t, k)
                         /\ k = Len(s) \/ s[k + 1] < t[k + 1]
Orders(cmp, s, t) == /\ cmp < 0 <=> Before(s, t)
                     /\ cmp > 0 <=> Before(t, s)

\* The bytes s .. s + k - 1 land at d, and nothing else changes.
Moved(m, d, s, k) ==
  [a \in DOMAIN m |-> IF a \in d .. d + k - 1 THEN m[a - d + s] ELSE m[a]]
Fits(m, p, k) == p + k - 1 \in {0} \cup DOMAIN m
Apart(d, s, k) == d + k <= s \/ s + k <= d
Outside(m, r, d, k) == \A a \in DOMAIN m \ (d .. d + k - 1) : r[a] = m[a]

(* Comparing orders strings as sequences of unsigned characters, also where  *)
(* one is the tail of the other, and n cuts both (string.c:94-98, 322-328). *)
StringsCompare(m) ==
  \A p, q \in DOMAIN m :
    /\ Orders(strcmp(m, p, q), Str(m, p), Str(m, q))
    /\ \A k \in 0 .. Len(m) :
         /\ Orders(strncmp(m, p, q, k), Head_(Str(m, p), k), Head_(Str(m, q), k))
         /\ Fits(m, p, k) /\ Fits(m, q, k) =>
              Orders(memcmp(m, p, q, k), SubSeq(m, p, p + k - 1), SubSeq(m, q, q + k - 1))

(* The second definitions, in strncmp.c and memcmp.c, find the same strings   *)
(* and blocks equal, and order them alike while no character is above 127:   *)
(* they compare signed characters (strncmp.c:15, memcmp.c:10).               *)
Ascii(m) == \A a \in DOMAIN m : m[a] < 128
SecondsAgree(m) ==
  \A p, q \in DOMAIN m, k \in 0 .. Len(m) :
    /\ strncmp_c(m, p, q, k) = 0 <=> strncmp(m, p, q, k) = 0
    /\ Ascii(m) => strncmp_c(m, p, q, k) = strncmp(m, p, q, k)
    /\ Fits(m, p, k) /\ Fits(m, q, k) =>
         /\ memcmp_c(m, p, q, k) = 0 <=> memcmp(m, p, q, k) = 0
         /\ Ascii(m) => memcmp_c(m, p, q, k) = memcmp(m, p, q, k)

(* A block moves as it is and nothing else changes; with memmove, and with   *)
(* memcpy.c, also when the areas overlap (string.c:286-294), with memcpy    *)
(* when they do not.                                                       *)
BlocksMove(m) ==
  \A d, s \in DOMAIN m, k \in 0 .. Len(m) : Fits(m, d, k) /\ Fits(m, s, k) =>
    /\ memmove(m, d, s, k) = Moved(m, d, s, k)
    /\ memcpy_c(m, d, s, k) = Moved(m, d, s, k)
    /\ Apart(d, s, k) => memcpy(m, d, s, k) = Moved(m, d, s, k)

(* Copying a string moves it and its NUL; appended to another it follows    *)
(* it; strncpy and strlcpy leave as much of it as they have room for; and   *)
(* nothing outside the destination changes.                                *)
StringsCopy(m) ==
  \A d, s \in DOMAIN m :
    LET l == strlen(m, s)
        at == End(m, d)
    IN  /\ Fits(m, d, l + 1) /\ Apart(d, s, l + 1) =>
             /\ strcpy(m, d, s) = Moved(m, d, s, l + 1)
             /\ strcpy_c(m, d, s) = Moved(m, d, s, l + 1)
        /\ Fits(m, at, l + 1) /\ Apart(at, s, l + 1) =>
             /\ Str(strcat(m, d, s), d) = Str(m, d) \o Str(m, s)
             /\ Outside(m, strcat(m, d, s), at, l + 1)
        /\ \A k \in 1 .. Len(m) : Fits(m, d, k) /\ Apart(d, s, k) =>
             /\ Str(strlcpy(m, d, s, k).mem, d) = Head_(Str(m, s), k - 1)
             /\ Outside(m, strlcpy(m, d, s, k).mem, d, k)
             /\ Head_(Str(strncpy(m, d, s, k) \o <<NUL>>, d), k) = Head_(Str(m, s), k)
             /\ Outside(m, strncpy(m, d, s, k), d, k)
=============================================================================
