----------------------------- MODULE AluProofs -----------------------------
(***************************************************************************)
(* Theorems about the arithmetic of Alu, for every width of the word: the   *)
(* 32 bits of the design as well as the 8 bits that MCAlu sweeps.           *)
(***************************************************************************)
EXTENDS MCAlu, WellFoundedInduction, TLAPS

\* A set of numbers with 0 and with each successor has them all.
LEMMA Induction ==
  ASSUME NEW S \in SUBSET Nat, 0 \in S, \A n \in S : n + 1 \in S
  PROVE  S = Nat
<1> SUFFICES ASSUME Nat \ S # {} PROVE FALSE
  OBVIOUS
<1>1. PICK x \in Nat \ S : \A y \in Nat \ S : ~(<<y, x>> \in OpToRel(<, Nat))
  BY NatLessThanWellFounded, WFMin
<1>2. \A y \in Nat \ S : ~(y < x)
  BY <1>1, Zenon DEF OpToRel
<1>3. x # 0 /\ x - 1 \in Nat /\ x - 1 < x
  OBVIOUS
<1>4. x - 1 \in S
  BY <1>2, <1>3
<1>5. (x - 1) + 1 = x
  OBVIOUS
<1> QED BY <1>4, <1>5

\* A first value and a step determine a function on the numbers.
LEMMA Recursion ==
  ASSUME NEW first \in Nat, NEW step \in [Nat \X Nat -> Nat]
  PROVE  \E f \in [Nat -> Nat] :
           f[0] = first /\ \A k \in Nat : f[k + 1] = step[<<k, f[k]>>]
<1> DEFINE Upto(n, g) == /\ g[0] = first
                         /\ \A k \in Nat : k < n => g[k + 1] = step[<<k, g[k]>>]
           S == {n \in Nat : \E g \in [Nat -> Nat] : Upto(n, g)}
           G == [n \in Nat |-> CHOOSE g \in [Nat -> Nat] : Upto(n, g)]
           F == [n \in Nat |-> G[n][n]]
<1>1. S = Nat
  <2>1. 0 \in S
    <3>1. Upto(0, [k \in Nat |-> first])
      OBVIOUS
    <3> QED BY <3>1
  <2>2. ASSUME NEW n \in S PROVE n + 1 \in S
    <3>1. PICK g \in [Nat -> Nat] : Upto(n, g)
      OBVIOUS
    <3> DEFINE h == [g EXCEPT ![n + 1] = step[<<n, g[n]>>]]
    <3>2. h \in [Nat -> Nat] /\ n \in Nat
      BY <3>1
    <3>3. h[0] = first
      BY <3>1, <3>2
    <3>4. ASSUME NEW k \in Nat, k < n + 1 PROVE h[k + 1] = step[<<k, h[k]>>]
      <4>1. h[k] = g[k] /\ k + 1 \in Nat
        BY <3>2, <3>4
      <4>2. CASE k = n
        <5>1. h[n + 1] = step[<<n, g[n]>>]
          BY <3>2
        <5> QED BY <4>1, <4>2, <5>1
      <4>3. CASE k # n
        <5>1. k < n /\ h[k + 1] = g[k + 1]
          BY <3>2, <3>4, <4>3
        <5> QED BY <3>1, <4>1, <5>1
      <4> QED BY <4>2, <4>3
    <3>5. Upto(n + 1, h)
      BY <3>3, <3>4
    <3> HIDE DEF Upto, h
    <3> QED BY <3>2, <3>5
  <2> HIDE DEF S
  <2>3. S \in SUBSET Nat
    BY DEF S
  <2> QED BY <2>1, <2>2, <2>3, Induction
<1>2. \A n \in Nat : G[n] \in [Nat -> Nat] /\ Upto(n, G[n])
  <2> HIDE DEF Upto
  <2> QED BY <1>1
<1>3. ASSUME NEW g \in [Nat -> Nat], NEW h \in [Nat -> Nat], NEW n \in Nat,
             Upto(n, g), Upto(n, h)
      PROVE  \A k \in Nat : k <= n => g[k] = h[k]
  <2> DEFINE T == {k \in Nat : k <= n => g[k] = h[k]}
  <2>1. 0 \in T
    BY <1>3
  <2>2. ASSUME NEW k \in T PROVE k + 1 \in T
    <3>1. CASE k + 1 <= n
      <4>1. k \in Nat /\ k < n /\ g[k] = h[k]
        BY <3>1
      <4>2. g[k + 1] = step[<<k, g[k]>>] /\ h[k + 1] = step[<<k, h[k]>>]
        BY <1>3, <4>1
      <4> QED BY <4>1, <4>2
    <3> QED BY <3>1
  <2>3. T = Nat
    <3>1. T \in SUBSET Nat
      OBVIOUS
    <3> HIDE DEF T
    <3> QED BY <2>1, <2>2, <3>1, Induction
  <2> QED BY <2>3
<1>4. \A n \in Nat : Upto(n, G[n + 1])
  <2> HIDE DEF G
  <2>1. TAKE n \in Nat
  <2>2. Upto(n + 1, G[n + 1])
    BY <1>2
  <2> QED BY <2>2
<1>5. \A n \in Nat : G[n + 1][n] = G[n][n]
  <2>1. TAKE n \in Nat
  <2> HIDE DEF G, Upto
  <2>2. G[n + 1] \in [Nat -> Nat] /\ G[n] \in [Nat -> Nat] /\ Upto(n, G[n])
    BY <1>2
  <2>3. \A k \in Nat : k <= n => G[n + 1][k] = G[n][k]
    BY <1>3, <1>4, <2>2
  <2> QED BY <2>3
<1>6. F \in [Nat -> Nat] /\ F[0] = first
  <2> HIDE DEF G
  <2>1. G[0][0] = first
    BY <1>2
  <2> QED BY <1>2, <2>1
<1>7. ASSUME NEW n \in Nat PROVE F[n + 1] = step[<<n, F[n]>>]
  <2> HIDE DEF G
  <2>1. G[n + 1][n + 1] = step[<<n, G[n + 1][n]>>]
    BY <1>2
  <2> QED BY <1>5, <2>1
<1> HIDE DEF F
<1> QED BY <1>6, <1>7

-----------------------------------------------------------------------------
(* Powers of two, division and words.                                      *)

\* Pow2 is what its definition says: there is such a function.
LEMMA Pow2Is ==
  /\ Pow2 \in [Nat -> Nat] /\ Pow2[0] = 1
  /\ \A k \in Nat : Pow2[k + 1] = 2 * Pow2[k]
<1> DEFINE Rec(f) == f = [k \in Nat |-> IF k = 0 THEN 1 ELSE 2 * f[k - 1]]
<1>1. \E f : Rec(f)
  <2> DEFINE step == [p \in Nat \X Nat |-> 2 * p[2]]
  <2>1. step \in [Nat \X Nat -> Nat]
    OBVIOUS
  <2>2. PICK f \in [Nat -> Nat] :
          f[0] = 1 /\ \A k \in Nat : f[k + 1] = step[<<k, f[k]>>]
    <3> HIDE DEF step
    <3>1. 1 \in Nat
      OBVIOUS
    <3> QED BY <2>1, <3>1, Recursion
  <2>3. ASSUME NEW k \in Nat PROVE f[k] = IF k = 0 THEN 1 ELSE 2 * f[k - 1]
    <3>1. CASE k = 0
      BY <2>2, <3>1
    <3>2. CASE k # 0
      <4>1. k - 1 \in Nat /\ (k - 1) + 1 = k
        BY <3>2
      <4>2. f[(k - 1) + 1] = step[<<k - 1, f[k - 1]>>]
        BY <2>2, <4>1
      <4>3. f[k - 1] \in Nat
        BY <4>1
      <4> QED BY <3>2, <4>1, <4>2, <4>3
    <3> QED BY <3>1, <3>2
  <2>4. Rec(f)
    BY <2>3
  <2> QED BY <2>4
<1>2. Rec(Pow2)
  <2>1. Pow2 = CHOOSE f : Rec(f)
    BY DEF Pow2
  <2> HIDE DEF Rec
  <2> QED BY <1>1, <2>1
<1>3. Pow2[0] = 1 /\ \A k \in Nat : Pow2[k + 1] = 2 * Pow2[k]
  <2>1. Pow2[0] = 1
    BY <1>2
  <2>2. ASSUME NEW k \in Nat PROVE Pow2[k + 1] = 2 * Pow2[k]
    <3>1. k + 1 \in Nat /\ k + 1 # 0 /\ (k + 1) - 1 = k
      OBVIOUS
    <3> QED BY <1>2, <3>1
  <2> QED BY <2>1, <2>2
<1>4. Pow2 \in [Nat -> Nat]
  <2> DEFINE S == {k \in Nat : Pow2[k] \in Nat}
  <2>1. S = Nat
    <3>1. 0 \in S /\ S \in SUBSET Nat
      BY <1>3
    <3>2. \A k \in S : k + 1 \in S
      BY <1>3
    <3> HIDE DEF S
    <3> QED BY <3>1, <3>2, Induction
  <2>2. Pow2 = [k \in Nat |-> Pow2[k]]
    BY <1>2
  <2> QED BY <2>1, <2>2
<1> QED BY <1>3, <1>4

\* Powers of two are positive, multiply where exponents add, and grow.
LEMMA Pow2Grows ==
  /\ \A k \in Nat : Pow2[k] \in Nat \ {0}
  /\ \A m, n \in Nat : Pow2[m + n] = Pow2[m] * Pow2[n]
  /\ \A m, n \in Nat : m <= n => Pow2[m] <= Pow2[n]
<1>1. \A k \in Nat : Pow2[k] \in Nat \ {0}
  <2> DEFINE S == {k \in Nat : Pow2[k] # 0}
  <2>1. S = Nat
    <3>1. 0 \in S /\ S \in SUBSET Nat
      BY Pow2Is
    <3>2. \A k \in S : k + 1 \in S
      BY Pow2Is
    <3> HIDE DEF S
    <3> QED BY <3>1, <3>2, Induction
  <2> QED BY <2>1, Pow2Is
<1>2. ASSUME NEW m \in Nat PROVE \A n \in Nat : Pow2[m + n] = Pow2[m] * Pow2[n]
  <2> DEFINE S == {n \in Nat : Pow2[m + n] = Pow2[m] * Pow2[n]}
  <2>1. S = Nat
    <3>1. 0 \in S /\ S \in SUBSET Nat
      BY Pow2Is
    <3>2. ASSUME NEW n \in S PROVE n + 1 \in S
      <4>1. /\ Pow2[m] \in Nat /\ Pow2[n] \in Nat /\ m + n \in Nat
            /\ m + (n + 1) = (m + n) + 1
        BY Pow2Is
      <4>2. Pow2[m + (n + 1)] = 2 * Pow2[m + n] /\ Pow2[n + 1] = 2 * Pow2[n]
        BY <4>1, Pow2Is
      <4>3. 2 * (Pow2[m] * Pow2[n]) = Pow2[m] * (2 * Pow2[n])
        BY <4>1
      <4> QED BY <4>2, <4>3
    <3> HIDE DEF S
    <3> QED BY <3>1, <3>2, Induction
  <2> QED BY <2>1
<1>3. ASSUME NEW m \in Nat, NEW n \in Nat, m <= n PROVE Pow2[m] <= Pow2[n]
  <2>1. n - m \in Nat /\ m + (n - m) = n
    BY <1>3
  <2>2. Pow2[n] = Pow2[m] * Pow2[n - m]
    BY <1>2, <2>1
  <2>3. \A x \in Nat, y \in Nat \ {0} : x <= x * y
    OBVIOUS
  <2>4. Pow2[m] \in Nat /\ Pow2[n - m] \in Nat \ {0}
    BY <1>1, <2>1
  <2> QED BY <2>2, <2>3, <2>4
<1> QED BY <1>1, <1>2, <1>3

\* Floor division by a positive number.
LEMMA Division ==
  ASSUME NEW x \in Int, NEW p \in Nat \ {0}
  PROVE  /\ x \div p \in Int /\ x % p \in 0 .. p - 1
         /\ x = p * (x \div p) + (x % p)
OBVIOUS

\* Quotient and remainder are the only pair.
LEMMA DivisionIs ==
  ASSUME NEW x \in Int, NEW p \in Nat \ {0}, NEW q \in Int, NEW r \in 0 .. p - 1,
         x = p * q + r
  PROVE  x \div p = q /\ x % p = r
OBVIOUS

\* The weight of the sign.
H == Pow2[Width - 1]

\* The word: its lanes and its sign.
LEMMA WordIs ==
  /\ LaneBits \in Nat \ {0} /\ Width = 4 * LaneBits /\ Width \in Nat
  /\ H \in Nat /\ H >= 8 /\ Words = 2 * H /\ Words \div 2 = H /\ Words \in Nat
<1>1. /\ ShiftBits - 2 \in Nat /\ Pow2[ShiftBits] = 4 * Pow2[ShiftBits - 2]
      /\ Pow2[ShiftBits - 2] \in Nat \ {0}
  <2>1. /\ ShiftBits - 2 \in Nat /\ ShiftBits - 1 \in Nat /\ (ShiftBits - 2) + 1 = ShiftBits - 1
        /\ (ShiftBits - 1) + 1 = ShiftBits
    BY AluAssumption
  <2>2. Pow2[ShiftBits] = 2 * Pow2[ShiftBits - 1] /\ Pow2[ShiftBits - 1] = 2 * Pow2[ShiftBits - 2]
    BY <2>1, Pow2Is
  <2>3. Pow2[ShiftBits - 2] \in Nat \ {0}
    BY <2>1, Pow2Grows
  <2> QED BY <2>1, <2>2, <2>3
<1>2. Width = 4 * Pow2[ShiftBits - 2] /\ LaneBits = Pow2[ShiftBits - 2]
  BY <1>1, AluAssumption DEF LaneBits
<1>3. Width \in Nat /\ Width >= 4 /\ Width - 1 \in Nat /\ (Width - 1) + 1 = Width /\ 3 \in Nat
  BY <1>1, <1>2
<1>4. Pow2[3] = 8
  <2>1. Pow2[0 + 1] = 2 /\ Pow2[1 + 1] = 2 * Pow2[1] /\ Pow2[2 + 1] = 2 * Pow2[2]
    BY Pow2Is
  <2> QED BY <2>1
<1>5. Pow2[Width] = 2 * H /\ H \in Nat
  BY <1>3, Pow2Is DEF H
<1>6. H >= 8
  <2>1. 3 \in Nat /\ 3 <= Width - 1
    BY <1>3
  <2>2. Pow2[3] <= Pow2[Width - 1]
    BY <1>3, <2>1, Pow2Grows
  <2> QED BY <1>4, <2>2 DEF H
<1>7. Words = 2 * H /\ Words \div 2 = H /\ Words \in Nat
  BY <1>5, AluAssumption
<1> QED BY <1>1, <1>2, <1>3, <1>5, <1>6, <1>7

-----------------------------------------------------------------------------
\* The signed value of a word, and the word of a signed value.
LEMMA SignedIs ==
  ASSUME NEW x \in W
  PROVE  /\ x \in Nat /\ x < Words
         /\ Signed(x) \in -H .. H - 1
         /\ x < H => Signed(x) = x
         /\ x >= H => Signed(x) = x - Words
         /\ Signed(x) % Words = x
<1>1. x \in Nat /\ x < 2 * H /\ H \in Nat /\ Words = 2 * H /\ Words \div 2 = H /\ H >= 8
  BY WordIs DEF W
<1>2. /\ x < H => Signed(x) = x
      /\ x >= H => Signed(x) = x - 2 * H
  BY <1>1 DEF Signed
<1>3. Signed(x) % (2 * H) = x
  <2>1. CASE x < H
    <3>1. x = 2 * H * 0 + x
      BY <1>1
    <3> QED BY <1>1, <1>2, <2>1, <3>1, DivisionIs
  <2>2. CASE x >= H
    <3>1. x - 2 * H = 2 * H * (-1) + x
      BY <1>1
    <3>2. 2 * H \in Nat \ {0} /\ x \in 0 .. 2 * H - 1 /\ x - 2 * H \in Int /\ -1 \in Int
      BY <1>1
    <3>3. (x - 2 * H) % (2 * H) = x
      BY <3>1, <3>2, DivisionIs
    <3> QED BY <1>2, <2>2, <3>3
  <2> QED BY <1>1, <2>1, <2>2
<1> QED BY <1>1, <1>2, <1>3

\* A signed value that fits is read back; q words more or less do not matter.
LEMMA FitsBack ==
  ASSUME NEW e \in -H .. H - 1, NEW q \in Int, NEW z \in Int, z = Words * q + e
  PROVE  Signed(z % Words) = e /\ z % Words \in W
<1>1. H \in Nat /\ Words = 2 * H /\ Words \div 2 = H /\ H >= 8 /\ e \in Int
  BY WordIs
<1>2. CASE e >= 0
  <2>1. z % Words = e
    <3>1. Words \in Nat \ {0} /\ e \in 0 .. Words - 1
      BY <1>1, <1>2
    <3> QED BY <3>1, DivisionIs
  <2> QED BY <1>1, <1>2, <2>1 DEF Signed, W
<1>3. CASE e < 0
  <2>1. z % Words = e + Words
    <3>1. Words \in Nat \ {0} /\ e + Words \in 0 .. Words - 1 /\ q - 1 \in Int
      BY <1>1, <1>3
    <3>2. z = Words * (q - 1) + (e + Words)
      <4>1. Words * (q - 1) = Words * q - Words
        BY <1>1
      <4> QED BY <1>1, <4>1
    <3> QED BY <3>1, <3>2, DivisionIs
  <2> QED BY <1>1, <1>3, <2>1 DEF Signed, W
<1> QED BY <1>1, <1>2, <1>3

-----------------------------------------------------------------------------
\* Sums and differences.  test_result is the signed result e of one bit more.
LEMMA SumExact ==
  ASSUME NEW n \in {"ADD", "SUB"}, NEW x \in W, NEW y \in W
  PROVE  LET e == Exact(n, x, y)
         IN  IF alu_overflow(n, x, y)
             THEN e \notin -(Words \div 2) .. Words \div 2 - 1
             ELSE Signed(alu_result(n, x, y)) = e
<1> DEFINE e == Exact(n, x, y)
           t == TestResult(n, x, y)
<1>1. H \in Nat /\ Words = 2 * H /\ Words \div 2 = H /\ H >= 8 /\ x \in Nat /\ y \in Nat
  BY WordIs, SignedIs
<1>2. Signed(x) \in Int /\ Signed(y) \in Int /\ e \in -(2 * H) .. 2 * H - 1
  BY <1>1, SignedIs DEF Exact
<1>3. PICK q \in Int : alu_result(n, x, y) = (Words * q + e) % Words
  <2>1. /\ alu_result("SUB", x, y) = (x - y) % Words
        /\ alu_result("ADD", x, y) = (x + y) % Words
    BY DEF alu_result
  <2>2. PICK i \in {0, 1}, j \in {0, 1} : x = Words * i + Signed(x) /\ y = Words * j + Signed(y)
    BY <1>1, SignedIs
  <2>3. CASE n = "SUB"
    <3>1. x - y = Words * (i - j) + e /\ i - j \in Int
      BY <1>1, <1>2, <2>2, <2>3 DEF Exact
    <3> QED BY <2>1, <2>3, <3>1
  <2>4. CASE n = "ADD"
    <3>1. x + y = Words * (i + j) + e /\ i + j \in Int
      BY <1>1, <1>2, <2>2, <2>4 DEF Exact
    <3> QED BY <2>1, <2>4, <3>1
  <2> QED BY <2>3, <2>4
<1>4. e \in -H .. H - 1 => Signed(alu_result(n, x, y)) = e
  <2>1. Words * q + e \in Int
    BY <1>1, <1>2
  <2> QED BY <1>3, <2>1, FitsBack
<1>5. t = IF e >= 0 THEN e ELSE e + 4 * H
  <2>1. PICK j \in {0, 1, 2, -1} : (IF n = "SUB" THEN Widened(x) - Widened(y)
                                    ELSE Widened(x) + Widened(y)) = 4 * H * j + e
    <3>1. /\ Widened(x) \in {Signed(x), Signed(x) + 4 * H}
          /\ Widened(y) \in {Signed(y), Signed(y) + 4 * H}
      BY <1>1, SignedIs DEF Widened
    <3>2. e = IF n = "SUB" THEN Signed(x) - Signed(y) ELSE Signed(x) + Signed(y)
      BY DEF Exact
    <3> HIDE DEF e
    <3> QED BY <1>1, <1>2, <3>1, <3>2
  <2>2. t = (4 * H * j + e) % (4 * H)
    <3>1. 2 * Words = 4 * H
      BY <1>1
    <3> QED BY <2>1, <3>1 DEF TestResult
  <2>3. 4 * H * j + e = 4 * H * (j - 1) + (e + 4 * H)
    BY <1>1, <1>2
  <2>4. 4 * H \in Nat \ {0} /\ 4 * H * j + e \in Int /\ j - 1 \in Int /\ e \in Int
    BY <1>1, <1>2
  <2>5. CASE e >= 0
    <3>1. e \in 0 .. 4 * H - 1
      BY <1>1, <1>2, <2>5
    <3> HIDE DEF e, t
    <3> QED BY <2>2, <2>4, <2>5, <3>1, DivisionIs
  <2>6. CASE e < 0
    <3>1. e + 4 * H \in 0 .. 4 * H - 1
      BY <1>1, <1>2, <2>6
    <3> HIDE DEF e, t
    <3>2. t = e + 4 * H
      <4> DEFINE P == 4 * H
                 z == P * j + e
                 r == e + P
      <4>1. /\ P \in Nat \ {0} /\ z \in Int /\ j - 1 \in Int /\ r \in 0 .. P - 1
            /\ z = P * (j - 1) + r /\ t = z % P
        BY <2>2, <2>3, <2>4, <3>1
      <4> HIDE DEF P, z, r
      <4>2. t = r
        BY <4>1, DivisionIs
      <4> QED BY <4>2 DEF r, P
    <3>3. ~(e >= 0)
      BY <2>4, <2>6
    <3> QED BY <3>2, <3>3
  <2> HIDE DEF e, t
  <2>7. e >= 0 \/ e < 0
    BY <1>2
  <2>8. e < 0 => ~(e >= 0)
    BY <1>2
  <2> QED BY <2>5, <2>6, <2>7, <2>8
<1>6. alu_overflow(n, x, y) <=> t \div (2 * H) # (t \div H) % 2
  BY <1>1 DEF alu_overflow
<1>7. alu_overflow(n, x, y) <=> e \notin -H .. H - 1
  <2> HIDE DEF e, t
  <2>1. CASE e \in 0 .. H - 1
    <3>1. t \div (2 * H) = 0 /\ t \div H = 0
      BY <1>1, <1>5, <2>1
    <3> QED BY <1>6, <2>1, <3>1, <1>1
  <2>2. CASE e \in H .. 2 * H - 1
    <3>1. t \div (2 * H) = 0 /\ t \div H = 1
      BY <1>1, <1>5, <2>2
    <3> QED BY <1>6, <2>2, <3>1, <1>1
  <2>3. CASE e \in -H .. -1
    <3>1. t \div (2 * H) = 1 /\ t \div H = 3
      BY <1>1, <1>5, <2>3
    <3> QED BY <1>6, <2>3, <3>1, <1>1
  <2>4. CASE e \in -(2 * H) .. -H - 1
    <3>1. t \div (2 * H) = 1 /\ t \div H = 2
      BY <1>1, <1>5, <2>4
    <3> QED BY <1>6, <2>4, <3>1, <1>1
  <2> QED BY <1>1, <1>2, <2>1, <2>2, <2>3, <2>4
<1> HIDE DEF e
<1> QED BY <1>1, <1>4, <1>7 DEF e

-----------------------------------------------------------------------------
\* Shifts to the right.  A negative word is shifted as its complement c.
LEMMA ShiftIs ==
  ASSUME NEW x \in W, NEW y \in W
  PROVE  LET p == Pow2[x % Width]
         IN  /\ Signed(ShiftArith(y, x % Width)) = Signed(y) \div p
             /\ ShiftRight(y, x % Width) = y \div p
<1> DEFINE p == Pow2[x % Width]
           c == Words - 1 - y
           k == c \div p
           r == c % p
<1>1. H \in Nat /\ Words = 2 * H /\ Words \div 2 = H /\ H >= 8 /\ y \in Nat /\ y < 2 * H
  BY WordIs, SignedIs
<1>2. p \in Nat \ {0}
  <2>1. x % Width \in Nat
    BY WordIs, SignedIs
  <2> QED BY <2>1, Pow2Grows
<1> HIDE DEF p
<1>3. CASE y < H
  <2>1. y \div p \in Nat /\ y \div p <= y
    BY <1>1, <1>2
  <2> QED BY <1>1, <1>3, <2>1 DEF ShiftArith, ShiftRight, Signed, p
<1>4. CASE y >= H
  <2>1. c \in 0 .. H - 1 /\ c \in Int
    BY <1>1, <1>4
  <2>2. /\ k \in Int /\ r \in 0 .. p - 1 /\ c = p * k + r
    <3> HIDE DEF c
    <3> QED BY <2>1, <1>2, Division
  <2>3. k \in 0 .. H - 1
    <3> HIDE DEF c
    <3>1. k \in 0 .. c
      BY <2>1, <1>2
    <3> HIDE DEF k
    <3> QED BY <1>1, <2>1, <3>1
  <2>4. ShiftArith(y, x % Width) = Words - 1 - k
    BY <1>1, <1>4 DEF ShiftArith, ShiftRight, Complement, p
  <2>5. Signed(Words - 1 - k) = -1 - k
    <3> HIDE DEF k
    <3> QED BY <1>1, <2>3 DEF Signed
  <2>6. Signed(y) = p * (-1 - k) + (p - 1 - r)
    <3>1. Signed(y) = -1 - c
      BY <1>1, <1>4 DEF Signed
    <3>2. p * (-1 - k) = -p - p * k
      <4> HIDE DEF k
      <4> QED BY <1>2, <2>2
    <3> HIDE DEF c, k, r
    <3> QED BY <1>2, <2>2, <3>1, <3>2
  <2>7. p - 1 - r \in 0 .. p - 1 /\ -1 - k \in Int
    <3> HIDE DEF k, r
    <3> QED BY <1>2, <2>2
  <2>8. Signed(y) \div p = -1 - k
    <3> HIDE DEF k, r, c
    <3>1. Signed(y) \in Int
      BY SignedIs, <1>1
    <3> QED BY <1>2, <2>6, <2>7, <3>1, DivisionIs
  <2> QED BY <2>4, <2>5, <2>8 DEF ShiftRight, p
<1> QED BY <1>1, <1>3, <1>4

-----------------------------------------------------------------------------
\* HI:LO of a product.
LEMMA ProductExact ==
  ASSUME NEW z \in Int
  PROVE  /\ z \in 0 .. Words * Words - 1 => Halves(z).hi * Words + Halves(z).lo = z
         /\ z \in -(H * H) .. H * H => Signed(Halves(z).hi) * Words + Halves(z).lo = z
<1> DEFINE u == z \div Words
           lo == z % Words
           WW == Words * Words
<1>1. H \in Nat /\ Words = 2 * H /\ H >= 8 /\ Words \in Nat \ {0} /\ WW \in Nat \ {0}
      /\ WW = 4 * (H * H)
  BY WordIs
<1>2. u \in Int /\ lo \in 0 .. Words - 1 /\ z = Words * u + lo
  BY <1>1, Division
<1>3. Halves(z) = [hi |-> (z % WW) \div Words, lo |-> lo]
  BY DEF Halves
<1>4. ASSUME NEW i \in {0, 1}, z + WW * i \in 0 .. WW - 1
      PROVE  Halves(z).hi = u + Words * i
  <2>1. z % WW = z + WW * i
    <3>1. z = WW * (-i) + (z + WW * i)
      <4> HIDE DEF WW
      <4> QED BY <1>1
    <3> HIDE DEF WW
    <3> QED BY <1>1, <1>4, <3>1, DivisionIs
  <2>2. z + WW * i = Words * (u + Words * i) + lo
    <3>1. WW * i = Words * (Words * i)
      BY <1>1
    <3>2. Words * (u + Words * i) = Words * u + Words * (Words * i)
      <4> HIDE DEF u
      <4> QED BY <1>1, <1>2
    <3> HIDE DEF u, lo, WW
    <3> QED BY <1>1, <1>2, <3>1, <3>2
  <2>3. (z + WW * i) \div Words = u + Words * i
    <3>1. u + Words * i \in Int /\ z + WW * i \in Int
      <4> HIDE DEF u, WW
      <4> QED BY <1>1, <1>2
    <3> HIDE DEF u, lo, WW
    <3> QED BY <1>1, <1>2, <2>2, <3>1, DivisionIs
  <2> QED BY <1>3, <2>1, <2>3
<1>5. ASSUME z \in 0 .. WW - 1 PROVE Halves(z).hi * Words + Halves(z).lo = z
  <2>1. Halves(z).hi = u
    <3>1. z + WW * 0 = z /\ Words * 0 = 0
      BY <1>1
    <3> QED BY <1>2, <1>4, <1>5, <3>1
  <2>2. u * Words + lo = z
    <3> HIDE DEF u, lo
    <3> QED BY <1>1, <1>2
  <2> QED BY <1>3, <2>1, <2>2
<1>6. ASSUME z \in -(H * H) .. H * H
      PROVE  Signed(Halves(z).hi) * Words + Halves(z).lo = z
  <2>1. PICK i \in {0, 1} : Halves(z).hi = u + Words * i
    <3>1. \A i \in {0, 1} : WW * i = IF i = 0 THEN 0 ELSE 4 * (H * H)
      BY <1>1
    <3>2. H * H \in Nat /\ H * H > 0
      BY <1>1
    <3>3. CASE z >= 0
      BY <1>1, <1>4, <1>6, <3>1, <3>2, <3>3
    <3>4. CASE z < 0
      BY <1>1, <1>4, <1>6, <3>1, <3>2, <3>4
    <3> QED BY <3>3, <3>4
  <2>2. u \in -H .. H - 1
    <3>1. ASSUME u >= H PROVE FALSE
      <4>1. Words * u >= Words * H
        <5> HIDE DEF u
        <5> QED BY <1>1, <1>2, <3>1
      <4>2. Words * H = 2 * (H * H) /\ H * H \in Nat /\ H * H > 0
        BY <1>1
      <4> HIDE DEF u, lo
      <4> QED BY <1>1, <1>2, <1>6, <4>1, <4>2
    <3>2. ASSUME u < -H PROVE FALSE
      <4>1. Words * u <= Words * (-H - 1)
        <5> HIDE DEF u
        <5> QED BY <1>1, <1>2, <3>2
      <4>2. Words * (-H - 1) = -(2 * (H * H)) - Words /\ H * H \in Nat
        BY <1>1
      <4> HIDE DEF u, lo
      <4> QED BY <1>1, <1>2, <1>6, <4>1, <4>2
    <3> HIDE DEF u
    <3> QED BY <1>1, <1>2, <3>1, <3>2
  <2>3. Signed(Halves(z).hi) = u
    <3> DEFINE hi == u + Words * i
    <3>1. hi \in Int /\ hi = Words * i + u /\ i \in Int
      <4> HIDE DEF u
      <4> QED BY <1>1, <1>2
    <3>2. hi \in 0 .. Words - 1
      <4>1. z % WW \in 0 .. WW - 1
        <5> HIDE DEF WW
        <5> QED BY <1>1, Division
      <4>2. \A t \in 0 .. WW - 1 : t \div Words \in 0 .. Words - 1
        BY <1>1
      <4> QED BY <1>3, <2>1, <4>1, <4>2
    <3>3. hi % Words = hi
      <4> HIDE DEF hi
      <4> QED BY <1>1, <3>2
    <3> HIDE DEF u, hi
    <3>4. Signed(hi % Words) = u
      BY <2>2, <3>1, FitsBack
    <3> QED BY <2>1, <3>3, <3>4 DEF hi
  <2>4. u * Words + lo = z
    <3> HIDE DEF u, lo
    <3> QED BY <1>1, <1>2
  <2> QED BY <1>3, <2>3, <2>4
<1> QED BY <1>5, <1>6

\* A quotient truncated towards zero, and its remainder.
LEMMA QuotientIs ==
  ASSUME NEW x \in Int, NEW y \in Int \ {0}
  PROVE  /\ Quotient(x, y) \in Int /\ x - Quotient(x, y) * y \in Int
         /\ Magnitude(x - Quotient(x, y) * y) < Magnitude(y)
         /\ x - Quotient(x, y) * y # 0 => (x - Quotient(x, y) * y < 0 <=> x < 0)
         /\ x >= 0 /\ y > 0 => Quotient(x, y) \in 0 .. x
<1> DEFINE A == Magnitude(x)
           B == Magnitude(y)
           k == A \div B
           m == A % B
           q == Quotient(x, y)
<1>1. A \in Nat /\ B \in Nat \ {0}
  BY DEF Magnitude
<1>2. k \in Int /\ m \in 0 .. B - 1 /\ A = B * k + m
  <2> HIDE DEF A, B
  <2> QED BY <1>1, Division
<1>3. q = IF (x < 0) # (y < 0) THEN -k ELSE k
  BY DEF Quotient
<1>4. k \in 0 .. A
  <2> HIDE DEF A, B
  <2> QED BY <1>1, <1>2
<1>5. x - q * y = IF x < 0 THEN -m ELSE m
  <2>1. x = (IF x < 0 THEN -A ELSE A) /\ y = (IF y < 0 THEN -B ELSE B)
    BY DEF Magnitude
  <2>2. /\ k * B = B * k /\ (-k) * B = -(B * k) /\ k * (-B) = -(B * k) /\ (-k) * (-B) = B * k
        /\ B * k \in Int
    <3> HIDE DEF B, k
    <3> QED BY <1>1, <1>2
  <2>3. q * y = IF x < 0 THEN -(B * k) ELSE B * k
    <3> HIDE DEF A, B, k, q
    <3> QED BY <1>1, <1>2, <1>3, <2>1, <2>2
  <2> HIDE DEF A, B, k, q, m
  <2> QED BY <1>1, <1>2, <2>1, <2>2, <2>3
<1>6. Magnitude(x - q * y) = m /\ m < B
  <2> HIDE DEF q, m, B
  <2> QED BY <1>1, <1>2, <1>5 DEF Magnitude
<1>7. q \in Int /\ (x >= 0 /\ y > 0 => q \in 0 .. x)
  <2>1. x >= 0 => A = x
    BY DEF Magnitude
  <2> HIDE DEF A, k, q
  <2> QED BY <1>1, <1>2, <1>3, <1>4, <2>1
<1> HIDE DEF q, m, B
<1> QED BY <1>1, <1>2, <1>5, <1>6, <1>7 DEF q, B

\* HI and LO of a product and of a division, of unsigned and of signed words.
LEMMA HiLoExact ==
  ASSUME NEW n \in MulDiv, NEW x \in W, NEW y \in W
  PROVE  LET r == multiply(n, x, y)
             sgn == n \in {"MULT", "DIV"}
             Val(z) == IF sgn THEN Signed(z) ELSE z
         IN  IF n \in {"MULT", "MULTU"}
             THEN Val(r.hi) * Words + r.lo = Val(x) * Val(y)
             ELSE y # 0 =>
                  /\ (Val(r.lo) * Val(y) + Val(r.hi) - Val(x)) % Words = 0
                  /\ Magnitude(Val(r.hi)) < Magnitude(Val(y))
                  /\ Val(r.hi) # 0 => (Val(r.hi) < 0 <=> Val(x) < 0)
<1>1. /\ H \in Nat /\ Words = 2 * H /\ H >= 8 /\ Words \in Nat \ {0}
      /\ x \in Nat /\ y \in Nat /\ x < Words /\ y < Words
      /\ Signed(x) \in -H .. H - 1 /\ Signed(y) \in -H .. H - 1
  BY WordIs, SignedIs
<1>2. CASE n = "MULTU"
  <2>1. multiply(n, x, y) = Halves(x * y)
    BY <1>2 DEF multiply
  <2>2. x * y \in 0 .. Words * Words - 1 /\ x * y \in Int
    <3>1. x * y <= (Words - 1) * (Words - 1)
      BY <1>1
    <3>2. (Words - 1) * (Words - 1) = Words * Words - 2 * Words + 1 /\ Words * Words \in Nat
      BY <1>1
    <3>3. x * y \in Nat
      BY <1>1
    <3> QED BY <1>1, <3>1, <3>2, <3>3
  <2>3. Halves(x * y).hi * Words + Halves(x * y).lo = x * y
    BY <2>2, ProductExact
  <2> QED BY <1>2, <2>1, <2>3
<1>3. CASE n = "MULT"
  <2> DEFINE z == Signed(x) * Signed(y)
  <2>1. multiply(n, x, y) = Halves(z)
    BY <1>3 DEF multiply
  <2>2. z \in -(H * H) .. H * H /\ z \in Int
    <3>1. \A u, v \in -H .. H : u * v <= H * H /\ u * v >= -(H * H) /\ u * v \in Int
      BY <1>1
    <3>2. H * H \in Int
      BY <1>1
    <3>3. Signed(x) \in -H .. H /\ Signed(y) \in -H .. H
      BY <1>1
    <3>4. z <= H * H /\ z >= -(H * H) /\ z \in Int
      BY <3>1, <3>3
    <3> HIDE DEF z
    <3> QED BY <3>2, <3>4
  <2>3. Signed(Halves(z).hi) * Words + Halves(z).lo = z
    <3> HIDE DEF z
    <3> QED BY <2>2, ProductExact
  <2> QED BY <1>3, <2>1, <2>3
<1>4. CASE n = "DIVU"
  <2> DEFINE q == Quotient(x, y)
             r == x - q * y
  <2> SUFFICES ASSUME y # 0
               PROVE  LET d == multiply(n, x, y)
                      IN  /\ (d.lo * y + d.hi - x) % Words = 0
                          /\ Magnitude(d.hi) < Magnitude(y)
                          /\ d.hi # 0 => (d.hi < 0 <=> x < 0)
    BY <1>4
  <2>1. multiply(n, x, y) = [hi |-> r % Words, lo |-> q % Words]
    BY <1>4 DEF multiply, Divided
  <2>2. /\ q \in 0 .. x /\ r \in Int /\ Magnitude(r) < Magnitude(y)
        /\ r # 0 => (r < 0 <=> x < 0)
    BY <1>1, QuotientIs
  <2> HIDE DEF q
  <2>3. r \in 0 .. y - 1
    <3> HIDE DEF r
    <3> QED BY <1>1, <2>2 DEF Magnitude
  <2>4. r % Words = r /\ q % Words = q /\ q * y + r - x = 0
    <3>1. q * y \in Int
      BY <1>1, <2>2
    <3>2. q * y + r - x = 0
      BY <1>1, <3>1
    <3> HIDE DEF r
    <3> QED BY <1>1, <2>2, <2>3, <3>2
  <2> HIDE DEF r
  <2> QED BY <1>1, <2>1, <2>2, <2>4
<1>5. CASE n = "DIV"
  <2> DEFINE X == Signed(x)
             Y == Signed(y)
             q == Quotient(X, Y)
             r == X - q * Y
  <2> SUFFICES ASSUME y # 0
               PROVE  LET d == multiply(n, x, y)
                      IN  /\ (Signed(d.lo) * Y + Signed(d.hi) - X) % Words = 0
                          /\ Magnitude(Signed(d.hi)) < Magnitude(Y)
                          /\ Signed(d.hi) # 0 => (Signed(d.hi) < 0 <=> X < 0)
    BY <1>5
  <2>1. multiply(n, x, y) = [hi |-> r % Words, lo |-> q % Words]
    BY <1>5 DEF multiply, Divided
  <2>2. X \in Int /\ Y \in Int \ {0} /\ Y \in -H .. H - 1
    BY <1>1, SignedIs
  <2>3. /\ q \in Int /\ r \in Int /\ Magnitude(r) < Magnitude(Y)
        /\ r # 0 => (r < 0 <=> X < 0)
    <3> HIDE DEF X, Y
    <3> QED BY <2>2, QuotientIs
  <2>4. Signed(r % Words) = r
    <3>1. r \in -H .. H - 1
      <4> HIDE DEF r, Y
      <4> QED BY <1>1, <2>2, <2>3 DEF Magnitude
    <3>2. r = Words * 0 + r
      <4> HIDE DEF r
      <4> QED BY <1>1, <2>3
    <3> HIDE DEF r
    <3> QED BY <2>3, <3>1, <3>2, FitsBack
  <2>5. PICK i \in Int : Signed(q % Words) = q + Words * i
    <3>1. q % Words \in W /\ q = Words * (q \div Words) + (q % Words) /\ q \div Words \in Int
      <4> HIDE DEF q
      <4> QED BY <1>1, <2>3, Division DEF W
    <3>2. Signed(q % Words) \in {q % Words, (q % Words) - Words} /\ q % Words \in Int
      <4>1. \A z \in W : Signed(z) \in {z, z - Words} /\ z \in Int
        BY <1>1, SignedIs
      <4> QED BY <3>1, <4>1
    <3>3. /\ Words * (-(q \div Words)) = -(Words * (q \div Words))
          /\ Words * (-(q \div Words) - 1) = -(Words * (q \div Words)) - Words
          /\ Words * (q \div Words) \in Int
      <4> HIDE DEF q
      <4> QED BY <1>1, <3>1
    <3>4. -(q \div Words) \in Int /\ -(q \div Words) - 1 \in Int
      <4> HIDE DEF q
      <4> QED BY <3>1
    <3>5. CASE Signed(q % Words) = q % Words
      <4>1. Signed(q % Words) = q + Words * (-(q \div Words))
        <5> HIDE DEF q
        <5> QED BY <2>3, <3>1, <3>2, <3>3, <3>5
      <4> QED BY <3>4, <4>1
    <3>6. CASE Signed(q % Words) = (q % Words) - Words
      <4>1. Signed(q % Words) = q + Words * (-(q \div Words) - 1)
        <5> HIDE DEF q
        <5> QED BY <1>1, <2>3, <3>1, <3>2, <3>3, <3>6
      <4> QED BY <3>4, <4>1
    <3> QED BY <3>2, <3>5, <3>6
  <2>6. ((q + Words * i) * Y + r - X) % Words = 0
    <3>1. (q + Words * i) * Y = q * Y + Words * (i * Y)
      <4> HIDE DEF q, Y
      <4> QED BY <1>1, <2>2, <2>3
    <3>2. q * Y \in Int /\ i * Y \in Int /\ Words * (i * Y) \in Int
      <4> HIDE DEF q, Y
      <4> QED BY <1>1, <2>2, <2>3
    <3>3. (q + Words * i) * Y + r - X = Words * (i * Y)
      <4> HIDE DEF q, X, Y
      <4> QED BY <2>2, <3>1, <3>2
    <3>4. (Words * (i * Y)) % Words = 0
      <4> DEFINE j == i * Y
      <4>1. 0 \in 0 .. Words - 1 /\ Words * j = Words * j + 0
        <5> HIDE DEF j
        <5> QED BY <1>1, <3>2 DEF j
      <4> HIDE DEF j
      <4>2. (Words * j) % Words = 0
        BY <1>1, <3>2, <4>1, DivisionIs DEF j
      <4> QED BY <4>2 DEF j
    <3> QED BY <3>3, <3>4
  <2> HIDE DEF q, r, X, Y
  <2> QED BY <2>1, <2>3, <2>4, <2>5, <2>6
<1> QED BY <1>2, <1>3, <1>4, <1>5 DEF MulDiv

-----------------------------------------------------------------------------
\* Below a multiple of D * E nothing of it shows in the digit E at D.
LEMMA DigitBelow ==
  ASSUME NEW D \in Nat \ {0}, NEW E \in Nat \ {0}, NEW v \in Int, NEW w \in Int
  PROVE  (((D * E) * v + w) \div D) % E = (w \div D) % E
<1> DEFINE s == w \div D
           r == w % D
<1>1. s \in Int /\ r \in 0 .. D - 1 /\ w = D * s + r
  BY Division
<1>2. s \div E \in Int /\ s % E \in 0 .. E - 1 /\ s = E * (s \div E) + (s % E)
  <2> HIDE DEF s
  <2> QED BY <1>1, Division
<1> HIDE DEF s, r
<1>3. ((D * E) * v + w) \div D = E * v + s
  <2>1. (D * E) * v + w = D * (E * v + s) + r
    <3>1. (D * E) * v = D * (E * v) /\ D * (E * v + s) = D * (E * v) + D * s
      BY <1>1
    <3> QED BY <1>1, <3>1
  <2>2. E * v + s \in Int /\ (D * E) * v + w \in Int
    BY <1>1
  <2> QED BY <1>1, <2>1, <2>2, DivisionIs
<1>4. (E * v + s) % E = s % E
  <2>1. E * v + s = E * (v + s \div E) + (s % E)
    <3>1. E * (v + s \div E) = E * v + E * (s \div E)
      BY <1>2
    <3> QED BY <1>1, <1>2, <3>1
  <2>2. v + s \div E \in Int /\ E * v + s \in Int
    BY <1>1, <1>2
  <2> QED BY <1>2, <2>1, <2>2, DivisionIs
<1> QED BY <1>3, <1>4 DEF s

\* Dividing by D and by M divides by D * M.
LEMMA DivisionTwice ==
  ASSUME NEW z \in Int, NEW D \in Nat \ {0}, NEW M \in Nat \ {0}
  PROVE  (z \div D) \div M = z \div (D * M)
<1> DEFINE s == z \div D
           r == z % D
           t == s \div M
           g == s % M
           rest == D * g + r
           P == D * M
<1>1. s \in Int /\ r \in 0 .. D - 1 /\ z = D * s + r
  BY Division
<1>2. t \in Int /\ g \in 0 .. M - 1 /\ s = M * t + g
  <2> HIDE DEF s
  <2> QED BY <1>1, Division
<1> HIDE DEF s, r, t, g
<1>3. z = P * t + rest
  <2>1. D * (M * t + g) = (D * M) * t + D * g
    BY <1>2
  <2>2. D * g \in Int /\ (D * M) * t \in Int
    BY <1>2
  <2> QED BY <1>1, <1>2, <2>1, <2>2
<1>4. rest \in 0 .. P - 1 /\ P \in Nat \ {0}
  <2>1. D * g <= D * (M - 1) /\ D * g \in Nat
    BY <1>2
  <2>2. D * (M - 1) = D * M - D /\ D * M \in Nat \ {0}
    OBVIOUS
  <2> QED BY <1>1, <2>1, <2>2
<1> HIDE DEF rest, P
<1>5. z \div P = t
  BY <1>2, <1>3, <1>4, DivisionIs
<1> QED BY <1>5 DEF t, s, P

\* Replacing the digit M at D of a number: the digit reads back, and the numbers
\* above and below it stay.
LEMMA Replacing ==
  ASSUME NEW D \in Nat \ {0}, NEW M \in Nat \ {0}, NEW x \in Nat, NEW d \in 0 .. M - 1
  PROVE  LET y == x + D * (d - ((x \div D) % M))
         IN  /\ y \in Int /\ (y \div D) % M = d
             /\ y % D = x % D /\ y \div (D * M) = x \div (D * M)
<1> DEFINE q == x \div D
           w == x % D
           u == q \div M
           f == q % M
           y == x + D * (d - f)
           v == M * u + d
<1>1. q \in Int /\ w \in 0 .. D - 1 /\ x = D * q + w
  BY Division
<1>2. u \in Int /\ f \in 0 .. M - 1 /\ q = M * u + f
  <2> HIDE DEF q
  <2> QED BY <1>1, Division
<1>3. v \in Int /\ v = q - f + d
  <2> HIDE DEF u, f, q
  <2> QED BY <1>2
<1>4. y \in Int /\ y = D * v + w
  <2>1. D * (d - f) = D * d - D * f /\ D * (q - f + d) = D * q - D * f + D * d
        /\ D * d \in Int /\ D * f \in Int /\ D * q \in Int
    <3> HIDE DEF f, q
    <3> QED BY <1>1, <1>2
  <2> HIDE DEF q, w, u, f, v
  <2> QED BY <1>1, <1>2, <1>3, <2>1
<1>5. y \div D = v /\ y % D = w
  <2> HIDE DEF y, v, w
  <2> QED BY <1>1, <1>3, <1>4, DivisionIs
<1>6. v \div M = u /\ v % M = d
  <2> HIDE DEF u
  <2>1. v = M * u + d
    OBVIOUS
  <2> HIDE DEF v
  <2> QED BY <1>2, <1>3, <2>1, DivisionIs
<1>7. \A z \in Int : (z \div D) \div M = z \div (D * M)
  BY DivisionTwice
<1>8. y \div (D * M) = x \div (D * M)
  <2>1. x \in Int
    OBVIOUS
  <2> HIDE DEF y, v
  <2> QED BY <1>4, <1>5, <1>6, <1>7, <2>1
<1> HIDE DEF y, v
<1> QED BY <1>4, <1>5, <1>6, <1>8 DEF y

\* The access to lanes l .. l + Size(n) - 1 of a word, in powers of two.
LEMMA Access ==
  ASSUME NEW n \in Store \cup Load, NEW l \in Aligned(n)
  PROVE  LET c == Size(n)
         IN  /\ c \in {1, 2, 4} /\ l \in 0 .. 3 /\ l + c <= 4 /\ FirstLane(n, l) = l
             /\ Bits(n) = LaneBits * c /\ LaneBits * c \in Nat /\ LaneBits * l \in Nat
             /\ LaneBits * c - 1 \in Nat
             /\ Pow2[LaneBits * l] \in Nat \ {0} /\ Pow2[LaneBits * c] \in Nat \ {0}
             /\ \A m \in Store \cup Load : Size(m) = c => FirstLane(m, l) = l
<1> DEFINE c == Size(n)
<1>1. c \in {1, 2, 4} /\ l \in 0 .. 3 /\ l % c = 0
  BY DEF Size, Aligned
<1>2. /\ c = 4 => l = 0
      /\ c = 2 => l \in {0, 2}
  BY <1>1
<1>3. \A m \in Store \cup Load : Size(m) = c => FirstLane(m, l) = l
  <2> HIDE DEF c
  <2> QED BY <1>1, <1>2 DEF FirstLane
<1>4. LaneBits * c \in Nat /\ LaneBits * l \in Nat /\ LaneBits * c - 1 \in Nat
  <2> HIDE DEF c
  <2> QED BY <1>1, WordIs
<1>5. Pow2[LaneBits * l] \in Nat \ {0} /\ Pow2[LaneBits * c] \in Nat \ {0}
  <2> HIDE DEF c
  <2> QED BY <1>4, Pow2Grows
<1> QED BY <1>1, <1>2, <1>3, <1>4, <1>5 DEF Bits

\* k lanes weigh no more than the word, and divide it.
LEMMA LanesInWord ==
  ASSUME NEW k \in 0 .. 4
  PROVE  /\ LaneBits * k \in Nat /\ Pow2[LaneBits * k] \in Nat \ {0}
         /\ Words = Pow2[LaneBits * k] * Pow2[LaneBits * (4 - k)]
         /\ Pow2[LaneBits * (4 - k)] \in Nat \ {0}
         /\ \A j \in 0 .. 4 : k <= j =>
              /\ LaneBits * (j - k) \in Nat /\ Pow2[LaneBits * (j - k)] \in Nat \ {0}
              /\ Pow2[LaneBits * j] = Pow2[LaneBits * k] * Pow2[LaneBits * (j - k)]
<1>1. LaneBits \in Nat \ {0} /\ Width = 4 * LaneBits
  BY WordIs
<1>2. \A i \in Nat : LaneBits * i \in Nat /\ Pow2[LaneBits * i] \in Nat \ {0}
  BY <1>1, Pow2Grows
<1>3. ASSUME NEW j \in 0 .. 4, k <= j
      PROVE  /\ j - k \in Nat
             /\ Pow2[LaneBits * j] = Pow2[LaneBits * k] * Pow2[LaneBits * (j - k)]
  <2>1. j - k \in Nat /\ k \in Nat /\ LaneBits * k + LaneBits * (j - k) = LaneBits * j
    BY <1>1, <1>3
  <2>2. LaneBits * k \in Nat /\ LaneBits * (j - k) \in Nat
    BY <1>2, <2>1
  <2>3. Pow2[LaneBits * k + LaneBits * (j - k)] = Pow2[LaneBits * k] * Pow2[LaneBits * (j - k)]
    BY <2>2, Pow2Grows
  <2> QED BY <2>1, <2>3
<1>4. Words = Pow2[LaneBits * 4]
  BY <1>1, AluAssumption
<1>5. 4 \in 0 .. 4 /\ k <= 4 /\ k \in Nat
  OBVIOUS
<1> QED BY <1>2, <1>3, <1>4, <1>5

\* The other lanes of a word keep what they hold when lanes l .. l + c - 1 change.
LEMMA OthersKept ==
  ASSUME NEW x \in Int, NEW y \in Int, NEW l \in 0 .. 3, NEW c \in {1, 2, 4}, l + c <= 4,
         y % Pow2[LaneBits * l] = x % Pow2[LaneBits * l],
         y \div Pow2[LaneBits * (l + c)] = x \div Pow2[LaneBits * (l + c)],
         NEW k \in (0 .. 3) \ (l .. l + c - 1)
  PROVE  (y \div Pow2[LaneBits * k]) % Pow2[LaneBits]
           = (x \div Pow2[LaneBits * k]) % Pow2[LaneBits]
<1> DEFINE B == Pow2[LaneBits]
           K == Pow2[LaneBits * k]
<1>1. B \in Nat \ {0} /\ K \in Nat \ {0} /\ k \in 0 .. 4 /\ LaneBits * 1 = LaneBits
  <2>1. k \in 0 .. 4 /\ LaneBits \in Nat
    BY WordIs
  <2>2. LaneBits * 1 = LaneBits
    BY <2>1
  <2> QED BY <2>1, <2>2, LanesInWord, Pow2Grows
<1>2. CASE k < l
  <2> DEFINE L == Pow2[LaneBits * l]
             G == Pow2[LaneBits * (l - (k + 1))]
             w == x % L
  <2>1. L = (K * B) * G /\ G \in Nat \ {0} /\ L \in Nat \ {0}
    <3>1. k + 1 \in 0 .. 4 /\ l \in 0 .. 4 /\ k + 1 <= l /\ (k + 1) - k = 1 /\ k <= k + 1
      BY <1>2
    <3>2. Pow2[LaneBits * (k + 1)] = K * B
      <4>1. Pow2[LaneBits * (k + 1)] = K * Pow2[LaneBits * ((k + 1) - k)]
        BY <1>1, <3>1, LanesInWord
      <4> QED BY <1>1, <3>1, <4>1
    <3> QED BY <3>1, <3>2, LanesInWord
  <2>2. \A z \in Int : z % L = w => (z \div K) % B = (w \div K) % B
    <3> TAKE z \in Int
    <3> HAVE z % L = w
    <3>1. z \div L \in Int /\ w \in Int /\ z = L * (z \div L) + w
      <4> HIDE DEF L
      <4>2. L \in Nat \ {0} /\ z \in Int
        BY <2>1
      <4>1. z % L \in 0 .. L - 1 /\ z = L * (z \div L) + (z % L) /\ z \div L \in Int
        BY <4>2, Division
      <4> HIDE DEF w
      <4> QED BY <4>1
    <3>2. L * (z \div L) = (K * B) * (G * (z \div L)) /\ G * (z \div L) \in Int
      <4> DEFINE g == z \div L
      <4> HIDE DEF g, K, B, G, L
      <4>1. \A p, q \in Nat, r \in Int : (p * q) * r = p * (q * r)
        OBVIOUS
      <4>2. K * B \in Nat
        BY <1>1
      <4> QED BY <2>1, <3>1, <4>1, <4>2 DEF g
    <3> DEFINE g == G * (z \div L)
    <3>3. z = (K * B) * g + w /\ g \in Int /\ w \in Int
      BY <3>1, <3>2
    <3> HIDE DEF K, B, g, w
    <3>4. (((K * B) * g + w) \div K) % B = (w \div K) % B
      BY <1>1, <3>3, DigitBelow
    <3> QED BY <3>3, <3>4
  <2> QED BY <2>2
<1>3. CASE k >= l + c
  <2> DEFINE U == Pow2[LaneBits * (l + c)]
             G == Pow2[LaneBits * (k - (l + c))]
  <2>1. K = U * G /\ G \in Nat \ {0} /\ U \in Nat \ {0}
    <3>1. l + c \in 0 .. 4 /\ l + c <= k
      BY <1>3
    <3> QED BY <1>1, <3>1, LanesInWord
  <2>2. \A z \in Int : z \div K = (z \div U) \div G
    <3> HIDE DEF K, U, G
    <3> QED BY <2>1, DivisionTwice
  <2> QED BY <2>2
<1> QED BY <1>2, <1>3

\* What a store of v leaves of the word x, for every load.
LEMMA StoreExact ==
  ASSUME NEW n \in Store, NEW x \in W, NEW v \in W, NEW l \in Aligned(n)
  PROVE  LET new == dm_write(n, l, x, v)
             M == Pow2[LaneBits * Size(n)]
             part == v % M
         IN  /\ \A m \in Load : Size(m) = Size(n) =>
                  /\ dm_data_read(m, l, new) % M = part
                  /\ m \in {"LB", "LH"} =>
                       (Signed(dm_data_read(m, l, new)) < 0
                          <=> part >= Pow2[LaneBits * Size(n) - 1])
             /\ \A k \in (0 .. 3) \ (l .. l + Size(n) - 1) :
                  dm_data_read("LBU", k, new) = dm_data_read("LBU", k, x)
<1> DEFINE new == dm_write(n, l, x, v)
           c == Size(n)
           D == Pow2[LaneBits * l]
           M == Pow2[LaneBits * c]
           half == Pow2[LaneBits * c - 1]
           part == v % M
<1>1. /\ c \in {1, 2, 4} /\ l \in 0 .. 3 /\ l + c <= 4 /\ FirstLane(n, l) = l
      /\ Bits(n) = LaneBits * c /\ LaneBits * c - 1 \in Nat
      /\ D \in Nat \ {0} /\ M \in Nat \ {0}
      /\ \A m \in Load : Size(m) = c => FirstLane(m, l) = l
  BY Access
<1>2. /\ H \in Nat /\ Words = 2 * H /\ H >= 8 /\ Words \div 2 = H /\ Words \in Nat
      /\ x \in Nat /\ v \in Nat
  BY WordIs, SignedIs
<1>3. part \in 0 .. M - 1
  <2>1. M \in Nat \ {0} /\ v \in Int
    BY <1>1, <1>2
  <2> HIDE DEF M
  <2> QED BY <2>1, Division
<1>4. new = x + D * (part - ((x \div D) % M))
  BY <1>1 DEF dm_write, Field, ShiftRight
<1>5. /\ new \in Int /\ (new \div D) % M = part
      /\ new % D = x % D /\ new \div (D * M) = x \div (D * M)
  <2>1. D \in Nat \ {0} /\ M \in Nat \ {0} /\ x \in Nat
    BY <1>1, <1>2
  <2> HIDE DEF new, D, M, part
  <2> QED BY <2>1, <1>3, <1>4, Replacing
<1>6. M = 2 * half /\ half \in Nat \ {0}
  <2>1. (LaneBits * c - 1) + 1 = LaneBits * c /\ LaneBits * c - 1 \in Nat
    <3> HIDE DEF c
    <3> QED BY <1>1, WordIs
  <2> QED BY <2>1, Pow2Is, Pow2Grows
<1>7. PICK G \in Nat \ {0} : Words = M * G
  <2>1. c \in 0 .. 4
    BY <1>1
  <2> HIDE DEF c
  <2> QED BY <2>1, LanesInWord
<1>8. M <= Words
  <2>1. \A p, q \in Nat \ {0} : p <= p * q
    OBVIOUS
  <2> HIDE DEF M
  <2> QED BY <1>1, <1>7, <2>1
<1>9. ASSUME NEW m \in Load, Size(m) = c
      PROVE  dm_data_read(m, l, new) = IF m \in {"LB", "LH"} /\ part >= half
                                       THEN part + Words - M ELSE part
  <2>1. FirstLane(m, l) = l /\ Bits(m) = LaneBits * c
    BY <1>1, <1>9 DEF Bits
  <2>2. Field(new, FirstLane(m, l), Bits(m)) = part
    BY <1>5, <2>1 DEF Field, ShiftRight
  <2> HIDE DEF new, part
  <2> QED BY <2>1, <2>2 DEF dm_data_read
<1>10. ASSUME NEW m \in Load, Size(m) = c
       PROVE  /\ dm_data_read(m, l, new) % M = part
              /\ m \in {"LB", "LH"} =>
                   (Signed(dm_data_read(m, l, new)) < 0 <=> part >= half)
  <2> DEFINE d == dm_data_read(m, l, new)
  <2>1. CASE m \in {"LB", "LH"} /\ part >= half
    <3>1. d = part + Words - M
      BY <1>9, <1>10, <2>1
    <3>2. d % M = part
      <4>1. part + Words - M = M * (G - 1) + part
        <5>1. M * (G - 1) = M * G - M
          <6> HIDE DEF M
          <6> QED BY <1>1
        <5> HIDE DEF M, part
        <5> QED BY <1>1, <1>2, <1>3, <1>7, <5>1
      <4>2. G - 1 \in Int /\ part + Words - M \in Int
        <5> HIDE DEF M, part
        <5> QED BY <1>1, <1>2, <1>3
      <4> HIDE DEF M, part, d
      <4> QED BY <1>1, <1>3, <3>1, <4>1, <4>2, DivisionIs
    <3>3. Signed(d) < 0
      <4> HIDE DEF M, part, d, half
      <4> QED BY <1>1, <1>2, <1>3, <1>6, <1>8, <2>1, <3>1 DEF Signed
    <3> QED BY <2>1, <3>2, <3>3
  <2>2. CASE ~(m \in {"LB", "LH"} /\ part >= half)
    <3>1. d = part
      BY <1>9, <1>10, <2>2
    <3>2. d % M = part
      <4> HIDE DEF M, part, d
      <4> QED BY <1>1, <1>3, <3>1
    <3>3. part < half => ~(Signed(d) < 0)
      <4> HIDE DEF M, part, d, half
      <4> QED BY <1>1, <1>2, <1>3, <1>6, <1>8, <3>1 DEF Signed
    <3>4. part < half \/ part >= half
      <4> HIDE DEF M, part, half
      <4> QED BY <1>1, <1>3, <1>6
    <3>5. m \in {"LB", "LH"} => part < half /\ ~(part >= half)
      <4> HIDE DEF part, half
      <4> QED BY <2>2, <3>4
    <3> QED BY <3>2, <3>3, <3>5
  <2> QED BY <2>1, <2>2
<1>11. ASSUME NEW k \in (0 .. 3) \ (l .. l + c - 1)
       PROVE  dm_data_read("LBU", k, new) = dm_data_read("LBU", k, x)
  <2>1. \A z : dm_data_read("LBU", k, z) = (z \div Pow2[LaneBits * k]) % Pow2[LaneBits]
    <3>1. Size("LBU") = 1 /\ FirstLane("LBU", k) = k /\ Bits("LBU") = LaneBits
      <4>1. Size("LBU") = 1
        BY DEF Size
      <4> QED BY <4>1, WordIs DEF FirstLane, Bits
    <3> QED BY <3>1 DEF dm_data_read, Field, ShiftRight
  <2>2. D * M = Pow2[LaneBits * (l + c)]
    <3>1. l \in 0 .. 4 /\ l + c \in 0 .. 4 /\ l <= l + c /\ (l + c) - l = c
      <4> HIDE DEF c
      <4> QED BY <1>1
    <3> HIDE DEF c
    <3> QED BY <3>1, LanesInWord
  <2>3. /\ new \in Int /\ x \in Int /\ new % Pow2[LaneBits * l] = x % Pow2[LaneBits * l]
        /\ new \div Pow2[LaneBits * (l + c)] = x \div Pow2[LaneBits * (l + c)]
    BY <1>2, <1>5, <2>2
  <2>4. (new \div Pow2[LaneBits * k]) % Pow2[LaneBits]
          = (x \div Pow2[LaneBits * k]) % Pow2[LaneBits]
    <3> HIDE DEF new, c
    <3> QED BY <1>1, <1>11, <2>3, OthersKept
  <2> QED BY <2>1, <2>4
<1> QED BY <1>10, <1>11

-----------------------------------------------------------------------------
\* The number with ones at S, bit by bit.
LEMMA FromOnesIs ==
  ASSUME NEW S
  PROVE  \E total \in [Nat -> Nat] :
           /\ total[0] = 0 /\ FromOnes(S) = total[Width]
           /\ \A k \in Nat : total[k + 1] = total[k] + (IF k \in S THEN Pow2[k] ELSE 0)
<1> DEFINE Rec(f) == f = [k \in Nat |->
                            IF k = 0 THEN 0
                            ELSE f[k - 1] + (IF k - 1 \in S THEN Pow2[k - 1] ELSE 0)]
           bit == [k \in Nat |-> IF k \in S THEN Pow2[k] ELSE 0]
           step == [p \in Nat \X Nat |-> p[2] + bit[p[1]]]
           Sum == CHOOSE f : Rec(f)
<1>1. bit \in [Nat -> Nat]
  BY Pow2Is
<1>2. PICK f \in [Nat -> Nat] : f[0] = 0 /\ \A k \in Nat : f[k + 1] = step[<<k, f[k]>>]
  <2>1. step \in [Nat \X Nat -> Nat]
    <3> HIDE DEF bit
    <3> QED BY <1>1
  <2>2. 0 \in Nat
    OBVIOUS
  <2> HIDE DEF step
  <2> QED BY <2>1, <2>2, Recursion
<1>3. \A k \in Nat : f[k + 1] = f[k] + (IF k \in S THEN Pow2[k] ELSE 0)
  BY <1>2
<1>4. Rec(f)
  <2>1. ASSUME NEW k \in Nat
        PROVE  f[k] = IF k = 0 THEN 0
                      ELSE f[k - 1] + (IF k - 1 \in S THEN Pow2[k - 1] ELSE 0)
    <3>1. CASE k # 0
      <4>1. k - 1 \in Nat /\ (k - 1) + 1 = k
        BY <3>1
      <4> QED BY <1>3, <3>1, <4>1
    <3> QED BY <1>2, <3>1
  <2> QED BY <2>1
<1>5. Rec(Sum)
  <2> HIDE DEF Rec
  <2> QED BY <1>4
<1>6. \A k \in Nat : Sum[k] = f[k]
  <2> DEFINE T == {k \in Nat : Sum[k] = f[k]}
  <2>1. 0 \in T /\ T \in SUBSET Nat
    <3> HIDE DEF Sum
    <3> QED BY <1>2, <1>5
  <2>2. ASSUME NEW k \in T PROVE k + 1 \in T
    <3> HIDE DEF Sum
    <3>1. k + 1 \in Nat /\ k + 1 # 0 /\ (k + 1) - 1 = k
      OBVIOUS
    <3>2. Sum[k + 1] = Sum[k] + (IF k \in S THEN Pow2[k] ELSE 0)
      BY <1>5, <3>1
    <3> QED BY <1>3, <3>2
  <2> HIDE DEF T
  <2>3. T = Nat
    BY <2>1, <2>2, Induction
  <2> QED BY <2>3 DEF T
<1>7. FromOnes(S) = Sum[Width]
  BY DEF FromOnes
<1> HIDE DEF Sum
<1> QED BY <1>2, <1>3, <1>6, <1>7, WordIs

\* It is a word, and its ones are those of S.
LEMMA OnesBack ==
  ASSUME NEW S \in SUBSET (0 .. Width - 1)
  PROVE  FromOnes(S) \in W /\ Ones(FromOnes(S)) = S
<1>1. PICK t \in [Nat -> Nat] :
        /\ t[0] = 0 /\ FromOnes(S) = t[Width]
        /\ \A k \in Nat : t[k + 1] = t[k] + (IF k \in S THEN Pow2[k] ELSE 0)
  BY FromOnesIs
<1> DEFINE Good(k) == /\ t[k] < Pow2[k]
                      /\ \A i \in Nat : i < k => ((t[k] \div Pow2[i]) % 2 = 1 <=> i \in S)
           T == {k \in Nat : Good(k)}
<1>2. 0 \in T /\ T \in SUBSET Nat
  BY <1>1, Pow2Is
<1>3. ASSUME NEW k \in T PROVE k + 1 \in T
  <2> DEFINE b == IF k \in S THEN 1 ELSE 0
             P == Pow2[k]
  <2>1. /\ k \in Nat /\ t[k] \in Nat /\ P \in Nat \ {0} /\ t[k] < P /\ b \in {0, 1}
        /\ t[k + 1] = P * b + t[k] /\ Pow2[k + 1] = 2 * P
    <3>1. k \in Nat /\ t[k] \in Nat /\ P \in Nat \ {0} /\ Pow2[k + 1] = 2 * P
      BY <1>1, Pow2Is, Pow2Grows
    <3>2. t[k + 1] = t[k] + (IF k \in S THEN P ELSE 0)
      BY <1>1, <3>1
    <3> QED BY <3>1, <3>2
  <2>2. t[k + 1] < Pow2[k + 1]
    <3> HIDE DEF b, P
    <3> QED BY <2>1
  <2>3. (t[k + 1] \div P) % 2 = 1 <=> k \in S
    <3>1. t[k + 1] \div P = b
      <4>1. t[k] \in 0 .. P - 1 /\ t[k + 1] \in Int /\ b \in Int
        <5> HIDE DEF b, P
        <5> QED BY <2>1
      <4> HIDE DEF b, P
      <4> QED BY <2>1, <4>1, DivisionIs
    <3>2. b % 2 = b
      OBVIOUS
    <3> QED BY <3>1, <3>2
  <2>4. ASSUME NEW i \in Nat, i < k
        PROVE  (t[k + 1] \div Pow2[i]) % 2 = (t[k] \div Pow2[i]) % 2
    <3> DEFINE Q == Pow2[i]
               R == Pow2[k - (i + 1)]
    <3>1. P = (Q * 2) * R /\ Q \in Nat \ {0} /\ R \in Nat \ {0}
      <4>1. i + 1 \in Nat /\ k - (i + 1) \in Nat /\ (i + 1) + (k - (i + 1)) = k
        BY <2>1, <2>4
      <4>2. Pow2[(i + 1) + (k - (i + 1))] = Pow2[i + 1] * R /\ Pow2[i + 1] = 2 * Q
        BY <4>1, Pow2Grows, Pow2Is
      <4>3. Q \in Nat \ {0} /\ R \in Nat \ {0}
        BY <4>1, Pow2Grows
      <4> HIDE DEF Q, R
      <4> QED BY <4>1, <4>2, <4>3
    <3>2. P * b = (Q * 2) * (R * b) /\ R * b \in Int
      <4>1. R * 0 = 0 /\ R * 1 = R /\ P * 0 = 0 /\ P * 1 = P /\ (Q * 2) * 0 = 0
        <5> HIDE DEF Q, R, P
        <5> QED BY <2>1, <3>1
      <4>2. R \in Int
        BY <3>1
      <4>3. CASE k \in S
        <5> HIDE DEF Q, R, P
        <5> QED BY <3>1, <4>1, <4>2, <4>3
      <4>4. CASE k \notin S
        <5> HIDE DEF Q, R, P
        <5> QED BY <3>1, <4>1, <4>2, <4>4
      <4> QED BY <4>3, <4>4
    <3> DEFINE g == R * b
    <3>3. g \in Int /\ t[k + 1] = (Q * 2) * g + t[k] /\ t[k] \in Int /\ 2 \in Nat \ {0}
      <4> HIDE DEF Q, P, b
      <4> QED BY <2>1, <3>2
    <3> HIDE DEF g, Q
    <3>4. ((((Q * 2) * g + t[k]) \div Q) % 2) = (t[k] \div Q) % 2
      BY <3>1, <3>3, DigitBelow
    <3> QED BY <3>3, <3>4 DEF Q
  <2>5. ASSUME NEW i \in Nat, i < k + 1
        PROVE  (t[k + 1] \div Pow2[i]) % 2 = 1 <=> i \in S
    <3>1. CASE i = k
      BY <2>3, <3>1
    <3>2. CASE i # k
      <4>1. i < k
        BY <2>1, <2>5, <3>2
      <4> QED BY <2>4, <4>1
    <3> QED BY <3>1, <3>2
  <2>6. k + 1 \in Nat
    BY <2>1
  <2> QED BY <2>2, <2>5, <2>6
<1>4. T = Nat
  <2> HIDE DEF T
  <2> QED BY <1>2, <1>3, Induction
<1>5. Width \in Nat /\ Good(Width)
  BY <1>4, WordIs
<1>6. FromOnes(S) \in W
  BY <1>1, <1>5, WordIs, AluAssumption DEF W
<1>7. \A i \in 0 .. Width - 1 : i \in Nat /\ i < Width
  BY <1>5
<1> QED BY <1>1, <1>5, <1>6, <1>7 DEF Ones

\* A complement has the other ones.
LEMMA ComplementIs ==
  ASSUME NEW x \in W
  PROVE  Complement(x) \in W /\ Ones(Complement(x)) = (0 .. Width - 1) \ Ones(x)
<1>1. Complement(x) \in W /\ Complement(x) = Words - 1 - x /\ x \in Nat /\ Words \in Nat
  BY WordIs, SignedIs DEF Complement, W
<1>2. ASSUME NEW i \in 0 .. Width - 1
      PROVE  (Complement(x) \div Pow2[i]) % 2 = 1 <=> ~((x \div Pow2[i]) % 2 = 1)
  <2> DEFINE P == Pow2[i]
             G == Pow2[Width - (i + 1)]
             k == x \div P
             r == x % P
             c == Words - 1 - x
  <2>1. Words = (2 * P) * G /\ P \in Nat \ {0} /\ G \in Nat \ {0}
    <3>1. /\ i \in Nat /\ i + 1 \in Nat /\ Width - (i + 1) \in Nat
          /\ (i + 1) + (Width - (i + 1)) = Width
      BY WordIs
    <3>2. Pow2[(i + 1) + (Width - (i + 1))] = Pow2[i + 1] * G /\ Pow2[i + 1] = 2 * P
      BY <3>1, Pow2Grows, Pow2Is
    <3>3. P \in Nat \ {0} /\ G \in Nat \ {0}
      BY <3>1, Pow2Grows
    <3> QED BY <3>1, <3>2, <3>3, AluAssumption
  <2>2. k \in Int /\ r \in 0 .. P - 1 /\ x = P * k + r
    <3>1. x \in Int /\ P \in Nat \ {0}
      BY <1>1, <2>1
    <3> HIDE DEF P
    <3> QED BY <3>1, Division
  <2>3. c \div P = 2 * G - 1 - k
    <3> HIDE DEF k, r, P, G
    <3>1. (2 * P) * G = P * (2 * G) /\ P * (2 * G - 1 - k) = P * (2 * G) - P - P * k
          /\ P * (2 * G) \in Int /\ P * k \in Int
      BY <2>1, <2>2
    <3>2. c = P * (2 * G - 1 - k) + (P - 1 - r)
      BY <1>1, <2>1, <2>2, <3>1
    <3>3. 2 * G - 1 - k \in Int /\ P - 1 - r \in 0 .. P - 1 /\ c \in Int
      BY <1>1, <2>1, <2>2
    <3> HIDE DEF c
    <3> QED BY <2>1, <3>2, <3>3, DivisionIs
  <2>4. (2 * G - 1 - k) % 2 = 1 <=> ~(k % 2 = 1)
    <3> HIDE DEF k, G
    <3> QED BY <2>1, <2>2
  <2> QED BY <1>1, <2>3, <2>4
<1> QED BY <1>1, <1>2 DEF Ones

-----------------------------------------------------------------------------
(* The logical operations work bit by bit.                                 *)
THEOREM LogicIsBitwise ==
  ASSUME NEW x \in W, NEW y \in W
  PROVE  /\ Ones(alu_result("AND", x, y)) = Ones(x) \cap Ones(y)
         /\ Ones(alu_result("OR", x, y)) = Ones(x) \cup Ones(y)
         /\ Ones(alu_result("NOR", x, y)) = (0 .. Width - 1) \ (Ones(x) \cup Ones(y))
         /\ Ones(alu_result("XOR", x, y)) = (Ones(x) \ Ones(y)) \cup (Ones(y) \ Ones(x))
<1>1. Ones(x) \subseteq 0 .. Width - 1 /\ Ones(y) \subseteq 0 .. Width - 1
  BY DEF Ones
<1>2. /\ alu_result("AND", x, y) = And(x, y) /\ alu_result("OR", x, y) = Or(x, y)
      /\ alu_result("NOR", x, y) = Complement(Or(x, y)) /\ alu_result("XOR", x, y) = Xor(x, y)
  BY DEF alu_result
<1>3. /\ Or(x, y) \in W /\ Ones(And(x, y)) = Ones(x) \cap Ones(y)
      /\ Ones(Or(x, y)) = Ones(x) \cup Ones(y)
      /\ Ones(Xor(x, y)) = (Ones(x) \cup Ones(y)) \ (Ones(x) \cap Ones(y))
  BY <1>1, OnesBack DEF And, Or, Xor
<1>4. Ones(Complement(Or(x, y))) = (0 .. Width - 1) \ (Ones(x) \cup Ones(y))
  BY <1>3, ComplementIs
<1> QED BY <1>2, <1>3, <1>4

-----------------------------------------------------------------------------
\* A remainder by the number of words is a word.
LEMMA Reduced == \A z \in Int : z % Words \in W
  BY WordIs DEF W

\* What the logical operations and the shifts return.
LEMMA LogicInWord ==
  ASSUME NEW x \in W, NEW y \in W
  PROVE  And(x, y) \in W /\ Or(x, y) \in W /\ Xor(x, y) \in W /\ Complement(Or(x, y)) \in W
<1>1. Ones(x) \subseteq 0 .. Width - 1 /\ Ones(y) \subseteq 0 .. Width - 1
  BY DEF Ones
<1>2. And(x, y) \in W /\ Or(x, y) \in W /\ Xor(x, y) \in W
  BY <1>1, OnesBack DEF And, Or, Xor
<1> QED BY <1>2, ComplementIs

LEMMA ShiftsInWord ==
  ASSUME NEW y \in W, NEW s \in Nat
  PROVE  ShiftLeft(y, s) \in W /\ ShiftRight(y, s) \in W /\ ShiftArith(y, s) \in W
<1>1. Pow2[s] \in Nat \ {0}
  BY Pow2Grows
<1>2. ASSUME NEW z \in W PROVE ShiftRight(z, s) \in W
  <2>1. \A u \in Nat, p \in Nat \ {0} : u \div p \in 0 .. u
    OBVIOUS
  <2>2. z \in Nat /\ Words \in Nat /\ z < Words
    BY SignedIs, WordIs
  <2>3. z \div Pow2[s] \in 0 .. z
    BY <1>1, <2>1, <2>2
  <2> QED BY <2>2, <2>3 DEF ShiftRight, W
<1>3. ShiftArith(y, s) \in W
  BY <1>2, ComplementIs DEF ShiftArith
<1>4. ShiftLeft(y, s) \in W
  <2>1. y * Pow2[s] \in Int
    BY <1>1, SignedIs
  <2> QED BY <2>1, Reduced DEF ShiftLeft
<1> QED BY <1>2, <1>3, <1>4

\* The result of alu.v, whatever the name.
LEMMA AluInWord ==
  ASSUME NEW n, NEW x \in W, NEW y \in W
  PROVE  alu_result(n, x, y) \in W
<1> DEFINE s == x % Pow2[ShiftBits]
<1>1. s \in Nat /\ Width \div 2 \in Nat /\ x \in Int /\ y \in Int /\ {0, 1} \subseteq W
  BY AluAssumption, WordIs, SignedIs DEF W
<1>2. And(x, y) \in W /\ Or(x, y) \in W /\ Xor(x, y) \in W /\ Complement(Or(x, y)) \in W
  BY LogicInWord
<1>3. /\ ShiftLeft(y, s) \in W /\ ShiftRight(y, s) \in W /\ ShiftArith(y, s) \in W
      /\ ShiftLeft(y, Width \div 2) \in W
  BY <1>1, ShiftsInWord
<1>4. (x - y) % Words \in W /\ (x + y) % Words \in W
  BY <1>1, Reduced
<1>5. (IF Signed(x) < Signed(y) THEN 1 ELSE 0) \in W /\ (IF x < y THEN 1 ELSE 0) \in W
  BY <1>1
<1> HIDE DEF s
<1> QED BY <1>2, <1>3, <1>4, <1>5 DEF alu_result, s

\* HI and LO.
LEMMA HiLoInWord ==
  ASSUME NEW n \in MulDiv, NEW x \in W, NEW y \in W
  PROVE  multiply(n, x, y) \in [hi : W, lo : W]
<1>1. x \in Int /\ y \in Int /\ Signed(x) \in Int /\ Signed(y) \in Int
  BY SignedIs, WordIs
<1>2. \A u \in Int : Halves(u) \in [hi : W, lo : W]
  <2> TAKE u \in Int
  <2>1. Words \in Nat \ {0} /\ Words * Words \in Nat \ {0}
    BY WordIs
  <2>2. u % (Words * Words) \in 0 .. Words * Words - 1
    BY <2>1, Division
  <2>3. \A v \in 0 .. Words * Words - 1 : v \div Words \in 0 .. Words - 1
    BY <2>1
  <2> QED BY <2>2, <2>3, Reduced DEF Halves, W
<1>3. \A u, v \in Int : Divided(u, v) \in [hi : W, lo : W]
  <2> TAKE u, v \in Int
  <2>1. Quotient(u, v) \in Int
    <3>1. CASE v = 0
      BY <3>1 DEF Quotient
    <3>2. CASE v # 0
      BY <3>2, QuotientIs
    <3> QED BY <3>1, <3>2
  <2>2. u - Quotient(u, v) * v \in Int
    BY <2>1
  <2> QED BY <2>1, <2>2, Reduced DEF Divided
<1> QED BY <1>1, <1>2, <1>3 DEF multiply, MulDiv

\* The extensions of a half word.
LEMMA ExtensionsInWord ==
  ASSUME NEW v \in W
  PROVE  signedext(v) \in W /\ unsignedext(v) \in W
<1>1. HalfWords \in Nat \ {0} /\ HalfWords <= Words /\ Words \in Nat
  <2>1. Width \div 2 \in Nat /\ Width \div 2 <= Width /\ Width \in Nat
    BY WordIs
  <2> QED BY <2>1, Pow2Grows, WordIs, AluAssumption DEF HalfWords
<1>2. v % HalfWords \in 0 .. HalfWords - 1
  <2>1. v \in Int
    BY SignedIs
  <2> QED BY <1>1, <2>1, Division
<1> QED BY <1>1, <1>2 DEF signedext, unsignedext, W

\* Loads and stores, also at lanes that no access is aligned to.
LEMMA LanesStayInWord ==
  ASSUME NEW n \in Load \cup Store, NEW l \in 0 .. 3, NEW w \in W, NEW v \in W
  PROVE  dm_data_read(n, l, w) \in W /\ dm_write(n, l, w, v) \in W
<1> DEFINE f == FirstLane(n, l)
           c == Size(n)
           D == Pow2[LaneBits * f]
           M == Pow2[LaneBits * c]
           G == Pow2[LaneBits * (4 - (f + c))]
<1>1. c \in {1, 2, 4} /\ f \in 0 .. 3 /\ f + c <= 4
  BY DEF Size, FirstLane
<1>2. D \in Nat \ {0} /\ M \in Nat \ {0} /\ G \in Nat \ {0} /\ Words = (D * M) * G
      /\ M <= Words
  <2> HIDE DEF f, c
  <2>1. f \in 0 .. 4 /\ f + c \in 0 .. 4 /\ c \in 0 .. 4 /\ f <= f + c /\ (f + c) - f = c
    BY <1>1
  <2>2. Pow2[LaneBits * (f + c)] = D * M
    BY <2>1, LanesInWord
  <2>3. D \in Nat \ {0} /\ M \in Nat \ {0} /\ G \in Nat \ {0} /\ Words = (D * M) * G
    BY <2>1, <2>2, LanesInWord
  <2>4. PICK K \in Nat \ {0} : Words = M * K
    BY <2>1, LanesInWord
  <2>5. \A p, q \in Nat \ {0} : p <= p * q
    OBVIOUS
  <2> HIDE DEF M, D, G
  <2> QED BY <2>3, <2>4, <2>5
<1>3. w \in Nat /\ v \in Nat /\ w < Words /\ Words \in Nat
  BY SignedIs, WordIs
<1>4. Bits(n) = LaneBits * c
  BY DEF Bits
<1>5. \A z \in Nat : (z \div D) % M \in 0 .. M - 1 /\ z % M \in 0 .. M - 1
  <2> HIDE DEF D, M
  <2> QED BY <1>2
<1>6. dm_data_read(n, l, w) \in W
  <2>1. Field(w, f, Bits(n)) \in 0 .. M - 1
    BY <1>3, <1>4, <1>5 DEF Field, ShiftRight
  <2>2. PICK d \in 0 .. M - 1 : dm_data_read(n, l, w) \in {d, d + Words - M}
    <3> HIDE DEF M
    <3> QED BY <1>4, <2>1 DEF dm_data_read, M
  <2> HIDE DEF M
  <2> QED BY <1>2, <1>3, <2>2 DEF W
<1>7. dm_write(n, l, w, v) \in W
  <2> DEFINE d == v % M
             q == w \div D
             r == w % D
             u == q \div M
             g == q % M
             y == w + D * (d - g)
  <2>1. dm_write(n, l, w, v) = y
    BY <1>4 DEF dm_write, Field, ShiftRight
  <2>2. q \in Nat /\ r \in 0 .. D - 1 /\ w = D * q + r
    <3> HIDE DEF D
    <3> QED BY <1>2, <1>3
  <2>3. u \in Nat /\ g \in 0 .. M - 1 /\ q = M * u + g /\ d \in 0 .. M - 1
    <3> HIDE DEF q, M
    <3> QED BY <1>2, <1>3, <2>2
  <2> HIDE DEF q, r, u, g, d, D, M, G
  <2>4. y = (D * M) * u + (D * d + r) /\ w = (D * M) * u + (D * g + r)
    <3>1. D * (M * u + g) = (D * M) * u + D * g /\ D * (d - g) = D * d - D * g
          /\ D * d \in Int /\ D * g \in Int /\ (D * M) * u \in Int
      BY <1>2, <2>3
    <3> QED BY <2>2, <2>3, <3>1
  <2>5. D * d + r \in 0 .. D * M - 1 /\ D * g + r \in Nat
    <3>1. D * d <= D * (M - 1) /\ D * (M - 1) = D * M - D /\ D * d \in Nat /\ D * g \in Nat
          /\ D * M \in Nat
      BY <1>2, <2>3
    <3> QED BY <1>2, <2>2, <3>1
  <2> DEFINE P == D * M
  <2>6. P \in Nat \ {0} /\ Words = P * G
    BY <1>2
  <2> HIDE DEF P
  <2>7. u + 1 <= G
    <3>1. P * u < P * G
      <4>1. P * u \in Int /\ P * G \in Int
        BY <1>2, <2>3, <2>6
      <4>2. w = P * u + (D * g + r)
        BY <2>4 DEF P
      <4>3. D * g + r >= 0 /\ D * g + r \in Int
        BY <2>5
      <4> QED BY <1>3, <2>6, <4>1, <4>2, <4>3
    <3> QED BY <1>2, <2>3, <2>6, <3>1
  <2>8. P * u + P <= P * G
    <3>1. P * (u + 1) <= P * G
      BY <1>2, <2>3, <2>6, <2>7
    <3>2. P * (u + 1) = P * u + P
      BY <2>3, <2>6
    <3> QED BY <3>1, <3>2
  <2>9. y \in 0 .. Words - 1
    <3>1. P * u \in Nat
      BY <2>3, <2>6
    <3>2. y = P * u + (D * d + r) /\ D * d + r \in 0 .. P - 1
      BY <2>4, <2>5 DEF P
    <3> HIDE DEF y
    <3> QED BY <1>3, <2>6, <2>8, <3>1, <3>2
  <2> QED BY <2>1, <2>9 DEF W
<1> QED BY <1>6, <1>7

(* What UnitAssumption of Cpu asks of the arithmetic, of alu.v, multiply.v, *)
(* signext.v and the byte lanes at every width: words in, words out.        *)
THEOREM UnitsReturnWords ==
  /\ \A n \in AluOps, x, y \in W :
       /\ alu_result(n, x, y) \in W
       /\ alu_overflow(n, x, y) \in BOOLEAN
  /\ \A n \in MulDiv, x, y \in W : multiply(n, x, y) \in [hi : W, lo : W]
  /\ \A v \in W : signedext(v) \in W /\ unsignedext(v) \in W
  /\ \A n \in Load, l \in 0 .. 3, w \in W : dm_data_read(n, l, w) \in W
  /\ \A n \in Store, l \in 0 .. 3, w, v \in W : dm_write(n, l, w, v) \in W
<1>1. \A n \in AluOps, x, y \in W : alu_overflow(n, x, y) \in BOOLEAN
  BY DEF alu_overflow
<1> QED BY <1>1, AluInWord, HiLoInWord, ExtensionsInWord, LanesStayInWord

-----------------------------------------------------------------------------
\* What a run has of Spec: an operation, and an operand that is a word.
Swept == op \in AluReg \cup MulDiv \cup Store /\ a \in W

\* Each sweep stays among the words.
LEMMA AlwaysSwept == Spec => []Swept
<1>1. Init => Swept
  BY WordIs DEF Init, Swept, W
<1>2. Swept /\ [Sweep]_<<op, a>> => Swept'
  BY WordIs DEF Swept, Sweep, W
<1> QED BY <1>1, <1>2, PTL DEF Spec

\* At a word, alu.v and multiply.v are exact.
LEMMA ExactOfSwept == Swept => ArithmeticExact
<1> SUFFICES ASSUME Swept PROVE ArithmeticExact
  OBVIOUS
<1>1. OverflowExact
  <2>1. op \in AddSub => op \in {"ADD", "SUB"}
    BY DEF Swept, AddSub, AluReg, MulDiv, Store
  <2> QED BY <2>1, SumExact DEF OverflowExact, Swept
<1>2. ShiftExact
  <2>1. Pow2[ShiftBits] = Width
    BY AluAssumption
  <2>2. ASSUME NEW b \in W PROVE
          /\ op \in {"SRA", "SRAV"} => alu_result(op, a, b) = ShiftArith(b, a % Width)
          /\ op \in {"SRL", "SRLV"} => alu_result(op, a, b) = ShiftRight(b, a % Width)
    BY <2>1 DEF alu_result
  <2>3. ASSUME NEW b \in W
        PROVE  /\ Signed(ShiftArith(b, a % Width)) = Signed(b) \div Pow2[a % Width]
               /\ ShiftRight(b, a % Width) = b \div Pow2[a % Width]
    BY ShiftIs DEF Swept
  <2> QED BY <2>2, <2>3 DEF ShiftExact
<1>3. MulDivExact
  BY HiLoExact DEF MulDivExact, Swept
<1> QED BY <1>1, <1>2, <1>3 DEF ArithmeticExact

(* alu.v and multiply.v compute the integers the instructions mean, at      *)
(* every width of the word: the 32 bits of the design included.             *)
THEOREM ArithmeticIsExact == Spec => []ArithmeticExact
BY AlwaysSwept, ExactOfSwept, PTL

\* At a word, stores are exact.
LEMMA LanesOfSwept == Swept => LanesExact
<1> SUFFICES ASSUME Swept, op \in Store PROVE LanesExact
  BY DEF LanesExact
<1>1. ASSUME NEW v \in W, NEW l \in Aligned(op)
      PROVE  LET new == dm_write(op, l, a, v)
                 part == v % Pow2[LaneBits * Size(op)]
             IN  /\ \A m \in Load : Size(m) = Size(op) =>
                      /\ dm_data_read(m, l, new) % Pow2[LaneBits * Size(op)] = part
                      /\ m \in {"LB", "LH"} =>
                           (Signed(dm_data_read(m, l, new)) < 0
                              <=> part >= Pow2[LaneBits * Size(op) - 1])
                 /\ \A k \in (0 .. 3) \ (l .. l + Size(op) - 1) :
                      dm_data_read("LBU", k, new) = dm_data_read("LBU", k, a)
  BY StoreExact DEF Swept
<1> QED BY <1>1 DEF LanesExact

(* A store changes the bytes it names and no others, and loads of its size   *)
(* read them back, at every width of the word.                              *)
THEOREM StoresReadBack == Spec => []LanesExact
BY AlwaysSwept, LanesOfSwept, PTL
=============================================================================
