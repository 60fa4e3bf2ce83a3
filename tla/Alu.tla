-------------------------------- MODULE Alu --------------------------------
(***************************************************************************)
(* The arithmetic the pipeline routes: alu.v, multiply.v, signext.v and    *)
(* the byte lanes of datapath.v, on words of Width bits.  The design has   *)
(* Width = 32; every field keeps its proportion to the word: the immediate  *)
(* is half a word, a byte a quarter, and a shift amount has ShiftBits bits  *)
(* (2^ShiftBits = Width).  Words = 2^Width is given, not computed, for TLC. *)
(***************************************************************************)
EXTENDS MipsDefs, Integers

CONSTANTS
  Width,       \* bits of a word
  ShiftBits,   \* bits of a shift amount
  Words        \* how many words there are

Pow2[k \in Nat] == IF k = 0 THEN 1 ELSE 2 * Pow2[k - 1]

ASSUME AluAssumption == /\ ShiftBits \in Nat /\ ShiftBits >= 2
                        /\ Width = Pow2[ShiftBits]
                        /\ Words = Pow2[Width]

Complement(x) == Words - 1 - x
Signed(x) == IF x >= Words \div 2 THEN x - Words ELSE x

\* x >> s and x << s of a Width-bit register.
ShiftRight(x, s) == x \div Pow2[s]
ShiftLeft(x, s) == (x * Pow2[s]) % Words

ShiftArith_Bug(x, s) == ShiftRight(x, s)  \* zeros shifted in
\* alu.v: an arithmetic shift of a negative word shifts its complement.
ShiftArith(x, s) == IF x < Words \div 2 THEN ShiftRight(x, s)
                    ELSE Complement(ShiftRight(Complement(x), s))

\* A word as the set of its bits that are 1, and the word with ones at S.
Ones(x) == {i \in 0 .. Width - 1 : (x \div Pow2[i]) % 2 = 1}
FromOnes(S) ==
  LET sum[k \in Nat] == IF k = 0 THEN 0
                        ELSE sum[k - 1] + (IF k - 1 \in S THEN Pow2[k - 1] ELSE 0)
  IN  sum[Width]
And(a, b) == FromOnes(Ones(a) \cap Ones(b))
Or(a, b) == FromOnes(Ones(a) \cup Ones(b))
Xor(a, b) == FromOnes((Ones(a) \cup Ones(b)) \ (Ones(a) \cap Ones(b)))

alu_result(n, a, b) ==
  LET s == a % Pow2[ShiftBits]
  IN  CASE n \in {"SUB", "SUBU"} -> (a - b) % Words
        [] n \in {"AND", "ANDI"} -> And(a, b)
        [] n \in {"OR", "ORI"}   -> Or(a, b)
        [] n = "NOR"             -> Complement(Or(a, b))
        [] n \in {"XOR", "XORI"} -> Xor(a, b)
        [] n \in {"SLL", "SLLV"} -> ShiftLeft(b, s)
        [] n \in {"SRA", "SRAV"} -> ShiftArith(b, s)
        [] n \in {"SRL", "SRLV"} -> ShiftRight(b, s)
        [] n \in {"SLT", "SLTI"} -> IF Signed(a) < Signed(b) THEN 1 ELSE 0
        [] n \in {"SLTU", "SLTIU"} -> IF a < b THEN 1 ELSE 0
        [] n = "LUI"             -> ShiftLeft(b, Width \div 2)
        [] OTHER                 -> (a + b) % Words

\* test_result: one bit more, both operands sign-extended into it; the sum
\* overflows when its two top bits differ.
Widened(x) == IF x >= Words \div 2 THEN x + Words ELSE x
TestResult(n, a, b) ==
  (IF n = "SUB" THEN Widened(a) - Widened(b) ELSE Widened(a) + Widened(b))
    % (2 * Words)
\* Overflow read off the carry of the unextended sum.
alu_overflow_Bug(n, a, b) == a + b >= Words
alu_overflow(n, a, b) ==
  LET t == TestResult(n, a, b)
  IN  t \div Words # (t \div (Words \div 2)) % 2

\* multiply.v: HI:LO is the double-word product, or the remainder and the
\* quotient, truncated towards zero.  Division by zero yields x in the
\* design; no program of the runs divides by zero.
Halves(p) == [hi |-> (p % (Words * Words)) \div Words, lo |-> p % Words]
Magnitude(x) == IF x < 0 THEN -x ELSE x
Quotient(a, b) ==
  IF b = 0 THEN 0
  ELSE LET q == Magnitude(a) \div Magnitude(b)
       IN  IF (a < 0) # (b < 0) THEN -q ELSE q
Divided(a, b) == [hi |-> (a - Quotient(a, b) * b) % Words,
                  lo |-> Quotient(a, b) % Words]
\* A signed division of the unsigned words.
multiply_Bug(n, a, b) ==
  CASE n = "MULTU" -> Halves(a * b)
    [] n = "MULT"  -> Halves(Signed(a) * Signed(b))
    [] n \in {"DIV", "DIVU"} -> Divided(a, b)
multiply(n, a, b) ==
  CASE n = "MULTU" -> Halves(a * b)
    [] n = "MULT"  -> Halves(Signed(a) * Signed(b))
    [] n = "DIVU"  -> Divided(a, b)
    [] n = "DIV"   -> Divided(Signed(a), Signed(b))

\* signext.v on the half-word field.
HalfWords == Pow2[Width \div 2]
unsignedext(v) == v % HalfWords
signedext(v) == LET h == v % HalfWords
              IN  IF h >= HalfWords \div 2 THEN h + Words - HalfWords ELSE h

-----------------------------------------------------------------------------
(* The byte lanes between the pipeline and data_ram.                       *)

LaneBits == Width \div 4
\* The field of k bits of w that starts at byte lane l.
Field(w, l, k) == ShiftRight(w, LaneBits * l) % Pow2[k]

\* The lanes an access selects: half words look at address bits [1:0] as a
\* whole, so every non-zero lane means the upper half.
FirstLane(n, lane) == IF Size(n) = 4 THEN 0
                      ELSE IF Size(n) = 2 THEN IF lane = 0 THEN 0 ELSE 2
                      ELSE lane
Bits(n) == LaneBits * Size(n)

dm_data_read(n, lane, w) ==
  LET v == Field(w, FirstLane(n, lane), Bits(n))
      extend == n \in {"LB", "LH"} /\ v >= Pow2[Bits(n) - 1]
  IN  IF extend THEN v + Words - Pow2[Bits(n)] ELSE v

\* The whole datum replaces the word.
dm_write_Bug(n, lane, old, v) == ShiftLeft(v, LaneBits * lane)
\* Replace the selected lanes of the old word, keep the others.
dm_write(n, lane, old, v) ==
  LET l == LaneBits * FirstLane(n, lane)
  IN  old + Pow2[l] * ((v % Pow2[Bits(n)])
                     - Field(old, FirstLane(n, lane), Bits(n)))
=============================================================================
