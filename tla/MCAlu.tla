------------------------------- MODULE MCAlu -------------------------------
(***************************************************************************)
(* The arithmetic of Alu.tla against what the instructions mean as         *)
(* integers.  A behaviour sweeps the first operand of one operation; each  *)
(* state checks it against every second operand.                           *)
(***************************************************************************)
EXTENDS Alu

VARIABLES op,   \* the operation
          a     \* its first operand, or the word a store meets in memory

W == 0 .. Words - 1
Aligned(n) == {l \in 0 .. 3 : l % Size(n) = 0}

Init == op \in AluReg \cup MulDiv \cup Store /\ a = 0
Sweep == a < Words - 1 /\ a' = a + 1 /\ UNCHANGED op
Spec == Init /\ [][Sweep]_<<op, a>>

-----------------------------------------------------------------------------
Exact(n, x, y) == IF n = "SUB" THEN Signed(x) - Signed(y)
                  ELSE Signed(x) + Signed(y)

(* alu.v signals overflow exactly when the signed sum or difference does    *)
(* not fit the word, and otherwise its result is that integer: the 33-bit   *)
(* test_result is right at both ends of the range.                         *)
OverflowExact ==
  op \in AddSub => \A b \in W :
    LET e == Exact(op, a, b)
    IN  IF alu_overflow(op, a, b)
        THEN e \notin -(Words \div 2) .. Words \div 2 - 1
        ELSE Signed(alu_result(op, a, b)) = e

(* Shifting right divides and rounds down, arithmetically the signed value, *)
(* logically the unsigned one, for every amount the amount field can hold.  *)
ShiftExact ==
  /\ op \in {"SRA", "SRAV"} => \A b \in W :
       LET s == a % Width
       IN  Signed(alu_result(op, a, b)) = Signed(b) \div Pow2[s]
  /\ op \in {"SRL", "SRLV"} => \A b \in W :
       alu_result(op, a, b) = b \div Pow2[a % Width]

(* HI:LO is the whole product.  A quotient and its remainder give back the  *)
(* dividend, and the remainder is smaller than the divisor and has the sign *)
(* of the dividend.                                                        *)
MulDivExact ==
  op \in MulDiv => \A b \in W :
    LET r == multiply(op, a, b)
        sgn == op \in {"MULT", "DIV"}
        Val(x) == IF sgn THEN Signed(x) ELSE x
    IN  IF op \in {"MULT", "MULTU"}
        THEN Val(r.hi) * Words + r.lo = Val(a) * Val(b)
        ELSE b # 0 =>
             /\ (Val(r.lo) * Val(b) + Val(r.hi) - Val(a)) % Words = 0
             /\ Magnitude(Val(r.hi)) < Magnitude(Val(b))
             /\ Val(r.hi) # 0 => (Val(r.hi) < 0 <=> Val(a) < 0)

(* Arithmetic is exact as above, at both ends of the range and for every     *)
(* shift amount.                                                            *)
ArithmeticExact == OverflowExact /\ ShiftExact /\ MulDivExact

(* What a store leaves in the RAM word: the bytes it names read back as     *)
(* stored, by signed and by unsigned loads, and all others as they were.    *)
LanesExact ==
  op \in Store => \A v \in W, l \in Aligned(op) :
    LET new == dm_write(op, l, a, v)
        part == v % Pow2[LaneBits * Size(op)]
        whole == {n \in Load : Size(n) = Size(op)}
    IN  /\ \A n \in whole :
             /\ dm_data_read(n, l, new) % Pow2[LaneBits * Size(op)] = part
             /\ n \in {"LB", "LH"} =>
                  (Signed(dm_data_read(n, l, new)) < 0
                     <=> part >= Pow2[LaneBits * Size(op) - 1])
        /\ \A k \in (0 .. 3) \ (l .. l + Size(op) - 1) :
             dm_data_read("LBU", k, new) = dm_data_read("LBU", k, a)
=============================================================================
