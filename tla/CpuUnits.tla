------------------------------ MODULE CpuUnits ------------------------------
(***************************************************************************)
(* What the units the pipeline of Cpu routes between promise about their   *)
(* outputs: a word in, a word out.  The proofs about the pipeline take it   *)
(* from here, MCAny has TLC evaluate it at 4 bits, and AluProofs proves it   *)
(* of alu.v, multiply.v, signext.v and the byte lanes at every width.       *)
(***************************************************************************)
EXTENDS Cpu

ASSUME UnitAssumption ==
  /\ \A n \in AluOps, a, b \in Word :
       /\ AluResult(n, a, b) \in Word
       /\ AluOverflow(n, a, b) \in BOOLEAN
  /\ \A n \in MulDiv, a, b \in Word :
       MulDivResult(n, a, b) \in [hi : Word, lo : Word]
  /\ \A v \in Word : SignExt(v) \in Word /\ ZeroExt(v) \in Word
  /\ \A n \in Load, l \in 0 .. 3, w \in Word : LoadExt(n, l, w) \in Word
  /\ \A n \in Store, l \in 0 .. 3, w, v \in Word :
       StoreLanes(n, l, w, v) \in Word
  /\ \A i \in ImField, x \in BOOLEAN : StatusWord(i, x) \in Word
  /\ \A x \in BOOLEAN, c \in 0 .. 31, i \in IpField :
       CauseWord(x, c, i) \in Word
=============================================================================
