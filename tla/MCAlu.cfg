SPECIFICATION Spec
CONSTANTS
  Width = 8
  ShiftBits = 3
  Words = 256
INVARIANTS
  ArithmeticExact
  LanesExact
\* A sweep ends after the last operand.
CHECK_DEADLOCK FALSE
