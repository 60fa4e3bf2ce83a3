SPECIFICATION Spec
CONSTANTS
  HalfWord = 16
  SIZE = 2
  Texts <- MCTexts
  NoText = NoText
  Newline = 10
  MaxRead = 2
  Bits = {0, 1}
  Top = 1
  IE = 0
  Caller = {a, b, c}
  MaxText <- MCMaxText
  Alphabet <- MCAlphabet
INVARIANTS
  Strings
  Numeric
  Formats
  InOrder
  ReadsBack
  Images
\* A sweep ends with its last input.
CHECK_DEADLOCK FALSE
