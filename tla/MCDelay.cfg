SPECIFICATION Spec
CONSTANTS
  Mod = 64
  TimerPerClk = 2
  FirstRead = 4
  PollGaps = {8, 13}
  Pause = 8
  Limit = 20
INVARIANTS
  Handshake
PROPERTIES
  DelayLasts
  WritesWait
  DelayReturns
  OneRegister
