SPECIFICATION CmdSpec
CONSTANTS
  Letters = {"e", "h"}
  CMD_BUFF = 5
  V_NUM = 2
  cmd <- MCTable
INVARIANTS
  Remembers
  StaysDefined
PROPERTIES
  LineRuns
CHECK_DEADLOCK FALSE
