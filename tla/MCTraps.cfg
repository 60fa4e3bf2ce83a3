SPECIFICATION TbSpec
CONSTANTS
  Mod = 256
  Reg = {0, 1, 2, 3, 4, 16, 31}
  DataWords = 4
  ResetPC = 0
  ExcVector = 64
  BodyLength = 4
  GoldenSteps = 40
  Suites = {"traps", "return", "softint"}
  Programs <- MCPrograms
  AluResult <- MCAluResult
  AluOverflow <- MCAluOverflow
  MulDivResult <- MCMulDiv
  SignExt <- MCSignExt
  ZeroExt <- MCZeroExt
  LoadExt <- MCLoadExt
  StoreLanes <- MCStoreLanes
  ImOf <- MCImOf
  IpOf <- MCIpOf
  StatusWord <- MCStatusWord
  CauseWord <- MCCauseWord
INVARIANTS
  TraceMatches
  FinalStateMatches
PROPERTIES
  Terminates
