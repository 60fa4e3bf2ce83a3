SPECIFICATION Spec
CONSTANTS
  Mod = 16
  Reg = {0, 1}
  DataWords = 2
  ResetPC = 0
  ExcVector = 8
  Programs <- MCPrograms
  AluResult <- MCAluResult
  AluOverflow <- MCAluOverflow
  MulDivResult <- MCMulDiv
  SignExt <- MCSignExt
  ZeroExt <- MCZeroExt
  LoadExt <- MCLoadExt
  StoreLanes <- MCStoreLanes
  ImOf <- MCImOf
  IpOf <- MCIpOf
  StatusWord <- MCStatusWord
  CauseWord <- MCCauseWord
INVARIANTS
  TypeOK
  LoadHeld
  NoLoadForwarded
PROPERTIES
  StallEnds
