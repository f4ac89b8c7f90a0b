SPECIFICATION Spec
CONSTANTS
  Configs <- WritableOrNot
  Control = {"ping", "resize", "binary", "empty", "malformed"}
  PtyCap = 1
  MaxOut = 2
  NetCap = 2
  ClientCap = 1
  MaxIn = 2
  Sizes = {2}
  CheckPeriod = 1
  LostPing = 1
INVARIANTS
  TypeOK
  OneWriter
  EndIsReal
  SilenceBounded
PROPERTIES
  KeepsOrder
CHECK_DEADLOCK FALSE
