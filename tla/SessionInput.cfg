SPECIFICATION Spec
CONSTANTS
  Configs <- Writable
  Control = {"ping"}
  PtyCap = 1
  MaxOut = 1
  NetCap = 1
  ClientCap = 1
  MaxIn = 4
  Sizes = {2}
  CheckPeriod = 1
  LostPing = 1
PROPERTIES
  InputUnbroken
CHECK_DEADLOCK FALSE
