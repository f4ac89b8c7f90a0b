SPECIFICATION ClockSpec
CONSTANTS
  Configs <- Writable
  Control = {"ping"}
  PtyCap = 1
  MaxOut = 0
  NetCap = 1
  ClientCap = 2
  MaxIn = 2
  Sizes = {2}
  CheckPeriod = 1
  LostPing = 2
PROPERTIES
  PingsKeepAlive
CHECK_DEADLOCK FALSE
