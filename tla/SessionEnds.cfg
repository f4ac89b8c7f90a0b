SPECIFICATION FairSpec
CONSTANTS
  Configs <- Writable
  Control = {"ping"}
  PtyCap = 1
  MaxOut = 1
  NetCap = 1
  ClientCap = 1
  MaxIn = 2
  Sizes = {2}
  CheckPeriod = 1
  LostPing = 0
PROPERTIES
  SessionCleansUp
  OutputArrives
  KeepsSession
CHECK_DEADLOCK FALSE
