SPECIFICATION Spec
CONSTANTS
  Clients = {c1, c2}
  Configs <- PlainConfigs
INVARIANT
  ServerClosedIsNoFailure
CHECK_DEADLOCK FALSE
