SPECIFICATION Spec
CONSTANTS
  Clients = {c1, c2}
  Configs <- PlainConfigs
INVARIANT
  DrainLeavesNoSession
CHECK_DEADLOCK FALSE
