SPECIFICATION Spec
CONSTANTS
  Clients = {c1, c2, c3}
  Configs <- SafetyConfigs
SYMMETRY Symmetry
INVARIANTS
  TypeOK
  CounterExact
  MaxRespected
  TimerStoppedWhileConnected
  ForcedStopLeavesNoSlave
PROPERTIES
  KeepsDoor
CHECK_DEADLOCK FALSE
