SPECIFICATION FairSpec
CONSTANTS
  Clients = {c1, c2}
  Configs <- StopConfigs
PROPERTIES
  IdleServerStops
  CancelledServerStops
  GracefulServerStops
  OnceServerStops
CHECK_DEADLOCK FALSE
