SPECIFICATION SysFairSpec
CONSTANTS
  Widgets = {"xterm", "hterm"}
  Sizes = {1, 2}
  MaxConns = 3
  Settings <- SystemSettings
  DefaultTtl = 1
  MaxAge = 1
  Options <- SystemOptions
  MaxInFlight = 2
INVARIANTS
  SysTypeOK
  SendersFollowSocket
  OneConnection
  FirstConnectionOnly
  WindowReachesCommand
PROPERTIES
  ComesBack
CHECK_DEADLOCK FALSE
