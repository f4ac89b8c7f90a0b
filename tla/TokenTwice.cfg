SPECIFICATION Spec
CONSTANTS
  t1 = t1
  t2 = t2
  c1 = c1
  c2 = c2
  c3 = c3
  Tokens = {t1, t2}
  Conns = {c1, c2, c3}
  Presents <- Shared
  Settings <- MemSettings
  DefaultTtl = 3
  MaxAge = 4
INVARIANT
  OneTerminalPerToken
CHECK_DEADLOCK FALSE
