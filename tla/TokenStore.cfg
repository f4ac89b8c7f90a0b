SPECIFICATION Spec
CONSTANTS
  t1 = t1
  t2 = t2
  c1 = c1
  c2 = c2
  c3 = c3
  Tokens = {t1, t2}
  Conns = {c1, c2, c3}
  Presents <- Shared
  Settings <- AllSettings
  DefaultTtl = 3
  MaxAge = 4
INVARIANTS
  TypeOK
PROPERTIES
  SecondComesBetween
  NoUseAfterExpiry
  InvalidHasReason
  KeepsPromise
CHECK_DEADLOCK FALSE
