SPECIFICATION SiteSpec
CONSTANTS
  Inputs <- SiteInputs
  Windows = {w1, w2}
  Words <- SiteWords
  CustomPaths <- SiteCustomPaths
  Typed <- SiteTyped
  MaxTokens = 2
  Limits <- SiteLimits
  MaxOthers = 1
INVARIANTS
  SiteTypeOK
  OptionsAsGiven
  ServesAsChecked
  FailureShows
  TerminalIsComplete
  TokenArrives
CHECK_DEADLOCK FALSE
