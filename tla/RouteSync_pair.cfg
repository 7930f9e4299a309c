SPECIFICATION SettledFairSpec
CONSTANTS
  Peers = {1, 2}
  Links = {{1, 2}}
  MaxInfoVer = 2
  MaxConnVer = 5
  MaxFaults = 1
  MaxExpired = 0
  MaxSid = 4
  MaxCalls = 4
  Forced = {FALSE}
  Unrenewed = FALSE
  SupportsList = TRUE
INVARIANTS SkippedInfoIsHeld SavedIsHeld
PROPERTIES InfosConverge ListsConverge
CHECK_DEADLOCK FALSE
