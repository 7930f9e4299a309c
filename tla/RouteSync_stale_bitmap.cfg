SPECIFICATION Spec
CONSTANTS
  Peers = {1, 2}
  Links = {{1, 2}}
  MaxInfoVer = 1
  MaxConnVer = 3
  MaxFaults = 1
  MaxExpired = 0
  MaxSid = 4
  MaxCalls = 4
  Forced = {FALSE}
  Unrenewed = FALSE
  SupportsList = TRUE
INVARIANT SkippedListIsHeld
CHECK_DEADLOCK FALSE
