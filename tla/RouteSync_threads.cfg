SPECIFICATION MetSpec
CONSTANTS
  Peers = {1, 2}
  Links = {{1, 2}}
  MaxInfoVer = 1
  MaxConnVer = 4
  MaxFaults = 1
  MaxExpired = 1
  MaxSid = 2
  MaxCalls = 1
  Forced = {FALSE}
  Unrenewed = TRUE
  SupportsList = FALSE
INVARIANTS TypeOK VersionsFromOwner ListNotOlderThanVersion
CHECK_DEADLOCK FALSE
