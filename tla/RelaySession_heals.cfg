SPECIFICATION FairSpec
CONSTANTS
  Senders = {1}
  TaskIds = {1, 2}
  MaxAttempts = 2
  MaxPending = 1
  FailLimit = 2
  MaxQueue = 1
  MaxHs = 4
  MaxKeys = 6
  MaxFaults = 2
  MaxEvict = 1
INVARIANTS TypeOK PendingIsAwaited
PROPERTIES Heals
CHECK_DEADLOCK FALSE
