SPECIFICATION Spec
CONSTANTS
  Senders = {1, 2}
  TaskIds = {1}
  MaxAttempts = 2
  MaxPending = 1
  FailLimit = 2
  MaxQueue = 1
  MaxHs = 4
  MaxKeys = 6
  MaxFaults = 0
  MaxEvict = 0
INVARIANTS KeysAgree
CHECK_DEADLOCK FALSE
