CONSTANTS
  Threads = {t1, t2}
  W = 2
  Ahead = 1
  FailThreshold = 1
  MaxKey = 2
  MaxEpoch = 1
  MaxSeq = 2
  MaxSent = 3
  MaxSync = 1
  MaxTimeouts = 1
SPECIFICATION Spec
SYMMETRY ThreadSymmetry
INVARIANTS
  TypeOK
  AtMostOnce
  CachedKeyIsCurrent
  InWindowIsWelcome
CHECK_DEADLOCK FALSE
