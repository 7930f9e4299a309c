CONSTANTS
  Peers = {a, b}
  MaxTid = 1
  MaxCalls = 2
  MinPieces = 1
  MaxPieces = 2
  MaxDuplicates = 1
SPECIFICATION Spec
INVARIANTS
  TypeOK
  LoopSurvives
  WholeCopyPerRun
  NothingReceivedIsLost
PROPERTIES
  Implements
  TablesDrain
CHECK_DEADLOCK FALSE
