CONSTANTS
  c1 = c1
  c2 = c2
  c3 = c3
  u = u
  Conns = {c1, c2, c3}
  Urls = {u}
  Url <- MCUrl
  MaxCloses = 1
SPECIFICATION Spec
INVARIANTS
  TypeOK
  NoneIsLeaked
  OpenUrlIsAlive
PROPERTIES
  ClosedIsForgotten
CHECK_DEADLOCK FALSE
