SPECIFICATION FairSpec
CONSTANTS
  a = a
  b = b
  c1 = c1
  Urls = {a, b}
  Initial = {a}
  Addable = {b}
  Callers = {c1}
  MaxCalls = 2
  MaxAdds = 1
  MaxDrops = 1
  MaxEvents = 3
INVARIANTS TypeOK WantedIsKept OnePlace
PROPERTY StaysConnected
CHECK_DEADLOCK FALSE
