SPECIFICATION Spec
CONSTANTS
  a = a
  b = b
  c1 = c1
  Urls = {a, b}
  Initial = {a}
  Addable = {a}
  Callers = {c1}
  MaxCalls = 0
  MaxAdds = 1
  MaxDrops = 0
  MaxEvents = 1
INVARIANT RoutineNeverPanics
CHECK_DEADLOCK FALSE
