CONSTANTS
  a = a
  b = b
  c = c
  Tasks = {a, b, c}
  Attributes <- MCAttributes
  MaxConcurrent = 1
  MaxClock = 1
  MaxStops = 2
SPECIFICATION Spec
INVARIANTS Consistent
PROPERTIES EveryTaskEnds
CHECK_DEADLOCK FALSE
