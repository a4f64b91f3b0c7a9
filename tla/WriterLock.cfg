CONSTANTS
  k1 = k1
  k2 = k2
  w1 = w1
  w2 = w2
  Keys <- MCKeys
  Writers <- MCWriters
  MaxTickets = 4
  MaxConcurrent = 1
SPECIFICATION SlotFairSpec
INVARIANTS Consistent NoBypass
PROPERTIES EveryCallEnds
CHECK_DEADLOCK FALSE
