CONSTANTS
  c1 = c1
  c2 = c2
  c3 = c3
  c4 = c4
  t1 = t1
  t2 = t2
  Calls <- MCCalls
  Tables <- MCTables
  Scopes <- AllScopes
  NoTable = NoTable
SPECIFICATION Spec
INVARIANTS Consistent
PROPERTIES CallsAreAtomic EveryCallEnds
CHECK_DEADLOCK FALSE
