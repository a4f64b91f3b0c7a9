CONSTANTS
  c1 = c1
  c2 = c2
  c3 = c3
  t1 = t1
  t2 = t2
  Clients <- MCClients
  Owner <- MCOwner
  Tables <- MCTables
  Existing <- OneTable
  Vals <- MCVals
  Scopes <- AllScopes
  NoTable = NoTable
SPECIFICATION Spec
INVARIANTS Consistent CommitIsAllOrNothing Separated
PROPERTIES EveryCallEnds
CHECK_DEADLOCK FALSE
