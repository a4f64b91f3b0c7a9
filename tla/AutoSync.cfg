CONSTANTS
  t1 = t1
  t2 = t2
  i1 = i1
  i2 = i2
  full = full
  r2 = r2
  s1 = s1
  x1 = x1
  c1 = c1
  c2 = c2
  None = None
  Tables = {t1, t2}
  Ids = {i1, i2}
  Keys = {full, r2, s1, x1}
  TableOf <- MCTableOf
  Full = {full}
  Misfits = {x1}
  Holds <- MCHolds
  Edits <- MCEdits
  Kinds <- MCKinds
  MinItems = {1, 2}
  BatchSize = 2
  MaxRetries = 2
  MaxEvents = 4
SPECIFICATION Spec
INVARIANTS Consistent
PROPERTIES SyncWrites Progress
CHECK_DEADLOCK FALSE
