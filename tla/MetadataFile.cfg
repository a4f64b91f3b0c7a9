CONSTANTS
  c1 = c1
  c2 = c2
  c3 = c3
  t1 = t1
  m1 = m1
  m2 = m2
  Tables = {"x"}
  Calls = {c1, c2, c3}
  Timers = {t1}
  Managers = {m1, m2}
  ManagerOf <- MCManagerOf
  Does <- MCDoes
  None = None
  Absent = Absent
  Torn = Torn
  Overtaking = FALSE
  MaxClock = 3
  MaxFaults = 1
  MaxCrashes = 1
SPECIFICATION Spec
INVARIANTS Consistent
PROPERTIES NothingLost SavedIsDurable EveryCallEnds
CHECK_DEADLOCK FALSE
