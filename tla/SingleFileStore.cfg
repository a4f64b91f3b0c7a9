CONSTANTS
  c0 = c0
  c1 = c1
  c2 = c2
  Content <- MCContent
  CountOf <- MCCountOf
  Empty = c0
  Absent = Absent
  Torn = Torn
  NoTable = NoTable
  Scopes <- AllScopes
SPECIFICATION Spec
INVARIANTS Consistent ViewAcked ReadReturnsView
PROPERTIES ImplementsAtomicTable
CHECK_DEADLOCK FALSE
