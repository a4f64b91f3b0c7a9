SPECIFICATION Spec
CONSTANTS
  r1 = r1
  r2 = r2
  Scopes <- WideScopes
  Texts <- Some
  Patterns <- SomePatterns
  IndexedField = "v"
  MaxAttempts = 3
  MaxFilterDepth = 2
  CountingThreshold = 2
  MergeThreshold = 2
  DomainShare = 1
INVARIANTS Consistent ReadIsSnapshot
PROPERTIES WritesMatchReference EveryReadEnds
CHECK_DEADLOCK FALSE
