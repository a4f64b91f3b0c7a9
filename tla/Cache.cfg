CONSTANTS
  k1 = k1
  k2 = k2
  k3 = k3
  small = small
  big = big
  c1 = c1
  c2 = c2
  c3 = c3
  Null = Null
  Undefined = Undefined
  None = None
  Default = small
  CacheKeys = {k1, k2, k3}
  Configs <- MCConfigs
  Size <- MCSize
  CallKind <- MCCallKind
  TTLs = {0, 1}
  MinHeap = 4
  HeapFactor = 1
  MaxClock = 1
  MaxCount = 2
SPECIFICATION CacheSpec
INVARIANTS CacheConsistent SingleFlight
PROPERTIES EveryCacheCallEnds
CHECK_DEADLOCK FALSE
