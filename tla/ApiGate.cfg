CONSTANTS
  c1 = c1
  c2 = c2
  Overflow = Overflow
  None = None
  Clients = {c1, c2}
  MaxTracked = 2
  Idle = 6
  Configs <- MCConfigs
  Operations = {"count", "deleteTable", "one", "write"}
  Records = {2}
  MaxTime = 7
SPECIFICATION GateSpec
INVARIANTS GateConsistent RateIsKept
