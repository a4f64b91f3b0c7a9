SPECIFICATION FairSpec
CONSTANTS
  c1 = c1
  c2 = c2
  c3 = c3
  t = t
  u = u
  v1 = v1
  v2 = v2
  v3 = v3
  Tables = {t, u}
  Vals = {v1, v2, v3}
  Clients = {c1, c2, c3}
  Adapters = {"normal", "strict", "other"}
  Scopes <- AllScopes
  NoTable = NoTable
  NoEntry = NoEntry
  Cipher = Cipher
INVARIANTS Consistent PoliciesHold ReadsHold KeysMatch
PROPERTIES EveryCallEnds
CHECK_DEADLOCK FALSE
