SPECIFICATION BridgeSpec
CONSTANTS
  n1 = n1
  n2 = n2
  None = None
  Namespaces = {n1, n2}
  Kinds = {"topic", "service"}
  MaxId = 2
  MaxChurn = 1
  ForceTTL = 2
  StaleAfter = 2
  Settle = 5
  Senders = {s1, s2, s3}
  Malformed = {s3}
  Capacity = 1
  MaxRetries = 0
SYMMETRY Symmetry
INVARIANTS BridgesConnect NoLeftOvers CountsSettle ShutdownReachesAll EnqueuedInOrder
CHECK_DEADLOCK FALSE
