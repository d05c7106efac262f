SPECIFICATION PoolsSpec
CONSTANTS
  Domains <- OneDomain
  MaxApps = 2
  MaxPid = 6
  MempoolNum = 6
  QueueSize = 8
  Daemons <- BridgeAndAgent
  Subscribing = FALSE
  DaemonsKilled = FALSE
  Procs = {p1, p2}
  MaxLoads = 2
CHECK_DEADLOCK FALSE
INVARIANTS OneAddressOneMemory QueueNeverOverflows NoneUnattended
