SPECIFICATION ReclaimSpec
CONSTANTS
  Domains <- OneDomain
  MaxApps = 2
  MaxPid = 4
  MempoolNum = 4
  QueueSize = 8
  Daemons <- UnlinkOnly
  Subscribing = TRUE
  DaemonsKilled = FALSE
  Procs = {p1}
  MaxLoads = 0
CHECK_DEADLOCK FALSE
INVARIANT UnlinkingCovered
PROPERTIES Reclaimed
