SPECIFICATION Spec
CONSTANTS
  t1 = t1
  t2 = t2
  Threads <- TwoThreads
  Programs <- Concurrent
  PubDepth = 1
  SubDepth = 1
  MaxEntries = 3
  MaxBlocks = 3
  MaxCopies = 3
CHECK_DEADLOCK FALSE
INVARIANT BlocksBacked
