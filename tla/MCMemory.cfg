SPECIFICATION MemorySpec
CONSTANTS
    t1 = t1
    t2 = t2
    Threads <- TwoThreads
    Programs <- Separate
    PubDepth = 2
    SubDepth = 2
    MaxEntries = 5
    MaxBlocks = 5
    MaxCopies = 3
    Publishers = {p1}
    Self = self
    Topics = {u1, u2}
    MaxPublishers = 2
    PoolSize = 9
    Sizes = {1, 3}
    Aligns = {1, 4}
    Handles = {1, 2}
    MaxCalls = 3
    Loaners = {w1, e1}
    Erased = {e1}
    LoanDepth = 1
    MaxLoans = 2
    MaxShares = 2
    LoanPrograms <- LoanUsers
PROPERTY
    TakenStaysValid
INVARIANTS
    ReadsMapped
    HeapIntact
    LoansSafe
CHECK_DEADLOCK FALSE
