SPECIFICATION NodeSpec
CONSTANTS
    Names = {"p", "q"}
    Values <- MCValues
    Descriptors <- MCDescriptors
    Overrides <- MCOverrides
    Callbacks <- MCCallbacks
    Requests <- MCRequests
    Timers = {t1}
    RosTimers = {t1}
    Periods = {1, 2}
    LastTime = 3
    MaxNext = 6
    Executors = {e1}
    Deliveries = {d1, d2}
    MaxInstalls = 2
    Clients = {c1, c2}
    Servers = {s1, s2}
    Deferred = {s1}
    Depth = 1
    MaxRequests = 3
    MaxClients = 3
    N = 3
    QueueSize = 2
    MaxInterval = 2
    AgePenalty = 1
    LowerBound <- MCLowerBound
    MaxTime = 3
    MaxMessages = 3
    Inputs = 3
    TupleLimit = 2
    LastStamp = 4
    LibraryPaths <- MCLibraryPaths
    Provides = {"second"}
    kMaxPendingRequests = 2
    MaxCalls = 4
    MaxR2aCalls = 1
INVARIANTS
    TimersFire
    ShutdownDelivered
    CallsAnswered
    SetsOptimal
PROPERTIES
    ParametersLegal
CHECK_DEADLOCK FALSE
