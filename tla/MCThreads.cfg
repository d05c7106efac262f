SPECIFICATION ThreadsSpec
CONSTANTS
    Groups = {g1, g2}
    Automatic = {g1}
    Nodes = {1, 2}
    NodesGroups <- MCGroups
    MaxExecs = 6
INVARIANTS NothingLeftBehind OneExecutorPerGroup
PROPERTIES StopReturns LateGroupsServed
CHECK_DEADLOCK FALSE
