SPECIFICATION Spec
CONSTANTS
    x1 = x1
    t1 = t1
    t2 = t2
    g1 = g1
    g2 = g2
    s1 = s1
    tm = tm
    NoSource = NoSource
    Execs = {x1}
    Threads = {t1, t2}
    Groups = {g1, g2}
    Subs = {s1}
    Timers = {tm}
    Fds = {1}
    ExecOf <- MCExecOf
    GroupOf <- MCGroupOf
    Exclusive = {g1}
    AutoAdd = {g1}
    Transient = {s1}
    Batch = 1
    MaxSends = 2
    Orderly = FALSE
INVARIANTS GroupsExclusive NoLostCallback
CHECK_DEADLOCK FALSE
SYMMETRY MCSymmetry
