SPECIFICATION Spec
CONSTANTS
    t1 = t1
    t2 = t2
    t3 = t3
    t4 = t4
    NoThread = NoThread
    Threads <- MCThreads
    Priority <- MCPriority
    Masked = {}
    Smp = TRUE
    MaxParks = 1
INVARIANT SleeperLends
