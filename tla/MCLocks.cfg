SPECIFICATION MCSpec
CONSTANTS
    t1 = t1
    t2 = t2
    t3 = t3
    t4 = t4
    NoThread = NoThread
    Threads <- MCThreads
    Priority <- MCPriority
    Masked <- MCMasked
    Smp = TRUE
    MaxParks = 2
INVARIANTS
    TypesOK
    MutualExclusion
    NoLostWaiter
    BoostsBalance
PROPERTIES
    RefinesFifoLock
    QueuedThreadGetsLock
    RwImplementsSharedLock
    RwWriterGetsIn
    OnceCallEnds
