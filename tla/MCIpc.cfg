SPECIFICATION MCSpec
CONSTANTS
    e1 = e1
    e2 = e2
    s1 = s1
    w1 = w1
    w2 = w2
    a1 = a1
    a2 = a2
    r1 = r1
    r2 = r2
    None = None
    Events <- MCEvents
    SequenceEvents <- MCSequenceEvents
    Waiters <- MCWaiters
    Wakers <- MCWakers
    WaitLists <- MCWaitLists
    MaxParks = 2
    MaxGeneration = 1
INVARIANTS
    NoMissedWake
    WaitsSound
    PipeStream
    PipeNotStranded
PROPERTIES
    WaitReturns
    PipeCallReturns
CHECK_DEADLOCK FALSE
