SPECIFICATION MCSpec
CONSTANTS
    c1 = c1
    c2 = c2
    t1 = t1
    t2 = t2
    w1 = w1
    Cpus <- MCCpus
    Threads <- MCThreads
    Wakers = {w1}
    BootCpu = c1
    Idle = Idle
    None = None
    BasePriority <- MCMixed
    Lent = 4
    Boostable = {}
    NonPreemptible = {}
    NoMigrate = {}
    NoLoad = {}
    Maintainer = None
    MaxParks = 1
INVARIANT
    IdleCpuIsKicked
