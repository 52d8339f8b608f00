SPECIFICATION MCSpec
CONSTANTS
    CpuCount = 2
    Cpus = {1, 2}
    A = A
    B = B
    Roots <- MCRoots
    Kernel = Kernel
    None = None
    Global = Global
INVARIANTS
    TypesOK
    RunsOnOwnRoot
    NoWalkOfFreedRoot
    NoStaleTranslation
PROPERTIES
    RetirementReturns
    MaskedCommitReturns
