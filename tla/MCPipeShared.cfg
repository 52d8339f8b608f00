SPECIFICATION FairSpec
CONSTANTS
    Readers = {r1, r2}
    Writers = {w1}
    Capacity = 2
    AtomicLimit = 1
    MaxLength = 1
    MaxBytes = 2
PROPERTIES
    ReadReturns
CHECK_DEADLOCK FALSE
