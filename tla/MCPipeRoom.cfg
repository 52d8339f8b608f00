SPECIFICATION Spec
CONSTANTS
    Readers = {r1}
    Writers = {w1, w2}
    Capacity = 2
    AtomicLimit = 2
    MaxLength = 2
    MaxBytes = 6
INVARIANTS
    NoSleepBesideRoom
CHECK_DEADLOCK FALSE
