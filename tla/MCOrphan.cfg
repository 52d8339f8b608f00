SPECIFICATION MCSpec
CONSTANTS
    Pids = {1, 2, 3}
    Threads = {t1, t2, t3}
    Selectors = {AnyChild}
    Groups = {}
    None = None
    AnyChild = AnyChild
    Group = Group
    Sender = Sender
    Kill = Kill
    Stop = Stop
    Tstp = Tstp
    Cont = Cont
    Usr = Usr
    Chld = Chld
SYMMETRY Symmetric
INVARIANTS
    InitReaps
CHECK_DEADLOCK FALSE
