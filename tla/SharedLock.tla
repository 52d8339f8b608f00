------------------------------ MODULE SharedLock ------------------------------
(* What a reader/writer lock promises: many readers or one writer. *)
CONSTANTS Threads, None

VARIABLES readers, writer

vars == <<readers, writer>>

Init == readers = {} /\ writer = None

Enter(t) ==
    /\ writer = None
    /\ readers' = readers \cup {t}
    /\ UNCHANGED writer

Leave(t) ==
    /\ t \in readers
    /\ readers' = readers \ {t}
    /\ UNCHANGED writer

Seize(t) ==
    /\ readers = {} /\ writer = None
    /\ writer' = t
    /\ UNCHANGED readers

Release(t) ==
    /\ writer = t
    /\ writer' = None
    /\ UNCHANGED readers

Next == \E t \in Threads : Enter(t) \/ Leave(t) \/ Seize(t) \/ Release(t)

Spec == Init /\ [][Next]_vars
=============================================================================
