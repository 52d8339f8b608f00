------------------------------ MODULE FifoLock ------------------------------
(***************************************************************************)
(* What sys::sync::Mutex promises its callers: at most one holder,         *)
(* callers that find it held wait in a queue, a release with waiters hands *)
(* the lock directly to the front of the queue, and the lock may be taken  *)
(* without queueing only while it is free and nobody waits.                *)
(***************************************************************************)
EXTENDS Sequences

CONSTANTS Threads, NoThread

VARIABLES holder,   \* the thread that may touch the protected value
          line      \* the threads waiting for it, front first

vars == <<holder, line>>

Init == holder = NoThread /\ line = <<>>

Waiting(t) == \E i \in DOMAIN line : line[i] = t

\* An uncontended acquisition: nobody holds the lock, nobody is overtaken.
Take(t) ==
    /\ holder = NoThread
    /\ line = <<>>
    /\ holder' = t
    /\ UNCHANGED line

\* A contended caller joins the back of the line.
Join(t) ==
    /\ holder \notin {NoThread, t}
    /\ ~Waiting(t)
    /\ line' = Append(line, t)
    /\ UNCHANGED holder

\* A release that finds no waiter frees the lock.
Free(t) ==
    /\ holder = t
    /\ line = <<>>
    /\ holder' = NoThread
    /\ UNCHANGED line

\* A release that finds waiters hands the lock to the first of them.
Pass(t) ==
    /\ holder = t
    /\ line # <<>>
    /\ holder' = Head(line)
    /\ line' = Tail(line)

Next == \E t \in Threads : Take(t) \/ Join(t) \/ Free(t) \/ Pass(t)

Spec == Init /\ [][Next]_vars
=============================================================================
