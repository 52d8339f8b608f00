------------------------------ MODULE MCLocks ------------------------------
(***************************************************************************)
(* The three locks of kernel/src/sys/sync.rs and sys/sync/rwlock.rs side   *)
(* by side.  They share no state, so a behaviour exercises one subject and *)
(* leaves the others in their initial state: the mutex with a thread whose *)
(* interrupts are masked, the mutex with all interrupts enabled, the       *)
(* reader/writer lock, and the one-time cell.                              *)
(***************************************************************************)
EXTENDS Mutex, TLC

CONSTANTS t1, t2, t3, t4

MCThreads == {t1, t2, t3, t4}
MCMasked == {t4}
MCPriority == t1 :> 200 @@ t2 :> 120 @@ t3 :> 56 @@ t4 :> 70

VARIABLES
    count, writerBit, gate, drained, rwSeen, rwPc,
    state, value, onceSeen, ran, oncePc,
    subject

Unmasked == INSTANCE Mutex WITH Masked <- {}, MaxParks <- 1
Rw == INSTANCE RwLock WITH
    Threads <- {t1, t2, t3}, None <- NoThread, seen <- rwSeen, pc <- rwPc
Cell == INSTANCE Once WITH
    Callers <- Threads, None <- NoThread, seen <- onceSeen, pc <- oncePc

Subjects == {"mutex", "unmasked", "rwlock", "once"}
rwVars == <<count, writerBit, gate, drained, rwSeen, rwPc>>
cellVars == <<state, value, onceSeen, ran, oncePc>>
allVars == <<vars, rwVars, cellVars, subject>>

MCInit == Init /\ Rw!Init /\ Cell!Init /\ subject \in Subjects

\* Every caller of the cell has returned or panicked, or goes round its spin loop.
CellDone == \A c \in Threads : oncePc[c] \in {"returned", "panicked", "spin"}

MCNext ==
    /\ subject' = subject
    /\ \/ subject = "mutex"    /\ Next          /\ UNCHANGED <<rwVars, cellVars>>
       \/ subject = "unmasked" /\ Unmasked!Next /\ UNCHANGED <<rwVars, cellVars>>
       \/ subject = "rwlock"   /\ Rw!Next       /\ UNCHANGED <<vars, cellVars>>
       \/ subject = "once"     /\ Cell!Next     /\ UNCHANGED <<vars, rwVars>>
       \/ subject = "once"     /\ CellDone      /\ UNCHANGED allVars

MCSpec ==
    /\ MCInit /\ [][MCNext]_allVars
    /\ \A t \in Threads :
         WF_vars(subject = "unmasked" /\ (Unmasked!Running(t) \/ Unmasked!ClearOwner(t)))
    /\ \A t \in {t1, t2, t3} :
         /\ WF_rwVars(subject = "rwlock" /\ Rw!Inside(t))
         /\ SF_rwVars(subject = "rwlock" /\ Rw!Gate(t))
    /\ \A t \in Threads : WF_cellVars(subject = "once" /\ Cell!Inside(t))

-----------------------------------------------------------------------------
(* Properties *)

\* The locks' state is well typed, no count of theirs leaves its range, and the
\* asserts of Mutex on its queue hold.
TypesOK == TypeOK /\ QueueAsserts /\ Rw!TypeOK /\ Cell!TypeOK

\* lock_slow: a thread that has queued itself is eventually granted the lock,
\* when no thread spins on the word with interrupts masked.  Here and below one
\* thread stands for all: none is treated differently.
QueuedThreadGetsLock == subject = "unmasked" => Unmasked!EventuallyHolds(t2)

\* RwLock::read, write and try_write keep readers and the writer apart: every
\* step is a step of the abstract reader/writer lock or invisible to it.
RwImplementsSharedLock == Rw!ImplementsSharedLock

\* RwLock::write returns, however many readers keep coming.
RwWriterGetsIn == subject = "rwlock" => Rw!GetsIn(t2)

\* call_once: every caller returns the value of the only initializer that ever
\* ran, or panics; nobody spins on a cell whose initializer panicked and ran
\* OnceInitGuard::drop (this kernel's panic handler halts instead of unwinding).
OnceCallEnds == subject = "once" => Cell!Ends(t2)
=============================================================================
