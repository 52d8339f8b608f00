------------------------------- MODULE RwLock -------------------------------
(***************************************************************************)
(* The sleeping reader/writer lock of kernel/src/sys/sync/rwlock.rs: an    *)
(* atomic word (reader count and WRITER bit), a mutex that writers hold    *)
(* and late readers pass through, and an event for the last reader.  Each  *)
(* access to the word, and each mutex or event operation, is one step.     *)
(*                                                                         *)
(* The mutex is the lock of FifoLock, without the order of its queue; the  *)
(* fairness of that queue appears as strong fairness of PassGate.          *)
(***************************************************************************)
EXTENDS LevelEvent, Integers, FiniteSets

CONSTANTS Threads, None

VARIABLES
    count, writerBit,   \* RwLock::state
    gate,               \* the owner of RwLock::writer
    drained,            \* RwLock::drained
    seen,               \* the word a reader last loaded
    pc

word == <<count, writerBit>>
vars == <<word, gate, drained, seen, pc>>

Labels == {"idle", "load", "check", "gate", "pass", "reading", "notify",
           "wgate", "reset", "publish", "drain", "wait", "sleep", "tryword", "writing",
           "release"}

TypeOK ==
    /\ count \in Nat
    /\ writerBit \in BOOLEAN
    /\ gate \in Threads \cup {None}
    /\ drained \in EventOf(Threads)
    /\ seen \in [Threads -> [count : Nat, writerBit : BOOLEAN]]
    /\ pc \in [Threads -> Labels]

Init ==
    /\ count = 0 /\ writerBit = FALSE
    /\ gate = None
    /\ drained = NewEvent
    /\ seen = [t \in Threads |-> [count |-> 0, writerBit |-> FALSE]]
    /\ pc = [t \in Threads |-> "idle"]

Goto(t, label) == pc' = [pc EXCEPT ![t] = label]
Snapshot(t) == seen' = [seen EXCEPT ![t] = [count |-> count, writerBit |-> writerBit]]

-----------------------------------------------------------------------------
(* read *)

Read(t) ==
    /\ pc[t] = "idle"
    /\ Goto(t, "load")
    /\ UNCHANGED <<word, gate, drained, seen>>

Load(t) ==
    /\ pc[t] = "load"
    /\ Snapshot(t)
    /\ Goto(t, "check")
    /\ UNCHANGED <<word, gate, drained>>

\* The loaded word had WRITER set: queue on the writer mutex.
ReadBlocked(t) ==
    /\ pc[t] = "check"
    /\ seen[t].writerBit
    /\ Goto(t, "gate")
    /\ UNCHANGED <<word, gate, drained, seen>>

PassGate(t) ==
    /\ pc[t] = "gate"
    /\ gate = None
    /\ gate' = t
    /\ Goto(t, "pass")
    /\ UNCHANGED <<word, drained, seen>>

\* Drop the mutex at once and look again.
LeaveGate(t) ==
    /\ pc[t] = "pass"
    /\ gate' = None
    /\ Goto(t, "load")
    /\ UNCHANGED <<word, drained, seen>>

\* Mutants: a reader may join others under a waiting writer; the loaded count is
\* stored back without an atomic operation.
ReadAcquireJoining(t) ==
    /\ pc[t] = "check" /\ (~seen[t].writerBit \/ seen[t].count > 0)
    /\ count = seen[t].count /\ writerBit = seen[t].writerBit
    /\ count' = count + 1
    /\ Goto(t, "reading")
    /\ UNCHANGED <<writerBit, gate, drained, seen>>

\* compare_exchange_weak succeeds.
ReadAcquire(t) ==
    /\ pc[t] = "check"
    /\ ~seen[t].writerBit
    /\ count = seen[t].count /\ ~writerBit
    /\ count' = count + 1
    /\ Goto(t, "reading")
    /\ UNCHANGED <<writerBit, gate, drained, seen>>

\* It fails, for a change of the word or for no reason, and returns the word.
ReadRetry(t) ==
    /\ pc[t] = "check"
    /\ ~seen[t].writerBit
    /\ Snapshot(t)
    /\ UNCHANGED <<word, gate, drained, pc>>

\* ReadGuard::drop: the last reader before a writer must notify it.
ReadDrop(t) ==
    /\ pc[t] = "reading"
    /\ count' = count - 1
    /\ Goto(t, IF writerBit /\ count = 1 THEN "notify" ELSE "idle")
    /\ UNCHANGED <<writerBit, gate, drained, seen>>

Notify(t) ==
    /\ pc[t] = "notify"
    /\ drained' = Signal(drained)
    /\ Goto(t, "idle")
    /\ UNCHANGED <<word, gate, seen>>

-----------------------------------------------------------------------------
(* write, try_write *)

Write(t) ==
    /\ pc[t] = "idle"
    /\ Goto(t, "wgate")
    /\ UNCHANGED <<word, gate, drained, seen>>

\* The writer mutex is taken, then the event reset, then WRITER published.
WriteGate(t) ==
    /\ pc[t] = "wgate"
    /\ gate = None
    /\ gate' = t
    /\ Goto(t, "reset")
    /\ UNCHANGED <<word, drained, seen>>

WriteReset(t) ==
    /\ pc[t] = "reset"
    /\ drained' = Reset(drained)
    /\ Goto(t, "publish")
    /\ UNCHANGED <<word, gate, seen>>

WritePublish(t) ==
    /\ pc[t] = "publish"
    /\ writerBit' = TRUE
    /\ Goto(t, "drain")
    /\ UNCHANGED <<count, gate, drained, seen>>

WriteAcquire(t) ==
    /\ pc[t] = "drain"
    /\ count = 0
    /\ Goto(t, "writing")
    /\ UNCHANGED <<word, gate, drained, seen>>

\* Readers remain: wait for the event.  With interrupts masked the code spins
\* instead, which only repeats the load.
WriteBlocked(t) ==
    /\ pc[t] = "drain"
    /\ count # 0
    /\ Goto(t, "wait")
    /\ UNCHANGED <<word, gate, drained, seen>>

WriteWait(t) ==
    /\ pc[t] = "wait"
    /\ drained' = Join(drained, t)
    /\ Goto(t, "sleep")
    /\ UNCHANGED <<word, gate, seen>>

WriteWake(t) ==
    /\ pc[t] = "sleep"
    /\ ~Asleep(drained, t)
    /\ Goto(t, "drain")
    /\ UNCHANGED <<word, gate, drained, seen>>

\* try_write: both the mutex and the word must be free.
TryWrite(t) ==
    /\ pc[t] = "idle"
    /\ gate = None
    /\ gate' = t
    /\ Goto(t, "tryword")
    /\ UNCHANGED <<word, drained, seen>>

\* Mutant: only WRITER is tested, not the readers.
TryWriteAcquireOver(t) ==
    /\ pc[t] = "tryword" /\ ~writerBit
    /\ writerBit' = TRUE
    /\ Goto(t, "writing")
    /\ UNCHANGED <<count, gate, drained, seen>>

TryWriteAcquire(t) ==
    /\ pc[t] = "tryword"
    /\ count = 0 /\ ~writerBit
    /\ writerBit' = TRUE
    /\ Goto(t, "writing")
    /\ UNCHANGED <<count, gate, drained, seen>>

TryWriteFail(t) ==
    /\ pc[t] = "tryword"
    /\ count # 0 \/ writerBit
    /\ Goto(t, "release")
    /\ UNCHANGED <<word, gate, drained, seen>>

\* WriteGuard::drop clears the word, then drops the mutex guard.
WriteDrop(t) ==
    /\ pc[t] = "writing"
    /\ count' = 0 /\ writerBit' = FALSE
    /\ Goto(t, "release")
    /\ UNCHANGED <<gate, drained, seen>>

WriteRelease(t) ==
    /\ pc[t] = "release"
    /\ gate' = None
    /\ Goto(t, "idle")
    /\ UNCHANGED <<word, drained, seen>>

-----------------------------------------------------------------------------
Begin(t) == Read(t) \/ Write(t) \/ TryWrite(t)
Inside(t) ==
    \/ Load(t) \/ ReadBlocked(t) \/ LeaveGate(t) \/ ReadAcquire(t) \/ ReadRetry(t)
    \/ ReadDrop(t) \/ Notify(t) \/ WriteReset(t) \/ WritePublish(t) \/ WriteAcquire(t)
    \/ WriteBlocked(t) \/ WriteWait(t) \/ WriteWake(t) \/ TryWriteAcquire(t)
    \/ TryWriteFail(t) \/ WriteDrop(t) \/ WriteRelease(t)
Gate(t) == PassGate(t) \/ WriteGate(t)

Next == \E t \in Threads : Begin(t) \/ Inside(t) \/ Gate(t)

Spec == Init /\ [][Next]_vars

\* Guards are dropped eventually, and the mutex hands itself over in the order
\* of its queue (see Mutex).
FairSpec == Spec /\ \A t \in Threads : WF_vars(Inside(t)) /\ SF_vars(Gate(t))

-----------------------------------------------------------------------------
(* Properties *)

Readers == {t \in Threads : pc[t] = "reading"}
Writers == {t \in Threads : pc[t] = "writing"}

\* A writer eventually gets in, however many readers keep coming.
GetsIn(t) == pc[t] = "wgate" ~> pc[t] = "writing"

\* The abstract lock this one implements.
Abstract == INSTANCE SharedLock WITH
    readers <- Readers,
    writer <- IF Writers = {} THEN None ELSE CHOOSE t \in Threads : pc[t] = "writing"
ImplementsSharedLock == Abstract!Spec
=============================================================================
