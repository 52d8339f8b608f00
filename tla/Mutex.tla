-------------------------------- MODULE Mutex --------------------------------
(***************************************************************************)
(* The sleeping mutex of kernel/src/sys/sync.rs together with the park and *)
(* wake handshake of kernel/src/sys/thread.rs it blocks with.              *)
(*                                                                         *)
(* One mutex, any number of threads.  Every atomic access to the mutex     *)
(* word, and every critical section of the waiters spinlock, is a step of  *)
(* its own, so the uncontended paths race with the slow path exactly where *)
(* the code lets them.  A blocked thread's scheduling is abstracted to its *)
(* park word: it runs again once a wake has moved the word back to idle.   *)
(***************************************************************************)
EXTENDS Integers, Sequences, FiniteSets

CONSTANTS
    Threads,    \* threads that use the mutex
    NoThread,   \* the null thread pointer
    Priority,   \* effective scheduling priority of each thread, lower is better
    Masked,     \* threads that call lock() with local interrupts masked
    Smp,        \* whether more than one CPU is online
    MaxParks    \* bound: how often one thread may go through prepare_park

MaxPriority == 255

ASSUME ThreadAssumption == NoThread \notin Threads /\ IsFiniteSet(Threads)
ASSUME PriorityAssumption == Priority \in [Threads -> 0 .. MaxPriority]
ASSUME MaskedAssumption == Masked \subseteq Threads
ASSUME SmpAssumption == Smp \in BOOLEAN
ASSUME MaxParksAssumption == MaxParks \in Nat

VARIABLES
    locked, queued, \* the LOCKED and QUEUED bits of Mutex::state
    owner,          \* Mutex::owner, published for priority inheritance
    guard,          \* thread inside the waiters spinlock
    queue,          \* Mutex::waiters, one stack-pinned waiter per thread
    granted,        \* MutexWaiter::granted
    boosted,        \* MutexWaiter::boosted, the thread a waiter lends to
    boostCount,     \* Thread::boost_count
    lent,           \* Thread::lent_priority
    parkState,      \* Thread::park_state
    parkSeq,        \* Thread::park_seq
    seen,           \* QUEUED bit of the unlocked word a thread last loaded
    target,         \* the waiter snapshot an unlocker is about to wake
    pc

word == <<locked, queued, owner>>
waiters == <<guard, queue, granted>>
lending == <<boosted, boostCount, lent>>
parking == <<parkState, parkSeq>>
locals == <<seen, target>>
vars == <<word, waiters, lending, parking, locals, pc>>

NoTarget == [thread |-> NoThread, seq |-> 0]

Labels == {"idle", "spin", "acquire", "check", "cas", "enqueue", "publishq",
           "lend", "park", "parked", "woken", "selfwake", "publish",
           "publishlocked", "held", "ucas", "uslow", "handoff", "wake"}

TypeOK ==
    /\ locked \in BOOLEAN /\ queued \in BOOLEAN
    /\ owner \in Threads \cup {NoThread}
    /\ guard \in Threads \cup {NoThread}
    /\ queue \in Seq(Threads)
    /\ granted \in [Threads -> BOOLEAN]
    /\ boosted \in [Threads -> Threads \cup {NoThread}]
    /\ boostCount \in [Threads -> Nat]
    /\ lent \in [Threads -> 0 .. MaxPriority]
    /\ parkState \in [Threads -> {"idle", "waiting", "parked"}]
    /\ parkSeq \in [Threads -> Nat]
    /\ seen \in [Threads -> BOOLEAN]
    /\ target \in [Threads -> [thread : Threads \cup {NoThread}, seq : Nat]]
    /\ pc \in [Threads -> Labels]

Init ==
    /\ locked = FALSE /\ queued = FALSE
    /\ owner = NoThread
    /\ guard = NoThread
    /\ queue = <<>>
    /\ granted = [t \in Threads |-> FALSE]
    /\ boosted = [t \in Threads |-> NoThread]
    /\ boostCount = [t \in Threads |-> 0]
    /\ lent = [t \in Threads |-> MaxPriority]
    /\ parkState = [t \in Threads |-> "idle"]
    /\ parkSeq = [t \in Threads |-> 0]
    /\ seen = [t \in Threads |-> FALSE]
    /\ target = [t \in Threads |-> NoTarget]
    /\ pc = [t \in Threads |-> "idle"]

Goto(t, label) == pc' = [pc EXCEPT ![t] = label]

-----------------------------------------------------------------------------
(* Acquisition *)

\* try_lock_fast, from lock(), try_lock() or the active spin of lock_slow: one
\* compare-exchange of the whole word from 0 to LOCKED.  A try_lock() that
\* fails leaves no trace.
TryLockFast(t) ==
    /\ pc[t] \in {"idle", "spin"}
    /\ ~locked /\ ~queued
    /\ locked' = TRUE
    /\ Goto(t, "publish")
    /\ UNCHANGED <<queued, owner, waiters, lending, parking, locals>>

\* lock() finds the word taken and enters lock_slow, which spins only when
\* another CPU could release the lock meanwhile.
EnterSlow(t) ==
    /\ pc[t] = "idle"
    /\ parkSeq[t] < MaxParks
    /\ locked \/ queued
    /\ Goto(t, IF Smp THEN "spin" ELSE "acquire")
    /\ UNCHANGED <<word, waiters, lending, parking, locals>>

\* The active spin ends when a waiter is queued or its iterations are used up.
StopSpinning(t) ==
    /\ pc[t] = "spin"
    /\ Goto(t, "acquire")
    /\ UNCHANGED <<word, waiters, lending, parking, locals>>

\* publish_owner after a successful fast path, outside any lock.
PublishOwner(t) ==
    /\ pc[t] = "publish"
    /\ owner' = t
    /\ Goto(t, "held")
    /\ UNCHANGED <<locked, queued, waiters, lending, parking, locals>>

\* The slow path takes the waiters spinlock.
AcquireGuard(t) ==
    /\ pc[t] = "acquire"
    /\ guard = NoThread
    /\ guard' = t
    /\ Goto(t, "check")
    /\ UNCHANGED <<word, queue, granted, lending, parking, locals>>

\* It loads the word.  An unlocked word is competed for.
SeeUnlocked(t) ==
    /\ pc[t] = "check"
    /\ ~locked
    /\ seen' = [seen EXCEPT ![t] = queued]
    /\ Goto(t, "cas")
    /\ UNCHANGED <<word, waiters, lending, parking, target>>

\* A locked word is queued for.
SeeLocked(t) ==
    /\ pc[t] = "check"
    /\ locked
    /\ t \notin Masked
    /\ Goto(t, "enqueue")
    /\ UNCHANGED <<word, waiters, lending, parking, locals>>

\* With interrupts masked the caller cannot park: it drops the spinlock and
\* tries again.
SpinMasked(t) ==
    /\ pc[t] = "check"
    /\ locked
    /\ t \in Masked
    /\ guard' = NoThread
    /\ Goto(t, "acquire")
    /\ UNCHANGED <<word, queue, granted, lending, parking, locals>>

\* Mutant: a plain store where the code compares with the loaded value.
CasAcquireUnchecked(t) ==
    /\ pc[t] = "cas"
    /\ locked' = TRUE /\ queued' = FALSE
    /\ queue' = <<>>
    /\ Goto(t, "publishlocked")
    /\ UNCHANGED <<owner, guard, granted, lending, parking, locals>>

\* The compare-exchange from the value loaded before.
CasAcquire(t) ==
    /\ pc[t] = "cas"
    /\ ~locked /\ queued = seen[t]
    /\ locked' = TRUE /\ queued' = FALSE
    /\ queue' = <<>>
    /\ Goto(t, "publishlocked")
    /\ UNCHANGED <<owner, guard, granted, lending, parking, locals>>

\* It fails when a fast-path caller took the lock in between, and the loop
\* restarts.
CasRetry(t) ==
    /\ pc[t] = "cas"
    /\ locked \/ queued # seen[t]
    /\ guard' = NoThread
    /\ Goto(t, "acquire")
    /\ UNCHANGED <<word, queue, granted, lending, parking, locals>>

\* publish_owner with the spinlock still held, then drop it.
PublishLocked(t) ==
    /\ pc[t] = "publishlocked"
    /\ owner' = t
    /\ guard' = NoThread
    /\ Goto(t, "held")
    /\ UNCHANGED <<locked, queued, queue, granted, lending, parking, locals>>

\* Mutant: the waiter is linked at the front of the queue.
EnqueueFront(t) ==
    /\ pc[t] = "enqueue"
    /\ parkSeq' = [parkSeq EXCEPT ![t] = @ + 1]
    /\ parkState' = [parkState EXCEPT ![t] = "waiting"]
    /\ queue' = <<t>> \o queue
    /\ granted' = [granted EXCEPT ![t] = FALSE]
    /\ boosted' = [boosted EXCEPT ![t] = NoThread]
    /\ Goto(t, "publishq")
    /\ UNCHANGED <<word, guard, boostCount, lent, locals>>

\* prepare_park, a fresh waiter, and linking it at the back of the queue.
Enqueue(t) ==
    /\ pc[t] = "enqueue"
    /\ parkSeq' = [parkSeq EXCEPT ![t] = @ + 1]
    /\ parkState' = [parkState EXCEPT ![t] = "waiting"]
    /\ queue' = Append(queue, t)
    /\ granted' = [granted EXCEPT ![t] = FALSE]
    /\ boosted' = [boosted EXCEPT ![t] = NoThread]
    /\ Goto(t, "publishq")
    /\ UNCHANGED <<word, guard, boostCount, lent, locals>>

\* Mutant: the bit is only tested, never set.
PublishQueuedLoad(t) ==
    /\ pc[t] = "publishq"
    /\ locked
    /\ Goto(t, "lend")
    /\ UNCHANGED <<word, waiters, lending, parking, locals>>

\* fetch_or(QUEUED) finds the lock still held: the waiter stays queued.
PublishQueued(t) ==
    /\ pc[t] = "publishq"
    /\ locked
    /\ queued' = TRUE
    /\ Goto(t, "lend")
    /\ UNCHANGED <<locked, owner, waiters, lending, parking, locals>>

\* fetch_or(QUEUED) finds that an uncontended unlock came first: the caller
\* unlinks itself and takes the lock instead of parking without a waker.
SelfAcquire(t) ==
    /\ pc[t] = "publishq"
    /\ ~locked
    /\ queue' = <<>>
    /\ locked' = TRUE /\ queued' = FALSE
    /\ owner' = t
    /\ guard' = NoThread
    /\ Goto(t, "selfwake")
    /\ UNCHANGED <<granted, lending, parking, locals>>

\* Thread::wake moves a matching park word to idle; a stale one is refused.
Wakeable(t, seq) == parkState[t] # "idle" /\ parkSeq[t] = seq

\* The self-acquired lock cancels the caller's own park preparation.
SelfWake(t) ==
    /\ pc[t] = "selfwake"
    /\ Wakeable(t, parkSeq[t])
    /\ parkState' = [parkState EXCEPT ![t] = "idle"]
    /\ Goto(t, "held")
    /\ UNCHANGED <<word, waiters, lending, parkSeq, locals>>

MinPriority(a, b) == IF a < b THEN a ELSE b

\* Mutant: the boost is recorded in the waiter but not counted.
LendUncounted(t) ==
    /\ pc[t] = "lend"
    /\ IF owner = NoThread
       THEN UNCHANGED lending
       ELSE /\ boosted' = [boosted EXCEPT ![t] = owner]
            /\ lent' = [lent EXCEPT ![owner] = MinPriority(@, Priority[t])]
            /\ UNCHANGED boostCount
    /\ guard' = NoThread
    /\ Goto(t, "park")
    /\ UNCHANGED <<word, queue, granted, parking, locals>>

\* lend_to_owner while the spinlock is held, then release the spinlock.
LendToOwner(t) ==
    /\ pc[t] = "lend"
    /\ IF owner = NoThread
       THEN UNCHANGED lending
       ELSE /\ boosted' = [boosted EXCEPT ![t] = owner]
            /\ boostCount' = [boostCount EXCEPT ![owner] = @ + 1]
            /\ lent' = [lent EXCEPT ![owner] = MinPriority(@, Priority[t])]
    /\ guard' = NoThread
    /\ Goto(t, "park")
    /\ UNCHANGED <<word, queue, granted, parking, locals>>

\* park_current: mark_parked succeeds and the thread stops running.
Park(t) ==
    /\ pc[t] = "park"
    /\ parkState[t] = "waiting"
    /\ parkState' = [parkState EXCEPT ![t] = "parked"]
    /\ Goto(t, "parked")
    /\ UNCHANGED <<word, waiters, lending, parkSeq, locals>>

\* park_current: a wake already cleared the park word, so it returns at once.
ParkRefused(t) ==
    /\ pc[t] = "park"
    /\ parkState[t] # "waiting"
    /\ Goto(t, "woken")
    /\ UNCHANGED <<word, waiters, lending, parking, locals>>

\* The scheduler resumes a parked thread once it has been woken.
Resume(t) ==
    /\ pc[t] = "parked"
    /\ parkState[t] = "idle"
    /\ Goto(t, "woken")
    /\ UNCHANGED <<word, waiters, lending, parking, locals>>

\* Back from park_current: lock() returns because ownership was granted.
\* (The retry that follows an ungranted wake is dead code: GrantedOnReturn.)
ReturnGranted(t) ==
    /\ pc[t] = "woken"
    /\ granted[t]
    /\ granted' = [granted EXCEPT ![t] = FALSE]
    /\ Goto(t, "held")
    /\ UNCHANGED <<word, guard, queue, lending, parking, locals>>

-----------------------------------------------------------------------------
(* Release *)

\* unlock() clears the published owner before it touches the word.
ClearOwner(t) ==
    /\ pc[t] = "held"
    /\ owner' = NoThread
    /\ Goto(t, "ucas")
    /\ UNCHANGED <<locked, queued, waiters, lending, parking, locals>>

\* The uncontended release, a compare-exchange from LOCKED to 0.
UnlockCas(t) ==
    /\ pc[t] = "ucas"
    /\ locked /\ ~queued
    /\ locked' = FALSE
    /\ Goto(t, "idle")
    /\ UNCHANGED <<queued, owner, waiters, lending, parking, locals>>

\* Mutant: the release retries its compare-exchange until nobody waits.
UnlockRetries(t) ==
    /\ pc[t] = "ucas"
    /\ ~locked \/ queued
    /\ UNCHANGED vars

\* It fails when a waiter is queued; the release then needs the spinlock.
UnlockContended(t) ==
    /\ pc[t] = "ucas"
    /\ ~locked \/ queued
    /\ Goto(t, "uslow")
    /\ UNCHANGED <<word, waiters, lending, parking, locals>>

UnlockGuard(t) ==
    /\ pc[t] = "uslow"
    /\ guard = NoThread
    /\ guard' = t
    /\ Goto(t, "handoff")
    /\ UNCHANGED <<word, queue, granted, lending, parking, locals>>

QueuedThreads(q) == {q[i] : i \in DOMAIN q}

\* Lowest of a set of lent priorities and the one lent before.
LowestPriority(ws, before) ==
    CHOOSE p \in {before} \cup {Priority[w] : w \in ws} :
        \A q \in {before} \cup {Priority[w] : w \in ws} : p <= q

\* Threads that stop being boosted by the waiters in ws.
Donors(ws, u) == {w \in ws : boosted[w] = u}

\* Mutant: the boost of the granted waiter is given back twice.
MoveBoostsTwice(next, rest) ==
    LET gone(u) == Cardinality(Donors({next} \cup rest, u)) + Cardinality(Donors({next}, u))
        gain(u) == IF u = next THEN Cardinality(rest) ELSE 0
        count == [u \in Threads |-> boostCount[u] + gain(u) - gone(u)]
    IN  /\ boosted' = [w \in Threads |-> IF w = next THEN NoThread
                                         ELSE IF w \in rest THEN next
                                         ELSE boosted[w]]
        /\ boostCount' = count
        /\ lent' = [u \in Threads |->
                      IF gone(u) > 0 /\ count[u] = 0 THEN MaxPriority
                      ELSE IF u = next THEN LowestPriority(rest, lent[u])
                      ELSE lent[u]]

\* release_boost of the granted waiter, then transfer_boosts: every waiter
\* left in the queue lends to the new owner instead of the old one.
MoveBoosts(next, rest) ==
    LET gone(u) == Cardinality(Donors({next} \cup rest, u))
        gain(u) == IF u = next THEN Cardinality(rest) ELSE 0
        count == [u \in Threads |-> boostCount[u] + gain(u) - gone(u)]
    IN  /\ boosted' = [w \in Threads |-> IF w = next THEN NoThread
                                         ELSE IF w \in rest THEN next
                                         ELSE boosted[w]]
        /\ boostCount' = count
        /\ lent' = [u \in Threads |->
                      IF gone(u) > 0 /\ count[u] = 0 THEN MaxPriority
                      ELSE IF u = next THEN LowestPriority(rest, lent[u])
                      ELSE lent[u]]

\* The contended release: pop the front waiter, make it the owner, move the
\* boosts, mark it granted and rewrite the word, all under the spinlock.
Handoff(t) ==
    /\ pc[t] = "handoff"
    /\ queue # <<>>
    /\ LET next == Head(queue)
           rest == Tail(queue)
       IN  /\ owner' = next
           /\ MoveBoosts(next, QueuedThreads(rest))
           /\ granted' = [granted EXCEPT ![next] = TRUE]
           /\ queued' = (rest # <<>>)
           /\ queue' = rest
           /\ target' = [target EXCEPT ![t] =
                            [thread |-> next, seq |-> parkSeq[next]]]
    /\ locked' = TRUE
    /\ guard' = NoThread
    /\ Goto(t, "wake")
    /\ UNCHANGED <<parking, seen>>

\* sched::wake of the snapshot; the code asserts that it is not stale.
WakeTarget(t) ==
    /\ pc[t] = "wake"
    /\ Wakeable(target[t].thread, target[t].seq)
    /\ parkState' = [parkState EXCEPT ![target[t].thread] = "idle"]
    /\ target' = [target EXCEPT ![t] = NoTarget]
    /\ Goto(t, "idle")
    /\ UNCHANGED <<word, waiters, lending, parkSeq, seen>>

-----------------------------------------------------------------------------
\* Steps a thread takes by itself, once inside lock() or unlock().
Running(t) ==
    \/ StopSpinning(t) \/ PublishOwner(t) \/ AcquireGuard(t)
    \/ SeeUnlocked(t) \/ SeeLocked(t) \/ SpinMasked(t)
    \/ CasAcquire(t) \/ CasRetry(t) \/ PublishLocked(t)
    \/ Enqueue(t) \/ PublishQueued(t) \/ SelfAcquire(t) \/ SelfWake(t)
    \/ LendToOwner(t) \/ Park(t) \/ ParkRefused(t) \/ Resume(t)
    \/ ReturnGranted(t) \/ UnlockCas(t) \/ UnlockContended(t)
    \/ UnlockGuard(t) \/ Handoff(t) \/ WakeTarget(t)

Next ==
    \E t \in Threads : TryLockFast(t) \/ EnterSlow(t) \/ ClearOwner(t) \/ Running(t)

Spec == Init /\ [][Next]_vars

\* A runnable thread eventually runs its next instruction, and a holder
\* eventually unlocks.  Nothing makes a thread call lock() or try_lock(), or win the
\* active spin.
FairSpec == Spec /\ \A t \in Threads : WF_vars(Running(t) \/ ClearOwner(t))

-----------------------------------------------------------------------------
(* Properties *)

HoldLabels == {"publish", "publishlocked", "held", "selfwake", "ucas",
               "uslow", "handoff"}

\* t owns the lock: it is in a critical section, or was granted it in its sleep.
Holds(t) == pc[t] \in HoldLabels \/ granted[t]

\* Mutual exclusion: whatever the fast path, the slow path's compare-exchange,
\* the self-acquisition in PublishQueued and a direct handoff do concurrently,
\* two threads never own the mutex, and the LOCKED bit says whether one does.
MutualExclusion ==
    /\ \A t, u \in Threads : Holds(t) /\ Holds(u) => t = u
    /\ locked <=> \E t \in Threads : Holds(t)

\* No lost waiter: outside the spinlock the QUEUED bit is set exactly while a
\* waiter is linked, so the unlocker's compare-exchange cannot miss one; and a
\* queued waiter always has a live holder that will hand the lock on.
NoLostWaiter ==
    /\ guard = NoThread => (queued <=> queue # <<>>)
    /\ guard = NoThread /\ queue # <<>> => \E t \in Threads : Holds(t)

\* The asserts "stale park sequence" of unlock() and of the self-acquisition:
\* the snapshot taken under the spinlock still names the waiter's current park
\* when the wake is finally delivered, and nobody else has consumed it.
NoStaleWake ==
    \A t \in Threads :
        /\ pc[t] = "wake" => Wakeable(target[t].thread, target[t].seq)
        /\ pc[t] = "selfwake" => parkState[t] = "waiting"

\* park_current only returns to lock_slow after the lock was granted, so the
\* code that unlinks an ungranted waiter and retries is never needed.
GrantedOnReturn == \A t \in Threads : pc[t] = "woken" => granted[t]

\* The expects and asserts on the queue: a contended release always finds a
\* waiter, and an unlocked mutex has none when the slow path competes for it.
QueueAsserts ==
    \A t \in Threads :
        /\ pc[t] = "handoff" => queue # <<>>
        /\ pc[t] = "cas" => queue = <<>>
        /\ pc[t] = "publishq" /\ ~locked => queue = <<t>>

\* Boosts are reference counts: each thread's boost_count is the number of
\* queued waiters lending to it, and its lent priority the best of theirs.  With
\* several mutexes the count is over all of them, and the best priority lent is
\* kept until the last loan ends.
BoostsBalance ==
    \A t \in Threads :
        /\ boostCount[t] = Cardinality(Donors(Threads, t))
        /\ lent[t] = LowestPriority(Donors(Threads, t), MaxPriority)

\* Only the holder is ever boosted: no inherited priority survives unlock().
BoostOnlyHolder ==
    \A w \in Threads :
        boosted[w] # NoThread => Holds(boosted[w]) /\ w \in QueuedThreads(queue)

\* The lock as FifoLock promises it.  The holder is the thread that owns the
\* word; a waiter joins the line with its fetch_or, not when it links itself.
AbstractHolder ==
    IF \E t \in Threads : Holds(t) THEN CHOOSE t \in Threads : Holds(t)
    ELSE NoThread
AbstractLine ==
    IF guard # NoThread /\ pc[guard] = "publishq"
    THEN SubSeq(queue, 1, Len(queue) - 1)
    ELSE queue
Fifo == INSTANCE FifoLock WITH holder <- AbstractHolder, line <- AbstractLine

\* Every step of the code is a step of the first-come first-served lock or
\* invisible to it ("Contended callers briefly spin, then park and wait in
\* FIFO order").
RefinesFifoLock == Fifo!Spec

\* "Lends the queued waiter's priority to the current lock holder": while a
\* waiter sleeps in the queue and the holder is in its critical section, the
\* holder inherits the waiter's priority.
SleeperLends ==
    \A w, h \in Threads :
        pc[w] = "parked" /\ w \in QueuedThreads(queue) /\ pc[h] = "held"
            => boosted[w] = h

\* A thread that has queued itself eventually holds the lock.
EventuallyHolds(t) == pc[t] = "lend" ~> pc[t] = "held"
=============================================================================
