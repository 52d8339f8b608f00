-------------------------------- MODULE Event --------------------------------
(***************************************************************************)
(* The level-triggered events of kernel/src/sys/event.rs: wait, wait_any,  *)
(* signal, reset, wake_one, wake_all, and the SequenceEvent built on them. *)
(*                                                                         *)
(* The state byte of an event (SIGNALED and QUEUED) is changed by atomic   *)
(* operations that take no lock; its queue is changed under a spinlock.    *)
(* A critical section is one step, except register(), whose load and       *)
(* fetch_or of the state byte race with signal(), and therefore holds the  *)
(* spinlock across two steps.                                              *)
(***************************************************************************)
EXTENDS Integers, Sequences, FiniteSets

CONSTANTS
    Events,
    SequenceEvents, \* those wrapped in a SequenceEvent, which alone uses them
    Waiters,        \* threads that block
    Wakers,         \* threads, CPUs or interrupt handlers that signal and wake
    None,
    WaitLists,      \* the event lists passed to wait_any (or <<e>> for wait)
    MaxParks,       \* bound: waits per thread
    MaxGeneration   \* bound: notifications per SequenceEvent

ASSUME EventAssumption ==
    /\ None \notin Events \cup Waiters \cup Wakers \cup Nat
    /\ SequenceEvents \subseteq Events
    /\ WaitLists \subseteq Seq(Events \ SequenceEvents) \ {<<>>}
    /\ \A l \in WaitLists : \A i, j \in DOMAIN l : l[i] = l[j] => i = j
    /\ MaxParks \in Nat /\ MaxGeneration \in Nat

VARIABLES
    signaled, queuedBit,    \* Event::state
    guard,                  \* registering thread inside Event::waiters, or None
    queue,                  \* the waiters linked in Event::waiters
    generation,             \* SequenceEvent::generation
    list, index,            \* a waiter's events and its position in a loop over them
    ticket,                 \* the generation a SequenceEvent waiter observed
    winner,                 \* WaitGroup::winner
    parkState, parkSeq,     \* the waiter's park word
    event, batch,           \* a waker's event, and the claimed groups it must wake
    pc

state == <<signaled, queuedBit, generation>>
links == <<guard, queue>>
group == <<list, index, ticket>>
parking == <<parkState, parkSeq>>
waking == <<event, batch>>
vars == <<state, links, group, winner, parking, waking, pc>>

Actors == Waiters \cup Wakers
WaiterLabels == {"idle", "scan", "register", "publish", "claim", "condition",
                 "park", "parked", "unregister"}
WakerLabels == {"idle", "notify", "claimone", "claimall", "wake"}

TypeOK ==
    /\ signaled \in [Events -> BOOLEAN] /\ queuedBit \in [Events -> BOOLEAN]
    /\ generation \in [Events -> 0 .. MaxGeneration]
    /\ guard \in [Events -> Waiters \cup {None}]
    /\ queue \in [Events -> Seq(Waiters)]
    /\ list \in [Waiters -> WaitLists \cup {<<>>} \cup {<<e>> : e \in SequenceEvents}]
    /\ index \in [Waiters -> Nat]
    /\ ticket \in [Waiters -> (0 .. MaxGeneration) \cup {None}]
    /\ winner \in [Waiters -> Events \cup {None}]
    /\ parkState \in [Waiters -> {"idle", "waiting", "parked"}]
    /\ parkSeq \in [Waiters -> 0 .. MaxParks]
    /\ event \in [Wakers -> Events \cup {None}]
    /\ batch \in [Wakers -> Seq([thread : Waiters, seq : Nat])]
    /\ pc \in [Actors -> WaiterLabels \cup WakerLabels]

Init ==
    /\ signaled = [e \in Events |-> FALSE] /\ queuedBit = [e \in Events |-> FALSE]
    /\ generation = [e \in Events |-> 0]
    /\ guard = [e \in Events |-> None]
    /\ queue = [e \in Events |-> <<>>]
    /\ list = [w \in Waiters |-> <<>>]
    /\ index = [w \in Waiters |-> 0]
    /\ ticket = [w \in Waiters |-> None]
    /\ winner = [w \in Waiters |-> None]
    /\ parkState = [w \in Waiters |-> "idle"]
    /\ parkSeq = [w \in Waiters |-> 0]
    /\ event = [a \in Wakers |-> None]
    /\ batch = [a \in Wakers |-> <<>>]
    /\ pc = [a \in Actors |-> "idle"]

Goto(a, label) == pc' = [pc EXCEPT ![a] = label]
Current(w) == list[w][index[w]]
Last(w) == index[w] = Len(list[w])

-----------------------------------------------------------------------------
(* Waiting *)

\* wait or wait_any on a list of events.
Call(w, l) ==
    /\ pc[w] = "idle"
    /\ parkSeq[w] < MaxParks
    /\ list' = [list EXCEPT ![w] = l]
    /\ index' = [index EXCEPT ![w] = 1]
    /\ ticket' = [ticket EXCEPT ![w] = None]
    /\ Goto(w, "scan")
    /\ UNCHANGED <<state, links, winner, parking, waking>>

\* SequenceEvent: observe() a ticket, and later wait(ticket), which returns at
\* once when the generation has moved on.  The wait itself is wait_if.
Observe(w, e) ==
    /\ pc[w] = "idle"
    /\ parkSeq[w] < MaxParks
    /\ list' = [list EXCEPT ![w] = <<e>>]
    /\ index' = [index EXCEPT ![w] = 1]
    /\ ticket' = [ticket EXCEPT ![w] = generation[e]]
    /\ Goto(w, "scan")
    /\ UNCHANGED <<state, links, winner, parking, waking>>

\* The wait is over before it began: an event is already signaled, or the
\* generation has changed.
ReturnEarly(w) ==
    /\ pc[w] = "scan"
    /\ signaled[Current(w)] \/ ticket[w] \notin {None, generation[Current(w)]}
    /\ list' = [list EXCEPT ![w] = <<>>]
    /\ Goto(w, "idle")
    /\ UNCHANGED <<state, links, index, ticket, winner, parking, waking>>

ScanNext(w) ==
    /\ pc[w] = "scan"
    /\ ~signaled[Current(w)]
    /\ ticket[w] \in {None, generation[Current(w)]}
    /\ ~Last(w)
    /\ index' = [index EXCEPT ![w] = @ + 1]
    /\ UNCHANGED <<state, links, list, ticket, winner, parking, waking, pc>>

\* No event is signaled: prepare_park and a fresh wait group.
Prepare(w) ==
    /\ pc[w] = "scan"
    /\ ~signaled[Current(w)]
    /\ ticket[w] \in {None, generation[Current(w)]}
    /\ Last(w)
    /\ parkState' = [parkState EXCEPT ![w] = "waiting"]
    /\ parkSeq' = [parkSeq EXCEPT ![w] = @ + 1]
    /\ winner' = [winner EXCEPT ![w] = None]
    /\ index' = [index EXCEPT ![w] = 1]
    /\ Goto(w, "register")
    /\ UNCHANGED <<state, links, list, ticket, waking>>

\* The registration loop stops as soon as an earlier event claimed the wait.
StopRegistering(w) ==
    /\ pc[w] = "register"
    /\ winner[w] # None
    /\ Goto(w, "condition")
    /\ UNCHANGED <<state, links, group, winner, parking, waking>>

\* register() takes the queue lock and finds the event signaled.
RegisterRefused(w) ==
    /\ pc[w] = "register"
    /\ winner[w] = None
    /\ guard[Current(w)] = None
    /\ signaled[Current(w)]
    /\ Goto(w, "claim")
    /\ UNCHANGED <<state, links, group, winner, parking, waking>>

\* register() takes the queue lock and finds the event not signaled.
RegisterCheck(w) ==
    /\ pc[w] = "register"
    /\ winner[w] = None
    /\ guard[Current(w)] = None
    /\ ~signaled[Current(w)]
    /\ guard' = [guard EXCEPT ![Current(w)] = w]
    /\ Goto(w, "publish")
    /\ UNCHANGED <<state, queue, group, winner, parking, waking>>

\* Mutant: the result of the fetch_or is ignored.
PublishBlind(w) ==
    /\ pc[w] = "publish"
    /\ queue' = [queue EXCEPT ![Current(w)] = Append(@, w)]
    /\ queuedBit' = [queuedBit EXCEPT ![Current(w)] = TRUE]
    /\ guard' = [guard EXCEPT ![Current(w)] = None]
    /\ index' = [index EXCEPT ![w] = IF Last(w) THEN 1 ELSE @ + 1]
    /\ Goto(w, IF Last(w) THEN "condition" ELSE "register")
    /\ UNCHANGED <<signaled, generation, list, ticket, winner, parking, waking>>

\* Link, and set QUEUED by a fetch_or that finds the event still not signaled.
Publish(w) ==
    /\ pc[w] = "publish"
    /\ ~signaled[Current(w)]
    /\ queue' = [queue EXCEPT ![Current(w)] = Append(@, w)]
    /\ queuedBit' = [queuedBit EXCEPT ![Current(w)] = TRUE]
    /\ guard' = [guard EXCEPT ![Current(w)] = None]
    /\ index' = [index EXCEPT ![w] = IF Last(w) THEN 1 ELSE @ + 1]
    /\ Goto(w, IF Last(w) THEN "condition" ELSE "register")
    /\ UNCHANGED <<signaled, generation, list, ticket, winner, parking, waking>>

\* The fetch_or returns SIGNALED: unlink again, clear QUEUED if the queue is
\* empty, and complete the wait instead of sleeping.
PublishUndo(w) ==
    /\ pc[w] = "publish"
    /\ signaled[Current(w)]
    /\ queuedBit' = [queuedBit EXCEPT ![Current(w)] = queue[Current(w)] # <<>>]
    /\ guard' = [guard EXCEPT ![Current(w)] = None]
    /\ Goto(w, "claim")
    /\ UNCHANGED <<signaled, generation, queue, group, winner, parking, waking>>

\* Thread::wake succeeds on a matching park word that is not idle.
Wakeable(w, seq) == parkState[w] # "idle" /\ parkSeq[w] = seq

\* The waiter claims its own group for event e and cancels its park.
ClaimSelf(w, e) ==
    /\ winner[w] = None
    /\ Wakeable(w, parkSeq[w])
    /\ winner' = [winner EXCEPT ![w] = e]
    /\ parkState' = [parkState EXCEPT ![w] = "idle"]

\* A refused registration completes the wait on the spot...
ClaimRefused(w) ==
    /\ pc[w] = "claim"
    /\ ClaimSelf(w, Current(w))
    /\ Goto(w, "condition")
    /\ UNCHANGED <<state, links, group, parkSeq, waking>>

\* ...unless an earlier event claimed the group meanwhile.
ClaimLost(w) ==
    /\ pc[w] = "claim"
    /\ winner[w] # None
    /\ Goto(w, "condition")
    /\ UNCHANGED <<state, links, group, winner, parking, waking>>

OutOfDate(w) == ticket[w] \notin {None, generation[list[w][1]]}

\* wait_if evaluates its condition after registration: a SequenceEvent waiter
\* whose ticket is out of date claims its own group...
ConditionFails(w) ==
    /\ pc[w] = "condition"
    /\ OutOfDate(w)
    /\ ClaimSelf(w, list[w][1])
    /\ index' = [index EXCEPT ![w] = 1]
    /\ Goto(w, "park")
    /\ UNCHANGED <<state, links, list, ticket, parkSeq, waking>>

\* ...and any other waiter, or one that was claimed already, goes on to park.
ConditionHolds(w) ==
    /\ pc[w] = "condition"
    /\ OutOfDate(w) => winner[w] # None
    /\ index' = [index EXCEPT ![w] = 1]
    /\ Goto(w, "park")
    /\ UNCHANGED <<state, links, list, ticket, winner, parking, waking>>

\* park_current: mark_parked succeeds.
Park(w) ==
    /\ pc[w] = "park"
    /\ parkState[w] = "waiting"
    /\ parkState' = [parkState EXCEPT ![w] = "parked"]
    /\ Goto(w, "parked")
    /\ UNCHANGED <<state, links, group, winner, parkSeq, waking>>

\* The group was claimed locally, or a wake came before the park.
ParkRefused(w) ==
    /\ pc[w] = "park"
    /\ parkState[w] # "waiting"
    /\ Goto(w, "unregister")
    /\ UNCHANGED <<state, links, group, winner, parking, waking>>

Resume(w) ==
    /\ pc[w] = "parked"
    /\ parkState[w] = "idle"
    /\ Goto(w, "unregister")
    /\ UNCHANGED <<state, links, group, winner, parking, waking>>

Without(q, w) == SelectSeq(q, LAMBDA v : v # w)

\* Mutant: only the events before the winner are unregistered.
UnregisterWinner(w) ==
    /\ pc[w] = "unregister"
    /\ guard[Current(w)] = None
    /\ LET e == Current(w)
           q == Without(queue[e], w)
           done == Last(w) \/ e = winner[w]
       IN  /\ queue' = [queue EXCEPT ![e] = q]
           /\ queuedBit' = [queuedBit EXCEPT ![e] = @ /\ (q = queue[e] \/ q # <<>>)]
           /\ list' = [list EXCEPT ![w] = IF done THEN <<>> ELSE @]
           /\ index' = [index EXCEPT ![w] = IF done THEN 1 ELSE @ + 1]
           /\ Goto(w, IF done THEN "idle" ELSE "unregister")
    /\ UNCHANGED <<signaled, generation, guard, ticket, winner, parking, waking>>

\* Before the wait returns every event is unregistered, one critical section
\* each; a registration a waker already popped is simply not linked any more.
Unregister(w) ==
    /\ pc[w] = "unregister"
    /\ guard[Current(w)] = None
    /\ LET e == Current(w)
           q == Without(queue[e], w)
       IN  /\ queue' = [queue EXCEPT ![e] = q]
           /\ queuedBit' = [queuedBit EXCEPT ![e] = @ /\ (q = queue[e] \/ q # <<>>)]
    /\ list' = [list EXCEPT ![w] = IF Last(w) THEN <<>> ELSE @]
    /\ index' = [index EXCEPT ![w] = IF Last(w) THEN 1 ELSE @ + 1]
    /\ Goto(w, IF Last(w) THEN "idle" ELSE "unregister")
    /\ UNCHANGED <<signaled, generation, guard, ticket, winner, parking, waking>>

-----------------------------------------------------------------------------
(* Waking *)

\* signal(): one fetch_or; the queue is visited only if QUEUED was set.
Signal(a, e) ==
    /\ pc[a] = "idle"
    /\ signaled' = [signaled EXCEPT ![e] = TRUE]
    /\ event' = [event EXCEPT ![a] = IF queuedBit[e] THEN e ELSE None]
    /\ Goto(a, IF queuedBit[e] THEN "claimall" ELSE "idle")
    /\ UNCHANGED <<queuedBit, generation, links, group, winner, parking, batch>>

Reset(a, e) ==
    /\ pc[a] = "idle"
    /\ signaled' = [signaled EXCEPT ![e] = FALSE]
    /\ UNCHANGED <<queuedBit, generation, links, group, winner, parking, waking, pc>>

\* wake_one() and wake_all() find QUEUED set; otherwise they do nothing.
WakeOne(a, e) ==
    /\ pc[a] = "idle"
    /\ queuedBit[e]
    /\ event' = [event EXCEPT ![a] = e]
    /\ Goto(a, "claimone")
    /\ UNCHANGED <<state, links, group, winner, parking, batch>>

WakeAll(a, e) ==
    /\ pc[a] = "idle"
    /\ queuedBit[e]
    /\ event' = [event EXCEPT ![a] = e]
    /\ Goto(a, "claimall")
    /\ UNCHANGED <<state, links, group, winner, parking, batch>>

\* SequenceEvent::notify: advance the generation, then wake_all().
Notify(a, e) ==
    /\ pc[a] = "idle"
    /\ generation[e] < MaxGeneration
    /\ generation' = [generation EXCEPT ![e] = @ + 1]
    /\ event' = [event EXCEPT ![a] = e]
    /\ Goto(a, "notify")
    /\ UNCHANGED <<signaled, queuedBit, links, group, winner, parking, batch>>

NotifyWake(a) ==
    /\ pc[a] = "notify"
    /\ event' = [event EXCEPT ![a] = IF queuedBit[@] THEN @ ELSE None]
    /\ Goto(a, IF queuedBit[event[a]] THEN "claimall" ELSE "idle")
    /\ UNCHANGED <<state, links, group, winner, parking, batch>>

Target(w) == [thread |-> w, seq |-> parkSeq[w]]
Unclaimed(w) == winner[w] = None

\* claim_all: pop every waiter, claim the groups nobody claimed, clear QUEUED.
ClaimAll(a) ==
    /\ pc[a] = "claimall"
    /\ guard[event[a]] = None
    /\ LET live == SelectSeq(queue[event[a]], Unclaimed)
       IN  /\ winner' = [w \in Waiters |->
                            IF w \in {live[i] : i \in DOMAIN live} THEN event[a] ELSE winner[w]]
           /\ batch' = [batch EXCEPT ![a] = [i \in DOMAIN live |-> Target(live[i])]]
           /\ Goto(a, IF live = <<>> THEN "idle" ELSE "wake")
    /\ queue' = [queue EXCEPT ![event[a]] = <<>>]
    /\ queuedBit' = [queuedBit EXCEPT ![event[a]] = FALSE]
    /\ event' = [event EXCEPT ![a] = None]
    /\ UNCHANGED <<signaled, generation, guard, group, parking>>

\* claim_one: pop until a group nobody claimed is found.
ClaimOne(a) ==
    /\ pc[a] = "claimone"
    /\ guard[event[a]] = None
    /\ LET q == queue[event[a]]
           live == {i \in DOMAIN q : Unclaimed(q[i])}
           first == CHOOSE i \in live : \A j \in live : i <= j
           rest == IF live = {} THEN <<>> ELSE SubSeq(q, first + 1, Len(q))
       IN  /\ winner' = [w \in Waiters |->
                            IF live # {} /\ w = q[first] THEN event[a] ELSE winner[w]]
           /\ batch' = [batch EXCEPT ![a] = IF live = {} THEN <<>> ELSE <<Target(q[first])>>]
           /\ queue' = [queue EXCEPT ![event[a]] = rest]
           /\ queuedBit' = [queuedBit EXCEPT ![event[a]] = rest # <<>>]
           /\ Goto(a, IF live = {} THEN "idle" ELSE "wake")
    /\ event' = [event EXCEPT ![a] = None]
    /\ UNCHANGED <<signaled, generation, guard, group, parking>>

\* Mutant: a wake that finds the waiter still running is dropped.
WakeParkedOnly(a) ==
    /\ pc[a] = "wake"
    /\ LET target == Head(batch[a])
       IN parkState' = [parkState EXCEPT ![target.thread] =
                            IF @ = "parked" THEN "idle" ELSE @]
    /\ batch' = [batch EXCEPT ![a] = Tail(@)]
    /\ Goto(a, IF Len(batch[a]) = 1 THEN "idle" ELSE "wake")
    /\ UNCHANGED <<state, links, group, winner, parkSeq, event>>

\* WakeBatch::wake delivers one wake after the other, outside the queue lock,
\* and asserts that none of them is stale.
Wake(a) ==
    /\ pc[a] = "wake"
    /\ LET target == Head(batch[a])
       IN  /\ Wakeable(target.thread, target.seq)
           /\ parkState' = [parkState EXCEPT ![target.thread] = "idle"]
    /\ batch' = [batch EXCEPT ![a] = Tail(@)]
    /\ Goto(a, IF Len(batch[a]) = 1 THEN "idle" ELSE "wake")
    /\ UNCHANGED <<state, links, group, winner, parkSeq, event>>

-----------------------------------------------------------------------------
Waiting(w) ==
    \/ ReturnEarly(w) \/ ScanNext(w) \/ Prepare(w)
    \/ StopRegistering(w) \/ RegisterRefused(w) \/ RegisterCheck(w)
    \/ Publish(w) \/ PublishUndo(w) \/ ClaimRefused(w) \/ ClaimLost(w)
    \/ ConditionFails(w) \/ ConditionHolds(w)
    \/ Park(w) \/ ParkRefused(w) \/ Resume(w) \/ Unregister(w)

Waking(a) == NotifyWake(a) \/ ClaimAll(a) \/ ClaimOne(a) \/ Wake(a)

Next ==
    \/ \E w \in Waiters : \/ \E l \in WaitLists : Call(w, l)
                          \/ \E e \in SequenceEvents : Observe(w, e)
                          \/ Waiting(w)
    \/ \E a \in Wakers :
          \/ \E e \in Events \ SequenceEvents :
                Signal(a, e) \/ Reset(a, e) \/ WakeOne(a, e) \/ WakeAll(a, e)
          \/ \E e \in SequenceEvents : Notify(a, e)
          \/ Waking(a)

Spec == Init /\ [][Next]_vars

-----------------------------------------------------------------------------
(* Properties *)

\* QUEUED is exact outside the queue lock: a waker that finds it clear has
\* nobody to wake, one that finds it set does not visit an empty queue for ever.
QueuedBitExact ==
    \A e \in Events : guard[e] = None => (queuedBit[e] <=> queue[e] # <<>>)

\* The assert "claimed waiter had a stale park sequence": each claimed group
\* is woken exactly once, by its claimant, before its thread can return.
ClaimedWakesFresh ==
    \A a \in Wakers : \A i \in DOMAIN batch[a] :
        Wakeable(batch[a][i].thread, batch[a][i].seq)

\* Registrations and groups live on the waiter's stack: outside a wait a
\* thread is linked in no queue and no waker still holds its group.
NoDanglingRegistration ==
    \A w \in Waiters : pc[w] \in {"idle", "scan"} =>
        /\ \A e \in Events : \A i \in DOMAIN queue[e] : queue[e][i] # w
        /\ \A a \in Wakers : \A i \in DOMAIN batch[a] : batch[a][i].thread # w

\* The expect "wait resumed without a claimed event": a wait ends only after
\* one of its own events claimed it.
WinnerOnReturn ==
    \A w \in Waiters : pc[w] = "unregister" =>
        \E i \in DOMAIN list[w] : winner[w] = list[w][i]

\* A persistent signal is never missed: no unclaimed waiter stays linked to a
\* signaled event unless a waker is about to claim that event's queue.
NoMissedSignal ==
    \A e \in Events :
        signaled[e] /\ (\E i \in DOMAIN queue[e] : Unclaimed(queue[e][i]))
            => \E a \in Wakers : pc[a] = "claimall" /\ event[a] = e

\* SequenceEvent: nobody sleeps on an out-of-date ticket unless a notifier is
\* still on its way to wake the queue.
NoMissedNotify ==
    \A w \in Waiters :
        pc[w] = "parked" /\ Unclaimed(w) /\ ticket[w] # None
                         /\ ticket[w] # generation[list[w][1]]
            => \E a \in Wakers : pc[a] \in {"notify", "claimall"} /\ event[a] = list[w][1]

\* A thread waiting on an event that is signaled and stays so returns, and a
\* notification ends every wait on a ticket taken before it.
WaitEnds(w, e) ==
    (pc[w] # "idle" /\ signaled[e] /\ \E i \in DOMAIN list[w] : list[w][i] = e)
        ~> (pc[w] = "idle" \/ ~signaled[e])
TicketEnds(w) ==
    (pc[w] # "idle" /\ ticket[w] # None /\ ticket[w] # generation[list[w][1]])
        ~> pc[w] = "idle"
=============================================================================
