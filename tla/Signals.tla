------------------------------- MODULE Signals -------------------------------
(***************************************************************************)
(* The signal state of one process, kernel/src/proc/signal.rs: queueing,   *)
(* masks, sigsuspend, sigtimedwait, signalfd, delivery on the way to user  *)
(* mode, stopping and continuing.  Dispositions, queue and mask belong to  *)
(* the process and are shared by its threads.  A critical section of       *)
(* SignalManager::state is one step.                                       *)
(***************************************************************************)
EXTENDS LevelEvent, Integers, Sequences, FiniteSets, SequencesExt

CONSTANTS
    Threads,        \* of the process
    Senders,        \* other threads of the system
    Kill, Stop,     \* SIGKILL and SIGSTOP
    Tstp, Cont,     \* a job-control stop, SIGCONT
    Usr, Chld,      \* a signal that kills by default, one that is ignored
    Used,           \* bound: the signals sent
    Masks,          \* bound: the masks user code passes
    Handlers,       \* bound: how many dispositions user code changes
    MaxParks,       \* bound: prepared parks per thread
    None

Signals == {Kill, Stop, Tstp, Cont, Usr, Chld}
Unblockable == {Kill, Stop}
IsStop(s) == s \in {Stop, Tstp}
DefaultIgnored(s) == s \in {Chld, Cont}

VARIABLES
    actions, pending, mask, saved, stopped,     \* SignalState; saved is suspend_restore_mask
    hint,                                       \* SignalManager::pending_work
    event,                                      \* SignalManager::event
    parkState, parkSeq,                         \* the threads' park words
    taken, active, restore,                     \* locals of deliver_pending
    frames,                                     \* the masks in a thread's signal frames
    call, waited,                               \* a blocking call and the set it waits for
    waking,                                     \* the stopped thread a sender must wake
    chosen,                                     \* history: the mask user code chose last
    changes, pc

state == <<actions, pending, mask, saved, stopped, hint, event>>
parking == <<parkState, parkSeq>>
delivery == <<taken, active, restore>>
vars == <<state, parking, delivery, frames, call, waited, waking, chosen, changes, pc>>

Dispositions == {"default", "ignore", "handler"}
Info == [signal : Signals, sync : BOOLEAN]

TypeOK ==
    /\ actions \in [Signals -> Dispositions]
    /\ pending \in Seq(Info)
    /\ mask \subseteq Signals \ Unblockable
    /\ saved \in SUBSET Signals \cup {None}
    /\ stopped \in (Threads \X Nat) \cup {None}
    /\ hint \in BOOLEAN
    /\ event \in EventOf(Threads)
    /\ parkState \in [Threads -> {"idle", "waiting", "parked"}]
    /\ parkSeq \in [Threads -> 0 .. MaxParks]
    /\ taken \in [Threads -> Signals \cup {None}]
    /\ active \in [Threads -> SUBSET Signals]
    /\ restore \in [Threads -> SUBSET Signals]
    /\ frames \in [Threads -> Seq(SUBSET Signals)]
    /\ call \in [Threads -> {"suspend", "timed", "read"}]
    /\ waited \in [Threads -> SUBSET Signals]
    /\ waking \in [Senders -> (Threads \X Nat) \cup {None}]
    /\ chosen \subseteq Signals
    /\ changes \in 0 .. Handlers

Init ==
    /\ actions = [s \in Signals |-> "default"]
    /\ pending = <<>> /\ mask = {} /\ saved = None /\ stopped = None
    /\ hint = FALSE /\ event = NewEvent
    /\ parkState = [t \in Threads |-> "idle"] /\ parkSeq = [t \in Threads |-> 0]
    /\ taken = [t \in Threads |-> None]
    /\ active = [t \in Threads |-> {}] /\ restore = [t \in Threads |-> {}]
    /\ frames = [t \in Threads |-> <<>>]
    /\ call = [t \in Threads |-> "suspend"]
    /\ waited = [t \in Threads |-> {}]
    /\ waking = [k \in Senders |-> None]
    /\ chosen = {} /\ changes = 0
    /\ pc = [t \in Threads |-> "user"]

Goto(t, label) == pc' = [pc EXCEPT ![t] = label]
Queued(s) == \E i \in DOMAIN pending : pending[i].signal = s
Pending(P(_)) == {i \in DOMAIN pending : P(pending[i])}
First(S) == CHOOSE i \in S : \A j \in S : i <= j

Passes(info) == info.sync \/ info.signal \in Unblockable \/ info.signal \notin mask
Interrupts(info) ==
    /\ Passes(info)
    /\ actions[info.signal] # "ignore"
    /\ ~(actions[info.signal] = "default" /\ DefaultIgnored(info.signal))

\* pending without entry i; an empty queue resets the event.
Dequeue(i) ==
    /\ pending' = RemoveAt(pending, i)
    /\ event' = IF Len(pending) = 1 THEN Reset(event) ELSE event

-----------------------------------------------------------------------------
(* Sending *)

\* What is left of the queue when s arrives: a continue or a kill discards the
\* stops, a stop discards the continue.
Flushed(s) ==
    CASE s \in {Cont, Kill} -> SelectSeq(pending, LAMBDA info : ~IsStop(info.signal))
      [] IsStop(s)          -> SelectSeq(pending, LAMBDA info : info.signal # Cont)
      [] OTHER              -> pending

\* SignalManager::enqueue: an ignored or already pending signal is dropped.
Enqueue(s, sync) ==
    LET queue == Flushed(s)
        wanted == /\ (actions[s] # "ignore" \/ s \in Unblockable)
                  /\ \A i \in DOMAIN queue : queue[i].signal # s
    IN  /\ pending' = IF wanted THEN Append(queue, [signal |-> s, sync |-> sync]) ELSE queue
        /\ hint' = (hint \/ wanted)
        /\ event' = IF wanted THEN Signal(event) ELSE event
        /\ stopped' = IF s \in {Cont, Kill} THEN None ELSE stopped

\* kill and the kernel's own signals.
Send(k, s) ==
    /\ waking[k] = None
    /\ Enqueue(s, FALSE)
    /\ waking' = [waking EXCEPT ![k] = IF s \in {Cont, Kill} THEN stopped ELSE @]
    /\ UNCHANGED <<actions, mask, saved, parking, delivery, frames, call, waited, chosen, changes,
                   pc>>

\* The stopped thread is woken outside the lock, unless its park is over.
Wake(k) ==
    /\ waking[k] # None
    /\ LET t == waking[k][1]
       IN parkState' = [parkState EXCEPT ![t] = IF parkSeq[t] = waking[k][2] THEN "idle" ELSE @]
    /\ waking' = [waking EXCEPT ![k] = None]
    /\ UNCHANGED <<state, parkSeq, delivery, frames, call, waited, chosen, changes, pc>>

\* send_current: a fault of the thread itself, delivered whatever the mask.
Fault(t) ==
    /\ pc[t] = "user"
    /\ Enqueue(Usr, TRUE)
    /\ Goto(t, "deliver")
    /\ UNCHANGED <<actions, mask, saved, parking, delivery, frames, call, waited, waking, chosen,
                   changes>>

-----------------------------------------------------------------------------
(* System calls; each ends on the way back to user mode *)

\* sigaction: ignoring a signal discards it.
SetAction(t, s, a) ==
    /\ pc[t] = "user" /\ s \notin Unblockable
    /\ changes < Handlers
    /\ changes' = changes + 1
    /\ actions' = [actions EXCEPT ![s] = a]
    /\ pending' = IF a = "ignore" THEN SelectSeq(pending, LAMBDA info : info.signal # s)
                  ELSE pending
    /\ Goto(t, "deliver")
    /\ UNCHANGED <<mask, saved, stopped, hint, event, parking, delivery, frames, call, waited,
                   waking, chosen>>

\* sigprocmask
UpdateMask(t, how, m) ==
    LET new == CASE how = "block"   -> mask \cup m
                 [] how = "unblock" -> mask \ m
                 [] how = "set"     -> m
    IN  /\ pc[t] = "user"
        /\ mask' = new \ Unblockable
        /\ chosen' = IF frames[t] = <<>> THEN mask' ELSE chosen
        /\ Goto(t, "deliver")
        /\ UNCHANGED <<actions, pending, saved, stopped, hint, event, parking, delivery, frames,
                       call, waited, waking, changes>>

\* sigsuspend: begin_suspend saves the mask for the delivery that ends it.
Suspend(t, m) ==
    /\ pc[t] = "user"
    /\ saved' = IF saved = None THEN mask ELSE saved
    /\ mask' = m \ Unblockable
    /\ hint' = TRUE
    /\ call' = [call EXCEPT ![t] = "suspend"]
    /\ Goto(t, "check")
    /\ UNCHANGED <<actions, pending, stopped, event, parking, delivery, frames, waited, waking,
                   chosen, changes>>

\* The signals a blocked call wants, and those that interrupt it.
Wanted(t) == IF call[t] = "suspend" THEN {} ELSE Pending(LAMBDA info : info.signal \in waited[t])
Interrupting(t) ==
    CASE call[t] = "suspend" -> Pending(Interrupts)
      [] call[t] = "timed"   -> Pending(Passes)
      [] OTHER               -> {}

\* sigtimedwait and a read of a signalfd, for the signals of a set.
WaitFor(t, kind, m) ==
    /\ pc[t] = "user" /\ m \ Unblockable # {}
    /\ waited' = [waited EXCEPT ![t] = m \ Unblockable]
    /\ call' = [call EXCEPT ![t] = kind]
    /\ Goto(t, "check")
    /\ UNCHANGED <<state, parking, delivery, frames, waking, chosen, changes>>

\* prepare_signal_wait and take_matching_with consume the first match; a read
\* takes further records only if they are there.
WaitTake(t) ==
    /\ pc[t] = "check" /\ Wanted(t) # {}
    /\ Dequeue(First(Wanted(t)))
    /\ Goto(t, "deliver")
    /\ UNCHANGED <<actions, mask, saved, stopped, hint, parking, delivery, frames, call, waited,
                   waking, chosen, changes>>

\* prepare_interrupt_wait or prepare_signal_wait finds a signal that interrupts.
WaitInterrupted(t) ==
    /\ pc[t] = "check" /\ Wanted(t) = {} /\ Interrupting(t) # {}
    /\ Goto(t, "deliver")
    /\ UNCHANGED <<state, parking, delivery, frames, call, waited, waking, chosen, changes>>

\* The time is up; a read finds nothing and does not block, or its buffer faults
\* and the signal stays pending.
WaitFails(t) ==
    /\ \/ pc[t] \in {"wait", "sleep"} /\ call[t] = "timed"
       \/ pc[t] = "check" /\ call[t] = "read"
    /\ event' = [event EXCEPT !.waiters = @ \ {t}]
    /\ Goto(t, "deliver")
    /\ UNCHANGED <<actions, pending, mask, saved, stopped, hint, parking, delivery, frames, call,
                   waited, waking, chosen, changes>>

\* Nothing to return for: the level is reset inside the lock...
WaitBlock(t) ==
    /\ pc[t] = "check" /\ Wanted(t) = {} /\ Interrupting(t) = {}
    /\ event' = Reset(event)
    /\ Goto(t, "wait")
    /\ UNCHANGED <<actions, pending, mask, saved, stopped, hint, parking, delivery, frames, call,
                   waited, waking, chosen, changes>>

\* ...and the thread sleeps on it outside.
WaitSleep(t) ==
    /\ pc[t] = "wait"
    /\ event' = Join(event, t)
    /\ Goto(t, "sleep")
    /\ UNCHANGED <<actions, pending, mask, saved, stopped, hint, parking, delivery, frames, call,
                   waited, waking, chosen, changes>>

WaitWake(t) ==
    /\ pc[t] = "sleep" /\ ~Asleep(event, t)
    /\ Goto(t, "check")
    /\ UNCHANGED <<state, parking, delivery, frames, call, waited, waking, chosen, changes>>

-----------------------------------------------------------------------------
(* Delivery: rsignal_return and deliver_pending *)

\* Any interrupt or system call returns to user mode through here.
Trap(t) ==
    /\ pc[t] = "user"
    /\ Goto(t, "deliver")
    /\ UNCHANGED <<state, parking, delivery, frames, call, waited, waking, chosen, changes>>

\* pending_work is loaded without the lock.  A process that was killed ends
\* its other threads here.
Hint(t) ==
    /\ pc[t] = "deliver"
    /\ Goto(t, IF \E u \in Threads : pc[u] = "dead" THEN "dead"
               ELSE IF hint THEN "take" ELSE "user")
    /\ UNCHANGED <<state, parking, delivery, frames, call, waited, waking, chosen, changes>>

\* take_deliverable
TakeDeliverable(t) ==
    /\ pc[t] = "take" /\ Pending(Passes) # {}
    /\ taken' = [taken EXCEPT ![t] = pending[First(Pending(Passes))].signal]
    /\ Dequeue(First(Pending(Passes)))
    /\ Goto(t, "act")
    /\ UNCHANGED <<actions, mask, saved, stopped, hint, parking, active, restore, frames, call,
                   waited, waking, chosen, changes>>

\* take_suspend_restore_mask: the hint goes only with an empty queue.
TakeSaved(t) ==
    /\ restore' = [restore EXCEPT ![t] = IF saved = None THEN active[t] ELSE saved]
    /\ saved' = None
    /\ hint' = (hint /\ pending # <<>>)

\* Nothing can be delivered: a saved mask is put back, in a second section.
NothingToDeliver(t) ==
    /\ pc[t] = "take" /\ Pending(Passes) = {}
    /\ TakeSaved(t)
    /\ Goto(t, IF saved = None THEN "user" ELSE "restore")
    /\ UNCHANGED <<actions, pending, mask, stopped, event, parking, taken, active, frames, call,
                   waited, waking, chosen, changes>>

RestoreMask(t) ==
    /\ pc[t] = "restore"
    /\ mask' = restore[t] \ Unblockable
    /\ Goto(t, "user")
    /\ UNCHANGED <<actions, pending, saved, stopped, hint, event, parking, delivery, frames, call,
                   waited, waking, chosen, changes>>

\* What the disposition says of the taken signal.
Act(t) ==
    LET s == taken[t]
        a == actions[s]
        stops == s = Stop \/ (a = "default" /\ IsStop(s))
        ignored == a = "ignore" \/ (a = "default" /\ DefaultIgnored(s))
    IN  /\ pc[t] = "act"
        /\ \/ /\ s # Kill /\ stops
              /\ parkSeq[t] < MaxParks
              /\ parkState' = [parkState EXCEPT ![t] = "waiting"]
              /\ parkSeq' = [parkSeq EXCEPT ![t] = @ + 1]
              /\ Goto(t, "mark")
           \/ /\ s = Kill \/ ~stops
              /\ Goto(t, IF s = Kill THEN "dead" ELSE IF ignored THEN "take"
                         ELSE IF a = "default" THEN "dead" ELSE "readMask")
              /\ UNCHANGED parking
        /\ UNCHANGED <<state, delivery, frames, call, waited, waking, chosen, changes>>

\* mark_stopped, after the park was prepared.  A lock held by somebody else is
\* waited for with a park of its own, which the holder's unlock ends: the stop's
\* sequence is out of date, park_current refuses it and the stop is dropped.
MarkStopped(t, contended) ==
    /\ pc[t] = "mark"
    /\ stopped' = <<t, parkSeq[t]>>
    /\ IF contended
       THEN /\ parkSeq[t] < MaxParks
            /\ parkSeq' = [parkSeq EXCEPT ![t] = @ + 1]
            /\ parkState' = [parkState EXCEPT ![t] = "idle"]
       ELSE UNCHANGED parking
    /\ Goto(t, "park")
    /\ UNCHANGED <<actions, pending, mask, saved, hint, event, delivery, frames, call, waited,
                   waking, chosen, changes>>

\* park_current, unless a wake came first or the sequence is out of date.
Park(t) ==
    /\ pc[t] = "park" /\ parkState[t] = "waiting"
    /\ parkState' = [parkState EXCEPT ![t] = "parked"]
    /\ UNCHANGED <<state, parkSeq, delivery, frames, call, waited, waking, chosen, changes, pc>>

Resume(t) ==
    /\ pc[t] = "park" /\ parkState[t] = "idle"
    /\ Goto(t, "take")
    /\ UNCHANGED <<state, parking, delivery, frames, call, waited, waking, chosen, changes>>

\* A handler runs: the mask is read, the saved mask taken and the handler's mask
\* set in three critical sections.
ReadMask(t) ==
    /\ pc[t] = "readMask"
    /\ active' = [active EXCEPT ![t] = mask]
    /\ Goto(t, "takeSaved")
    /\ UNCHANGED <<state, parking, taken, restore, frames, call, waited, waking, chosen, changes>>

HandlerSaved(t) ==
    /\ pc[t] = "takeSaved"
    /\ TakeSaved(t)
    /\ Goto(t, "setMask")
    /\ UNCHANGED <<actions, pending, mask, stopped, event, parking, taken, active, frames, call,
                   waited, waking, chosen, changes>>

\* The action's mask m is added; SA_NODEFER leaves the signal itself deliverable.
HandlerMask(t, nodefer, m) ==
    /\ pc[t] = "setMask"
    /\ mask' = (active[t] \cup m \cup (IF nodefer THEN {} ELSE {taken[t]})) \ Unblockable
    /\ Goto(t, "frame")
    /\ UNCHANGED <<actions, pending, saved, stopped, hint, event, parking, delivery, frames, call,
                   waited, waking, chosen, changes>>

\* Mutant: the frame records the mask the handler was entered under.
WriteFrameActive(t, reset) ==
    /\ pc[t] = "frame" /\ Len(frames[t]) < 2
    /\ actions' = IF reset THEN [actions EXCEPT ![taken[t]] = "default"] ELSE actions
    /\ frames' = [frames EXCEPT ![t] = Append(@, active[t])]
    /\ Goto(t, "user")
    /\ UNCHANGED <<pending, mask, saved, stopped, hint, event, parking, delivery, call, waited,
                   waking, chosen, changes>>

\* SA_RESETHAND, then the frame with the mask to go back to.
WriteFrame(t, reset) ==
    /\ pc[t] = "frame" /\ Len(frames[t]) < 2
    /\ actions' = IF reset THEN [actions EXCEPT ![taken[t]] = "default"] ELSE actions
    /\ frames' = [frames EXCEPT ![t] = Append(@, restore[t])]
    /\ Goto(t, "user")
    /\ UNCHANGED <<pending, mask, saved, stopped, hint, event, parking, delivery, call, waited,
                   waking, chosen, changes>>

\* The user stack is bad: SIGSEGV ends the process.
FrameFault(t) ==
    /\ pc[t] = "frame"
    /\ Goto(t, "dead")
    /\ UNCHANGED <<state, parking, delivery, frames, call, waited, waking, chosen, changes>>

\* restore_signal_frame
SignalReturn(t) ==
    /\ pc[t] = "user" /\ frames[t] # <<>>
    /\ mask' = Last(frames[t]) \ Unblockable
    /\ frames' = [frames EXCEPT ![t] = Front(@)]
    /\ Goto(t, "deliver")
    /\ UNCHANGED <<actions, pending, saved, stopped, hint, event, parking, delivery, call, waited,
                   waking, chosen, changes>>

\* exec, of a process with one thread: reset_for_exec.
Exec(t) ==
    /\ pc[t] = "user" /\ Cardinality(Threads) = 1
    /\ actions' = [s \in Signals |-> IF actions[s] = "ignore" THEN "ignore" ELSE "default"]
    /\ saved' = None /\ stopped' = None
    /\ frames' = [frames EXCEPT ![t] = <<>>]
    /\ chosen' = mask
    /\ Goto(t, "deliver")
    /\ UNCHANGED <<pending, mask, hint, event, parking, delivery, call, waited, waking, changes>>

-----------------------------------------------------------------------------
Blocked(t) ==
    \/ WaitTake(t) \/ WaitInterrupted(t) \/ WaitFails(t) \/ WaitBlock(t) \/ WaitSleep(t)
    \/ WaitWake(t)
Delivering(t) ==
    \/ Hint(t) \/ TakeDeliverable(t) \/ NothingToDeliver(t) \/ RestoreMask(t) \/ Act(t)
    \/ Park(t) \/ Resume(t) \/ ReadMask(t) \/ HandlerSaved(t) \/ FrameFault(t)
    \/ \E b \in BOOLEAN :
          \/ MarkStopped(t, b) \/ WriteFrame(t, b)
          \/ \E m \in Masks \cup {{}} : HandlerMask(t, b, m)

Next ==
    \/ \E k \in Senders : Wake(k) \/ \E s \in Used : Send(k, s)
    \/ \E t \in Threads :
          \/ Fault(t) \/ Trap(t) \/ SignalReturn(t) \/ Exec(t)
          \/ \E s \in Used, a \in Dispositions : SetAction(t, s, a)
          \/ \E m \in Masks :
                \/ Suspend(t, m)
                \/ \E how \in {"block", "unblock", "set"} : UpdateMask(t, how, m)
                \/ \E kind \in {"timed", "read"} : WaitFor(t, kind, m)
          \/ Blocked(t) \/ Delivering(t)

Spec == Init /\ [][Next]_vars

-----------------------------------------------------------------------------
(* Properties *)

\* "only an empty queue with no saved mask clears it" (deliver_pending): whoever
\* skips the lock because pending_work is clear misses nothing.
HintCovers == pending # <<>> \/ saved # None => hint

\* When no other thread uses the event, a thread does not sleep in sigsuspend
\* next to a signal with an effect, nor in sigtimedwait next to a signal of its
\* set or one the mask lets through, nor in a read of a signalfd next to a signal
\* of its set.  A read sleeps through every other signal, SIGKILL included:
\* SignalFd::read looks only at its own mask.
SleepIsJustified ==
    \A t \in Threads : Asleep(event, t) =>
        \A i \in DOMAIN pending :
            CASE call[t] = "suspend" -> ~Interrupts(pending[i])
              [] call[t] = "timed"   -> /\ pending[i].signal \notin waited[t]
                                        /\ ~Passes(pending[i])
              [] call[t] = "read"    -> pending[i].signal \notin waited[t]

\* sigsuspend, handlers and their returns leave the mask user code chose,
\* whatever signals arrive in between.
MaskRestored ==
    \A t \in Threads : pc[t] = "user" /\ frames[t] = <<>> => mask = chosen /\ saved = None

\* A thread that did stop can be continued: SIGCONT and SIGKILL find its park, or
\* a sender that took it is about to wake it.
StoppedIsRecorded ==
    \A t \in Threads : parkState[t] = "parked" =>
        LET park == <<t, parkSeq[t]>> IN stopped = park \/ \E k \in Senders : waking[k] = park

\* "Delivers one pending signal before returning to userspace" (deliver_pending):
\* a thread does not stay stopped with a SIGKILL in the queue.
NotStoppedUnderKill ==
    \A t \in Threads : parkState[t] = "parked" /\ Queued(Kill) =>
        \E k \in Senders : waking[k] = <<t, parkSeq[t]>>
=============================================================================
