-------------------------------- MODULE Sched --------------------------------
(***************************************************************************)
(* The per-CPU scheduler of kernel/src/sys/sched.rs: trap return, parking, *)
(* waking, stealing, exit and reaping, with the park words of thread.rs.   *)
(*                                                                         *)
(* Each critical section of a per-CPU lock (or of a pair of them) is one   *)
(* step; everything the code does between two critical sections happens    *)
(* between two steps.  exec says on which thread's kernel stack a CPU is   *)
(* really executing, which lags behind current until the trap returns.     *)
(*                                                                         *)
(* Threads are in the ithread and interactive ranges, whose run-queue      *)
(* bucket is the priority itself, so a run queue is one sequence in        *)
(* picking order.  Time slices are a nondeterministic tick; of the local   *)
(* timer only whether it is armed is kept.  A request for an interrupt is  *)
(* made in the step of the critical section it follows, and CpuKick::      *)
(* Deadline, which only moves an armed deadline, is left out.              *)
(***************************************************************************)
EXTENDS Integers, Sequences, FiniteSets

CONSTANTS
    Cpus, Threads, Wakers,
    BootCpu,        \* the CPU that is online from the start
    Idle,           \* stands for each CPU's own idle thread
    None,
    BasePriority,   \* scheduling priority without a loan, lower is better
    Lent,           \* the priority lent to a lock holder
    Boostable,      \* threads that may hold a contended lock
    NonPreemptible, \* threads that use disable_preemption
    NoMigrate,      \* threads that must stay on their CPU
    NoLoad,         \* threads that do not count towards load
    Maintainer,     \* the maintenance thread, or None if it is left out
    MaxParks        \* bound: how often one thread parks

MinKern == 40
MaxInteract == 114
IdlePriority == 255
StealThreshold == 2

ASSUME SchedAssumption ==
    /\ BootCpu \in Cpus
    /\ Idle # None /\ {Idle, None} \cap Threads = {} /\ None \notin Cpus
    /\ BasePriority \in [Threads -> 0 .. MaxInteract] /\ Lent \in 0 .. MaxInteract
    /\ Boostable \subseteq Threads /\ NonPreemptible \subseteq Threads
    /\ NoMigrate \subseteq Threads /\ NoLoad \subseteq Threads
    /\ Maintainer \in Threads \cup {None}
    /\ MaxParks \in Nat

VARIABLES
    cpuOf,          \* Thread::cpu
    priority,       \* Thread::priority
    state,          \* Thread::state; "unborn" and "freed" outside its lifetime
    sliceEnd,       \* threads with ThreadFlags::SLICEEND
    parkState, parkSeq,
    at,             \* where the thread's own code is
    runq, current, unwinding, deferred, exited, online, load, needResched,
    reachable,      \* CpuRecord::online: IPIs are accepted
    notice,         \* trap_return holds a ReapNotice it has not dropped yet
    preemptOff,     \* preempt_depth is not zero
    preemptPending,
    kick,           \* the interrupt on its way to the CPU: an IPI that asks
                    \* for a reschedule, or one the CPU raised for itself
    timer,          \* the scheduler deadline of the CPU is armed
    missed,         \* history: since the CPU's last trap a kick it needed was
                    \* requested and not sent
    exec,           \* the kernel stack the CPU executes on
    pc,             \* where the CPU is in trap_return or exit_current
    task            \* a waker between the park word and the run-queue lock

thread == <<cpuOf, state, sliceEnd>>
park == <<parkState, parkSeq>>
policy == <<priority, preemptOff, preemptPending>>
exits == <<deferred, exited, notice>>
flags == <<online, reachable, kick, timer, missed>>
vars == <<policy, thread, park, at, runq, current, unwinding, exits, load, needResched,
          flags, exec, pc, task>>

Contexts == Threads \cup {Idle, None}

TypeOK ==
    /\ cpuOf \in [Threads -> Cpus]
    /\ state \in [Threads -> {"unborn", "Ready", "Running", "Blocked", "Exited", "freed"}]
    /\ sliceEnd \subseteq Threads
    /\ priority \in [Threads -> 0 .. MaxInteract]
    /\ preemptOff \in [Cpus -> BOOLEAN] /\ preemptPending \in [Cpus -> BOOLEAN]
    /\ parkState \in [Threads -> {"idle", "waiting", "parked"}]
    /\ parkSeq \in [Threads -> 0 .. MaxParks]
    /\ at \in [Threads -> {"entry", "run", "prepared", "parked"}]
    /\ runq \in [Cpus -> Seq(Threads)]
    /\ current \in [Cpus -> Contexts] /\ unwinding \in [Cpus -> Contexts]
    /\ deferred \in [Cpus -> Threads \cup {None}]
    /\ exited \in [Cpus -> SUBSET Threads]
    /\ online \in [Cpus -> BOOLEAN] /\ needResched \in [Cpus -> BOOLEAN]
    /\ reachable \in [Cpus -> BOOLEAN] /\ notice \in [Cpus -> BOOLEAN]
    /\ kick \in [Cpus -> {"none", "self", "ipi"}]
    /\ timer \in [Cpus -> BOOLEAN] /\ missed \in [Cpus -> BOOLEAN]
    /\ load \in [Cpus -> Nat]
    /\ exec \in [Cpus -> Contexts]
    /\ pc \in [Cpus -> {"off", "run", "trap", "idlepull", "steal", "exitpull",
                         "pick", "switch", "return"}]
    /\ task \in [Wakers -> [thread : Threads, owner : Cpus, target : Cpus,
                             irq : Cpus \cup {None}] \cup {None}]

Init ==
    /\ cpuOf = [t \in Threads |-> BootCpu]
    /\ state = [t \in Threads |-> "unborn"]
    /\ sliceEnd = {}
    /\ priority = BasePriority
    /\ preemptOff = [c \in Cpus |-> FALSE] /\ preemptPending = [c \in Cpus |-> FALSE]
    /\ parkState = [t \in Threads |-> "idle"] /\ parkSeq = [t \in Threads |-> 0]
    /\ at = [t \in Threads |-> "entry"]
    /\ runq = [c \in Cpus |-> <<>>]
    /\ current = [c \in Cpus |-> None] /\ unwinding = [c \in Cpus |-> None]
    /\ deferred = [c \in Cpus |-> None] /\ exited = [c \in Cpus |-> {}]
    /\ online = [c \in Cpus |-> c = BootCpu]
    /\ load = [c \in Cpus |-> 0]
    /\ reachable = [c \in Cpus |-> c = BootCpu] /\ notice = [c \in Cpus |-> FALSE]
    /\ needResched = [c \in Cpus |-> FALSE] /\ kick = [c \in Cpus |-> "none"]
    /\ timer = [c \in Cpus |-> FALSE] /\ missed = [c \in Cpus |-> FALSE]
    /\ exec = [c \in Cpus |-> None]
    /\ pc = [c \in Cpus |-> "off"]
    /\ task = [w \in Wakers |-> None]

Goto(c, label) == pc' = [pc EXCEPT ![c] = label]

-----------------------------------------------------------------------------
(* Run queues, load and preemption *)

PriorityOf(x) == IF x \in Threads THEN priority[x] ELSE IdlePriority

\* RunQueue::push at the back, or for a preempted thread at the front, of the
\* bucket of the thread's priority.
PushBack(q, t) ==
    SelectSeq(q, LAMBDA u : priority[u] <= priority[t]) \o <<t>>
        \o SelectSeq(q, LAMBDA u : priority[u] > priority[t])
PushFront(q, t) ==
    SelectSeq(q, LAMBDA u : priority[u] < priority[t]) \o <<t>>
        \o SelectSeq(q, LAMBDA u : priority[u] >= priority[t])
Remove(q, t) == SelectSeq(q, LAMBDA u : u # t)
Linked(c, t) == \E i \in DOMAIN runq[c] : runq[c][i] = t

Weight(t) == IF t \in NoLoad THEN 0 ELSE 1

\* release_thread uses a saturating subtraction.
Less(n, k) == IF n < k THEN 0 ELSE n - k

\* should_preempt, with no thread in the batch range.
ShouldPreempt(p, x) ==
    p < PriorityOf(x) /\ (x = Idle \/ p < MinKern)

\* Mutant: an idle CPU is left to find the work at its next interrupt.
MustKickBusy(c, p) ==
    current[c] # None /\ p < PriorityOf(current[c]) /\ p < MinKern

\* consider_preemption: a better priority asks for a reschedule, and a kick if
\* it may preempt at once.
WantsCpu(c, p) == current[c] # None /\ p < PriorityOf(current[c])
MustKick(c, p) == WantsCpu(c, p) /\ ShouldPreempt(p, current[c])

\* consider_wakeup_preemption adds: a latency-sensitive sleeper also preempts a
\* running timeshare thread of its own priority.
WakeupPreempts(c, t, latencySensitive) ==
    \/ MustKick(c, priority[t])
    \/ /\ latencySensitive
       /\ current[c] \in Threads
       /\ priority[current[c]] = priority[t] /\ priority[t] >= MinKern
       /\ state[current[c]] = "Running"

-----------------------------------------------------------------------------
(* Kicks *)

\* A thread executes its own code when its CPU is on its stack outside a trap.
Executing(c, t) == pc[c] = "run" /\ exec[c] = t /\ state[t] = "Running"

Requests == {"ipi", "self"}

\* How thread code asks CPU c to reschedule: an IPI from another CPU that has
\* started, which threads outside the model may run on, or arch::reschedule (or
\* a timer deadline of now) on c itself.
ThreadVias(c) ==
    {"ipi" : d \in {d \in Cpus \ {c} : exec[d] # None}}
        \cup {"self" : t \in {t \in Threads : Executing(c, t) /\ at[t] = "run"}}

\* kick_cpu: send_ipi reaches no CPU that is not marked online yet
\* (queue_ipi_job), and a request of c's own interrupt handler ("irq") is left
\* to the end of the trap.
Sent(c, via) == via = "self" \/ (via = "ipi" /\ reachable[c])

KickCpu(c, via, wanted) ==
    /\ kick' = IF wanted /\ Sent(c, via) /\ kick[c] # "ipi"
               THEN [kick EXCEPT ![c] = via] ELSE kick
    /\ missed' = [missed EXCEPT ![c] =
                     \/ @
                     \/ /\ wanted /\ ~Sent(c, via)
                        /\ via = "irq" => pc[c] \in {"switch", "return"}]

\* A wake runs inside an interrupt of CPU c, which cannot go on meanwhile.
Serving(c) == \E w \in Wakers : task[w] # None /\ task[w].irq = c

-----------------------------------------------------------------------------
(* Thread code *)

\* spawn, enqueue_new_thread: an online CPU adopts the new thread, on behalf of
\* a running thread or at bootstrap.
Spawn(t, c, via) ==
    /\ state[t] = "unborn"
    /\ \/ pc[BootCpu] = "off" /\ c = BootCpu
       \/ \E d \in Cpus, u \in Threads :
             /\ Executing(d, u) /\ at[u] = "run"
             /\ via = IF d = c THEN "self" ELSE "ipi"
    /\ online[c]
    /\ t \in NoMigrate => c = BootCpu
    /\ cpuOf' = [cpuOf EXCEPT ![t] = c]
    /\ state' = [state EXCEPT ![t] = "Ready"]
    /\ runq' = [runq EXCEPT ![c] = PushBack(@, t)]
    /\ load' = [load EXCEPT ![c] = @ + Weight(t)]
    /\ needResched' = [needResched EXCEPT ![c] = @ \/ WantsCpu(c, priority[t])]
    /\ KickCpu(c, via, MustKick(c, priority[t]))
    /\ UNCHANGED <<policy, sliceEnd, park, at, current, unwinding, exits, online, reachable,
                   timer, exec, pc, task>>

\* thread_entry publishes the exit that was deferred on this CPU.
PublishDeferredExit(c) ==
    \E t \in Threads :
        /\ Executing(c, t)
        /\ at[t] = "entry"
        /\ at' = [at EXCEPT ![t] = "run"]
        /\ exited' = [exited EXCEPT ![c] = @ \cup ({deferred[c]} \ {None})]
        /\ deferred' = [deferred EXCEPT ![c] = None]
        /\ UNCHANGED <<policy, thread, park, runq, current, unwinding, notice, load,
                       needResched, flags, exec, pc, task>>

\* prepare_park, as a blocking primitive calls it.
PreparePark(c) ==
    \E t \in Threads :
        /\ Executing(c, t)
        /\ at[t] = "run" /\ ~preemptOff[c]
        /\ parkSeq[t] < MaxParks
        /\ parkSeq' = [parkSeq EXCEPT ![t] = @ + 1]
        /\ parkState' = [parkState EXCEPT ![t] = "waiting"]
        /\ at' = [at EXCEPT ![t] = "prepared"]
        /\ UNCHANGED <<policy, thread, runq, current, unwinding, exits, load, needResched,
                       flags, exec, pc, task>>

\* Mutant: the park word is not checked again under the lock.
ParkCurrentUnchecked(c) ==
    \E t \in Threads :
        /\ Executing(c, t)
        /\ at[t] = "prepared"
        /\ state' = [state EXCEPT ![t] = "Blocked"]
        /\ needResched' = [needResched EXCEPT ![c] = TRUE]
        /\ KickCpu(c, "self", TRUE)
        /\ at' = [at EXCEPT ![t] = "parked"]
        /\ parkState' = [parkState EXCEPT ![t] = IF @ = "waiting" THEN "parked" ELSE @]
        /\ UNCHANGED <<policy, cpuOf, sliceEnd, parkSeq, runq, current, unwinding, exits,
                       load, online, reachable, timer, exec, pc, task>>

\* park_current: mark_parked succeeds, so the thread blocks and spins until the
\* trap it requests takes it off the CPU.
ParkCurrent(c) ==
    \E t \in Threads :
        /\ Executing(c, t)
        /\ at[t] = "prepared"
        /\ parkState[t] = "waiting"
        /\ parkState' = [parkState EXCEPT ![t] = "parked"]
        /\ state' = [state EXCEPT ![t] = "Blocked"]
        /\ needResched' = [needResched EXCEPT ![c] = TRUE]
        /\ KickCpu(c, "self", TRUE)
        /\ at' = [at EXCEPT ![t] = "parked"]
        /\ UNCHANGED <<policy, cpuOf, sliceEnd, parkSeq, runq, current, unwinding, exits,
                       load, online, reachable, timer, exec, pc, task>>

\* park_current: the wake came first.
ParkRefused(c) ==
    \E t \in Threads :
        /\ Executing(c, t)
        /\ at[t] = "prepared"
        /\ parkState[t] # "waiting"
        /\ at' = [at EXCEPT ![t] = "run"]
        /\ UNCHANGED <<policy, thread, park, runq, current, unwinding, exits, load,
                       needResched, flags, exec, pc, task>>

\* The spin in park_current sees the thread Running again.
ParkReturn(c) ==
    \E t \in Threads :
        /\ Executing(c, t)
        /\ at[t] = "parked"
        /\ at' = [at EXCEPT ![t] = "run"]
        /\ UNCHANGED <<policy, thread, park, runq, current, unwinding, exits, load,
                       needResched, flags, exec, pc, task>>

Yield(c) ==
    \E t \in Threads :
        /\ Executing(c, t)
        /\ at[t] = "run"
        /\ sliceEnd' = sliceEnd \cup {t}
        /\ needResched' = [needResched EXCEPT ![c] = TRUE]
        /\ UNCHANGED <<policy, cpuOf, state, park, at, runq, current, unwinding, exits, load,
                       flags, exec, pc, task>>

\* disable_preemption, and the drop of its guard: a reschedule that a trap had
\* to put off is requested again.
DisablePreemption(c) ==
    \E t \in NonPreemptible :
        /\ Executing(c, t)
        /\ at[t] = "run" /\ ~preemptOff[c]
        /\ preemptOff' = [preemptOff EXCEPT ![c] = TRUE]
        /\ UNCHANGED <<priority, preemptPending, thread, park, at, runq, current,
                       unwinding, exits, load, needResched, flags, exec, pc, task>>

EnablePreemption(c) ==
    /\ pc[c] = "run"
    /\ preemptOff[c]
    /\ preemptOff' = [preemptOff EXCEPT ![c] = FALSE]
    /\ preemptPending' = [preemptPending EXCEPT ![c] = FALSE]
    /\ Goto(c, IF preemptPending[c] THEN "trap" ELSE "run")
    /\ UNCHANGED <<priority, thread, park, at, runq, current, unwinding, exits, load,
                   needResched, flags, exec, task>>

\* Mutant: the thread is left in the bucket of its old priority.
ReprioritizeInPlace(t, p) ==
    /\ t \in Boostable
    /\ state[t] \in {"Ready", "Running", "Blocked"}
    /\ priority[t] # p
    /\ priority' = [priority EXCEPT ![t] = p]
    /\ UNCHANGED <<preemptOff, preemptPending, needResched, thread, park, at, runq, current, unwinding, exits,
                   load, flags, exec, pc, task>>

\* reprioritize, under the owning CPU's lock: a queued thread changes bucket, a
\* running one may have to make way.
Reprioritize(t, p) ==
    LET c == cpuOf[t]
    IN  /\ t \in Boostable
        /\ state[t] \in {"Ready", "Running", "Blocked"}
        /\ priority[t] # p
        /\ priority' = [priority EXCEPT ![t] = p]
        /\ LET others == Remove(runq[c], t)
           IN  runq' = IF ~Linked(c, t) THEN runq
                       ELSE [runq EXCEPT ![c] =
                               SelectSeq(others, LAMBDA u : priority[u] <= p) \o <<t>>
                                   \o SelectSeq(others, LAMBDA u : priority[u] > p)]
        /\ needResched' = [needResched EXCEPT ![c] = @ \/
               /\ current[c] = t /\ runq[c] # <<>>
               /\ priority[Head(runq[c])] < p /\ priority[Head(runq[c])] < MinKern]
        /\ UNCHANGED <<preemptOff, preemptPending, thread, park, at, current, unwinding,
                       exits, load, flags, exec, pc, task>>

\* Mutant: the exit is published while the CPU is still on the thread's stack.
ExitCurrentAtOnce(c) ==
    \E t \in Threads :
        /\ Executing(c, t)
        /\ at[t] = "run" /\ ~preemptOff[c]
        /\ exited' = [exited EXCEPT ![c] = @ \cup {t}]
        /\ state' = [state EXCEPT ![t] = "Exited"]
        /\ load' = [load EXCEPT ![c] = Less(@, Weight(t))]
        /\ current' = [current EXCEPT ![c] = None]
        /\ needResched' = [needResched EXCEPT ![c] = FALSE]
        /\ Goto(c, "exitpull")
        /\ UNCHANGED <<policy, cpuOf, sliceEnd, park, at, runq, unwinding, deferred, notice,
                       flags, exec, task>>

\* exit_current: the exit deferred before is published, this one is deferred
\* until the CPU has left the thread's stack.
ExitCurrent(c) ==
    \E t \in Threads :
        /\ Executing(c, t)
        /\ at[t] = "run" /\ ~preemptOff[c]
        /\ exited' = [exited EXCEPT ![c] = @ \cup ({deferred[c]} \ {None})]
        /\ deferred' = [deferred EXCEPT ![c] = t]
        /\ state' = [state EXCEPT ![t] = "Exited"]
        /\ load' = [load EXCEPT ![c] = Less(@, Weight(t))]
        /\ current' = [current EXCEPT ![c] = None]
        /\ needResched' = [needResched EXCEPT ![c] = FALSE]
        /\ Goto(c, "exitpull")
        /\ UNCHANGED <<policy, cpuOf, sliceEnd, park, at, runq, unwinding, notice, flags,
                       exec, task>>

\* reap_exited: the maintenance thread frees a published exit.
Reap(c, t) ==
    /\ t \in exited[c]
    /\ exited' = [exited EXCEPT ![c] = @ \ {t}]
    /\ state' = [state EXCEPT ![t] = "freed"]
    /\ UNCHANGED <<policy, cpuOf, sliceEnd, park, at, runq, current, unwinding, deferred,
                   notice, load, needResched, flags, exec, pc, task>>

-----------------------------------------------------------------------------
(* Trap return *)

\* An interrupt or trap: drain_ipi_queue runs the reschedule request.
Trap(c) ==
    /\ pc[c] = "run"
    /\ needResched' = [needResched EXCEPT ![c] = @ \/ kick[c] = "ipi"]
    /\ kick' = [kick EXCEPT ![c] = "none"]
    /\ missed' = [missed EXCEPT ![c] = FALSE]
    /\ Goto(c, "trap")
    /\ UNCHANGED <<policy, thread, park, at, runq, current, unwinding, exits, load, online,
                   reachable, timer, exec, task>>

Running(x) == x = Idle \/ state[x] = "Running"

\* account_current: a tick that ends the time slice, or a better thread.
SliceOver(c, tick) ==
    tick /\ current[c] \in Threads /\ state[current[c]] = "Running" /\ runq[c] # <<>>
MustSwitch(c, tick) ==
    \/ ~Running(current[c])
    \/ needResched[c]
    \/ current[c] = Idle /\ runq[c] # <<>>
    \/ SliceOver(c, tick)
    \/ runq[c] # <<>> /\ ~tick /\ ShouldPreempt(priority[Head(runq[c])], current[c])

\* A trap leaves through the end of trap_return only if it has a notice to drop.
Leave(c) == Goto(c, IF notice'[c] THEN "return" ELSE "run")

\* Mutant: a trap forgets the reschedule it puts off.
TrapDeferredForgets(c, tick) ==
    /\ pc[c] = "trap" /\ ~Serving(c)
    /\ MustSwitch(c, tick) /\ preemptOff[c]
    /\ preemptPending' = [preemptPending EXCEPT ![c] = TRUE]
    /\ needResched' = [needResched EXCEPT ![c] = FALSE]
    /\ unwinding' = [unwinding EXCEPT ![c] = None]
    /\ Goto(c, "run")
    /\ UNCHANGED <<priority, preemptOff, thread, park, at, runq, current, exits, load,
                   flags, exec, task>>

\* Every trap first publishes the exit deferred on its CPU, and will tell the
\* maintenance thread when it returns.
PublishExit(c) ==
    /\ notice' = [notice EXCEPT ![c] = deferred[c] # None /\ Maintainer # None]
    /\ exited' = [exited EXCEPT ![c] = @ \cup ({deferred[c]} \ {None})]
    /\ deferred' = [deferred EXCEPT ![c] = None]

\* deadline_for: no timer on an idle CPU, nor while a reschedule is requested.
DeadlineFor(next, resched) == next \in Threads /\ ~resched

\* Nothing to switch to: the interrupted context goes on.  An idle CPU then
\* looks for a thread to pull.
TrapStay(c, tick) ==
    /\ pc[c] = "trap" /\ ~Serving(c)
    /\ ~MustSwitch(c, tick)
    /\ PublishExit(c)
    /\ unwinding' = [unwinding EXCEPT ![c] = None]
    /\ sliceEnd' = IF tick THEN sliceEnd \ {current[c]} ELSE sliceEnd
    /\ timer' = [timer EXCEPT ![c] = DeadlineFor(current[c], FALSE)]
    /\ IF current[c] = Idle THEN Goto(c, "idlepull") ELSE Leave(c)
    /\ UNCHANGED <<policy, cpuOf, state, park, at, runq, current, load, needResched, online,
                   reachable, kick, missed, exec, task>>

\* A switch is due but preemption is disabled: it is put off.
TrapDeferred(c, tick) ==
    /\ pc[c] = "trap" /\ ~Serving(c)
    /\ MustSwitch(c, tick) /\ preemptOff[c]
    /\ PublishExit(c)
    /\ preemptPending' = [preemptPending EXCEPT ![c] = TRUE]
    /\ needResched' = [needResched EXCEPT ![c] = TRUE]
    /\ sliceEnd' = IF SliceOver(c, tick) THEN sliceEnd \cup {current[c]} ELSE sliceEnd
    /\ unwinding' = [unwinding EXCEPT ![c] = None]
    /\ timer' = [timer EXCEPT ![c] = DeadlineFor(current[c], TRUE)]
    /\ Leave(c)
    /\ UNCHANGED <<priority, preemptOff, cpuOf, state, park, at, runq, current, load,
                   online, reachable, kick, missed, exec, task>>

\* Mutants: the end of a slice counts as a preemption; every switch releases.
RequeuedInFront(c, tick) ==
    LET t == current[c]
    IN  IF t \in Threads /\ state[t] = "Running" THEN PushFront(runq[c], t) ELSE runq[c]
UnloadedAlways(c) ==
    IF current[c] \in Threads THEN Less(load[c], Weight(current[c])) ELSE load[c]

\* The run queue and load after the outgoing thread was put back or released.
Requeued(c, tick) ==
    LET t == current[c]
    IN  IF t \in Threads /\ state[t] = "Running"
        THEN IF t \in sliceEnd \/ SliceOver(c, tick) THEN PushBack(runq[c], t)
             ELSE PushFront(runq[c], t)
        ELSE runq[c]
Unloaded(c) ==
    IF current[c] \in Threads /\ state[current[c]] = "Blocked"
    THEN Less(load[c], Weight(current[c])) ELSE load[c]

\* kick_idle_cpu after a switch with a backlog.
KickIdle(c, loads) ==
    LET idle == {d \in Cpus \ {c} : online[d] /\ loads[d] = 0}
    IN  IF loads[c] < StealThreshold THEN {} ELSE idle

\* take_next_thread from queue q: the thread left behind is marked as
\* unwinding until this CPU's next trap.
TakeNext(c, q, before) ==
    LET next == IF q = <<>> THEN Idle ELSE Head(q)
    IN  /\ runq' = [runq EXCEPT ![c] = IF q = <<>> THEN <<>> ELSE Tail(q)]
        /\ current' = [current EXCEPT ![c] = next]
        /\ unwinding' = [unwinding EXCEPT ![c] =
                            IF current[c] = next THEN None ELSE current[c]]
        /\ state' = [t \in Threads |-> IF t = next THEN "Running" ELSE before[t]]
        /\ cpuOf' = [t \in Threads |-> IF t = next THEN c ELSE cpuOf[t]]

\* There is local work: the whole switch decision is one critical section.
TrapSwitch(c, tick) ==
    /\ pc[c] = "trap" /\ ~Serving(c)
    /\ MustSwitch(c, tick) /\ ~preemptOff[c]
    /\ Requeued(c, tick) # <<>>
    /\ PublishExit(c)
    /\ needResched' = [needResched EXCEPT ![c] = FALSE]
    /\ sliceEnd' = sliceEnd \ {current[c]}
    /\ load' = [load EXCEPT ![c] = Unloaded(c)]
    /\ TakeNext(c, Requeued(c, tick),
                [t \in Threads |-> IF t = current[c] /\ state[t] = "Running"
                                   THEN "Ready" ELSE state[t]])
    /\ timer' = [timer EXCEPT ![c] = DeadlineFor(current'[c], FALSE)]
    /\ LET idle == KickIdle(c, load')
       IN  \/ idle = {} /\ UNCHANGED kick
           \/ \E d \in idle : kick' = [kick EXCEPT ![d] = IF Sent(d, "ipi") THEN "ipi" ELSE @]
    /\ UNCHANGED missed
    /\ Goto(c, "switch")
    /\ UNCHANGED <<policy, park, at, online, reachable, exec, task>>

\* No local work: mark the outgoing thread as unwinding and drop the lock to
\* look for work elsewhere.
TrapSteal(c, tick) ==
    /\ pc[c] = "trap" /\ ~Serving(c)
    /\ MustSwitch(c, tick) /\ ~preemptOff[c]
    /\ Requeued(c, tick) = <<>>
    /\ PublishExit(c)
    /\ needResched' = [needResched EXCEPT ![c] = FALSE]
    /\ load' = [load EXCEPT ![c] = Unloaded(c)]
    /\ unwinding' = [unwinding EXCEPT ![c] = current[c]]
    /\ Goto(c, "steal")
    /\ UNCHANGED <<policy, thread, park, at, runq, current, flags, exec, task>>

\* Mutant: any queued thread may be taken, even one whose stack is in use.
StealableAny(src) == {i \in DOMAIN runq[src] : runq[src][i] \notin NoMigrate}

\* steal_candidate: never the thread whose stack the source CPU may be on.
Stealable(src) ==
    {i \in DOMAIN runq[src] :
        runq[src][i] \notin NoMigrate \cup {current[src], unwinding[src]}}

\* transfer_candidate under both locks.
Transfer(src, dst, via) ==
    /\ src # dst
    /\ online[src] /\ online[dst]
    /\ load[src] > load[dst] + 1
    /\ Stealable(src) # {}
    /\ LET first == CHOOSE i \in Stealable(src) : \A j \in Stealable(src) : i <= j
           t == runq[src][first]
       IN  /\ runq' = [runq EXCEPT ![src] = Remove(@, t), ![dst] = PushBack(@, t)]
           /\ load' = [load EXCEPT ![src] = Less(@, Weight(t)), ![dst] = @ + Weight(t)]
           /\ cpuOf' = [cpuOf EXCEPT ![t] = dst]
           /\ needResched' = [needResched EXCEPT ![dst] = @ \/ WantsCpu(dst, priority[t])]
           /\ KickCpu(dst, via, MustKick(dst, priority[t]))

\* A CPU that moves work to itself picks next: the kick changes nothing, since
\* in a trap it is not sent and elsewhere the pick sets the deadline again.
Take(src, c) ==
    /\ Transfer(src, c, "irq")
    /\ Goto(c, "pick")
    /\ UNCHANGED <<policy, state, sliceEnd, park, at, current, unwinding, exits, online,
                   reachable, timer, exec, task>>

\* try_switch_steal, and try_idle_pull on exit or at start-up: whatever comes
\* of it, the CPU then picks again.  Only a pull wants the CPU still idle.
Steal(c, src) ==
    /\ pc[c] \in {"steal", "exitpull"}
    /\ pc[c] = "exitpull" => runq[c] = <<>>
    /\ Take(src, c)

NoSteal(c) ==
    /\ pc[c] \in {"steal", "exitpull"}
    /\ Goto(c, "pick")
    /\ UNCHANGED <<policy, thread, park, at, runq, current, unwinding, exits, load,
                   needResched, flags, exec, task>>

\* try_idle_pull at the end of a trap that left the CPU idle.
IdlePull(c, src) ==
    /\ pc[c] = "idlepull"
    /\ runq[c] = <<>>
    /\ Take(src, c)

NoIdlePull(c) ==
    /\ pc[c] = "idlepull"
    /\ Goto(c, IF notice[c] THEN "return" ELSE "run")
    /\ UNCHANGED <<policy, thread, park, at, runq, current, unwinding, exits, load,
                   needResched, flags, exec, task>>

\* pick_next_locked.
PickNext(c) ==
    /\ pc[c] = "pick"
    /\ TakeNext(c, runq[c], state)
    /\ timer' = [timer EXCEPT ![c] = DeadlineFor(current'[c], needResched[c])]
    /\ Goto(c, "switch")
    /\ UNCHANGED <<policy, sliceEnd, park, at, exits, load, needResched, online, reachable,
                   kick, missed, exec, task>>

\* start_current_cpu marks the CPU online for IPIs only after its first pick.
MarkOnline(c) ==
    /\ pc[c] = "switch"
    /\ ~reachable[c]
    /\ reachable' = [reachable EXCEPT ![c] = TRUE]
    /\ UNCHANGED <<policy, thread, park, at, runq, current, unwinding, exits, load,
                   needResched, online, kick, timer, missed, exec, pc, task>>

\* The trap returns through the new thread's frame: only now has the CPU left
\* the old stack.
SwitchStack(c) ==
    /\ pc[c] = "switch" /\ reachable[c]
    /\ ~notice[c] /\ ~Serving(c)
    /\ exec' = [exec EXCEPT ![c] = current[c]]
    /\ Goto(c, "run")
    /\ UNCHANGED <<policy, thread, park, at, runq, current, unwinding, exits, load,
                   needResched, flags, task>>

\* The trap returns to the context it interrupted.
TrapReturn(c) ==
    /\ pc[c] = "return"
    /\ ~notice[c] /\ ~Serving(c)
    /\ Goto(c, "run")
    /\ UNCHANGED <<policy, thread, park, at, runq, current, unwinding, exits, load,
                   needResched, flags, exec, task>>

\* start_current_cpu; the init thread of the boot CPU starts the others.
StartCpu(c) ==
    /\ pc[c] = "off"
    /\ c # BootCpu => exec[BootCpu] # None
    /\ online' = [online EXCEPT ![c] = TRUE]
    /\ Goto(c, "exitpull")
    /\ UNCHANGED <<policy, thread, park, at, runq, current, unwinding, exits, load,
                   needResched, reachable, kick, timer, missed, exec, task>>

\* rebalance_once, by the maintenance thread.
Rebalance(src, dst, via) ==
    /\ via \in ThreadVias(dst)
    /\ Transfer(src, dst, via)
    /\ UNCHANGED <<policy, state, sliceEnd, park, at, current, unwinding, exits, online,
                   reachable, timer, exec, pc, task>>

-----------------------------------------------------------------------------
(* Waking *)

\* Thread::wake on a thread that has not parked yet: the wake stays pending and
\* mark_parked will refuse to park.
WakePending(w, t) ==
    /\ task[w] = None
    /\ parkState[t] = "waiting"
    /\ parkState' = [parkState EXCEPT ![t] = "idle"]
    /\ UNCHANGED <<policy, thread, parkSeq, at, runq, current, unwinding, exits, load,
                   needResched, flags, exec, pc, task>>

\* Thread::wake on a parked thread: this waker alone must now requeue it.  It
\* reads the owner and chooses the target CPU before taking any lock.  It is
\* thread code, or the interrupt handler of CPU irq.
ClaimParked(w, t, target, irq) ==
    /\ task[w] = None
    /\ parkState[t] = "parked"
    /\ online[target]
    /\ t \in NoMigrate => target = cpuOf[t]
    /\ parkState' = [parkState EXCEPT ![t] = "idle"]
    /\ task' = [task EXCEPT ![w] =
                   [thread |-> t, owner |-> cpuOf[t], target |-> target, irq |-> irq]]
    /\ UNCHANGED <<policy, thread, parkSeq, at, runq, current, unwinding, deferred, exited,
                   load, needResched, flags, exec, pc>>

WakeParked(w, t, target) ==
    /\ UNCHANGED notice
    /\ \/ ThreadVias(target) # {} /\ ClaimParked(w, t, target, None)
       \/ \E c \in Cpus : pc[c] = "trap" /\ ~Serving(c) /\ ClaimParked(w, t, target, c)

\* trap_return drops its ReapNotice last, after the scheduling decision: the
\* signal of REAP_READY wakes the maintenance thread if it waits.
DropNotice(c, w) ==
    /\ pc[c] \in {"switch", "return"} /\ notice[c]
    /\ notice' = [notice EXCEPT ![c] = FALSE]
    /\ \/ \E target \in Cpus : ClaimParked(w, Maintainer, target, c)
       \/ /\ parkState[Maintainer] # "parked"
          /\ parkState' = [parkState EXCEPT ![Maintainer] = "idle"]
          /\ UNCHANGED <<policy, thread, parkSeq, at, runq, current, unwinding, deferred,
                         exited, load, needResched, flags, exec, pc, task>>

\* How the waker asks CPU c to reschedule.
Vias(w, c) ==
    IF task[w].irq = None THEN ThreadVias(c) ELSE {IF task[w].irq = c THEN "irq" ELSE "ipi"}

\* The owner CPU has not switched away from t since it parked.
StillCurrent(c, t) == current[c] = t /\ unwinding[c] # t

\* The woken thread is still the owner's current one: it simply goes on, and
\* the requested reschedule is withdrawn unless a better thread is queued.
WakeCurrent(w) ==
    /\ task[w] # None
    /\ LET t == task[w].thread
           c == task[w].owner
           better == runq[c] # <<>> /\ WantsCpu(c, priority[Head(runq[c])])
       IN  /\ StillCurrent(c, t)
           /\ state[t] = "Blocked"
           /\ state' = [state EXCEPT ![t] = "Running"]
           /\ cpuOf' = [cpuOf EXCEPT ![t] = c]
           /\ sliceEnd' = sliceEnd \ {t}
           /\ needResched' = [needResched EXCEPT ![c] = better]
           /\ \E via \in Vias(w, c) :
                KickCpu(c, via, \/ via = "ipi"
                                \/ better /\ ShouldPreempt(priority[Head(runq[c])], t))
    /\ task' = [task EXCEPT ![w] = None]
    /\ UNCHANGED <<policy, park, at, runq, current, unwinding, exits, load, online, reachable,
                   timer, exec, pc>>

\* adopt_thread of a woken thread on CPU c, with a kick if the thread preempts,
\* or from another CPU always.
WakeOn(w, c, latencySensitive, always) ==
    LET t == task[w].thread
        preempts == WakeupPreempts(c, t, latencySensitive)
    IN  /\ state[t] = "Blocked"
        /\ state' = [state EXCEPT ![t] = "Ready"]
        /\ cpuOf' = [cpuOf EXCEPT ![t] = c]
        /\ sliceEnd' = sliceEnd \ {t}
        /\ runq' = [runq EXCEPT ![c] = PushBack(@, t)]
        /\ load' = [load EXCEPT ![c] = @ + Weight(t)]
        /\ needResched' = [needResched EXCEPT ![c] =
                              @ \/ preempts \/ WantsCpu(c, priority[t])]
        /\ \E via \in Vias(w, c) : KickCpu(c, via, preempts \/ (always /\ via = "ipi"))
        /\ task' = [task EXCEPT ![w] = None]
        /\ UNCHANGED <<policy, park, at, current, unwinding, exits, online, reachable, timer,
                       exec, pc>>

\* The thread belongs on its owner CPU: the target is the owner, or the owner
\* is still unwinding off the thread's stack.
WakeLocal(w, latencySensitive) ==
    /\ task[w] # None
    /\ ~StillCurrent(task[w].owner, task[w].thread)
    /\ task[w].owner = task[w].target \/ unwinding[task[w].owner] = task[w].thread
    /\ WakeOn(w, task[w].owner, latencySensitive, task[w].owner # task[w].target)

\* Otherwise it moves to the chosen CPU.
WakeMigrate(w, latencySensitive) ==
    /\ task[w] # None
    /\ ~StillCurrent(task[w].owner, task[w].thread)
    /\ task[w].owner # task[w].target /\ unwinding[task[w].owner] # task[w].thread
    /\ WakeOn(w, task[w].target, latencySensitive, FALSE)

-----------------------------------------------------------------------------
\* What a CPU does on its own inside trap_return, exit_current or start-up.
Switching(c) ==
    \/ \E tick \in BOOLEAN : \/ TrapStay(c, tick) \/ TrapDeferred(c, tick)
                              \/ TrapSwitch(c, tick) \/ TrapSteal(c, tick)
    \/ \E src \in Cpus : Steal(c, src) \/ IdlePull(c, src)
    \/ NoSteal(c) \/ NoIdlePull(c) \/ PickNext(c) \/ SwitchStack(c) \/ TrapReturn(c)
    \/ StartCpu(c) \/ MarkOnline(c)

ThreadStep(c) ==
    \/ PublishDeferredExit(c) \/ PreparePark(c) \/ ParkCurrent(c) \/ ParkRefused(c)
    \/ ParkReturn(c) \/ Yield(c) \/ ExitCurrent(c)
    \/ DisablePreemption(c) \/ EnablePreemption(c)

Waking(w) ==
    \/ WakeCurrent(w)
    \/ \E latencySensitive \in BOOLEAN :
           WakeLocal(w, latencySensitive) \/ WakeMigrate(w, latencySensitive)

Next ==
    \/ \E c \in Cpus : Trap(c) \/ Switching(c) \/ ThreadStep(c)
    \/ \E t \in Threads, c \in Cpus : Reap(c, t) \/ \E via \in Requests : Spawn(t, c, via)
    \/ \E t \in Threads : \E p \in {BasePriority[t], Lent} : Reprioritize(t, p)
    \/ \E src, dst \in Cpus : \E via \in Requests : Rebalance(src, dst, via)
    \/ \E w \in Wakers : \/ \E t \in Threads : \/ WakePending(w, t)
                                               \/ \E c \in Cpus : WakeParked(w, t, c)
                         \/ Waking(w)
                         \/ \E c \in Cpus : DropNotice(c, w)

Spec == Init /\ [][Next]_vars

\* A CPU finishes what it started.  Its interrupts are only certain while its
\* timer is armed or a kick is on its way.  A running thread's time slice ends
\* eventually.
FairSpec ==
    /\ Spec
    /\ \A c \in Cpus : /\ WF_vars(Switching(c))
                       /\ WF_vars(\E w \in Wakers : DropNotice(c, w))
                       /\ WF_vars(Trap(c) /\ (timer[c] \/ kick[c] # "none"))
                       /\ SF_vars(TrapSwitch(c, TRUE))
    /\ \A w \in Wakers : WF_vars(Waking(w))

-----------------------------------------------------------------------------
(* Properties *)

\* Two CPUs never execute on the same kernel stack, though a thread becomes
\* visible to wakers and thieves before its CPU has left its stack.
OneCpuPerStack ==
    \A c, d \in Cpus : exec[c] \in Threads /\ exec[c] = exec[d] => c = d

\* A thread is where its state says: Ready threads in exactly one run queue,
\* that of their own CPU; a Running thread is its CPU's current one; Blocked
\* and Exited threads are in no queue.  Every queue is in the order of the
\* threads' present priorities, which dequeuing by rqindex relies on.
PlacedOnce ==
    \A t \in Threads :
        /\ \A c \in Cpus : Linked(c, t) => state[t] = "Ready" /\ cpuOf[t] = c
        /\ state[t] = "Ready" =>
              Cardinality({i \in DOMAIN runq[cpuOf[t]] : runq[cpuOf[t]][i] = t}) = 1
        /\ state[t] = "Running" => current[cpuOf[t]] = t
        /\ \A c \in Cpus : current[c] = t => cpuOf[t] = c
        /\ \A c \in Cpus : \A i, j \in DOMAIN runq[c] :
              i < j => priority[runq[c][i]] <= priority[runq[c][j]]

\* A CPU's load is the number of counted threads it has adopted and not
\* released; saturation never hides a double release.
LoadExact ==
    \A c \in Cpus :
        load[c] = Cardinality({t \in Threads \ NoLoad : cpuOf[t] = c /\
                      \/ state[t] \in {"Ready", "Running"}
                      \/ state[t] = "Blocked" /\ StillCurrent(c, t)})

\* A thread is freed only when nothing refers to it any more.
FreedIsUnused ==
    \A t \in Threads : state[t] = "freed" =>
        /\ \A c \in Cpus : /\ exec[c] # t /\ current[c] # t /\ unwinding[c] # t
                           /\ deferred[c] # t /\ t \notin exited[c] /\ ~Linked(c, t)
        /\ \A w \in Wakers : task[w] # None => task[w].thread # t

\* A CPU outside the scheduler that has queued work will be interrupted.
Noticed(c) ==
    pc[c] = "run" /\ runq[c] # <<>> => timer[c] \/ kick[c] # "none"

\* A blocked thread can still be woken, or its waker is on the way: a wake that
\* comes between prepare_park and park_current is not lost.  The waker that won
\* the park word finds the thread blocked and on the CPU it read as its owner
\* (the assert "attempted to wake a non-blocked thread").  A CPU with queued
\* work is on its way through the scheduler or will be interrupted, with two
\* exceptions: a kick of an idle CPU that was not sent, because the CPU had
\* not been marked online yet or because trap_return dropped its ReapNotice
\* after its decision; and a thread that runs with need_resched set, which
\* deadline_for gives no timer: the switch it puts off comes when it enables
\* preemption, but one picked with the flag left set runs until some interrupt.
NoLostWakeup ==
    /\ \A t \in Threads : state[t] = "Blocked" =>
         \/ parkState[t] = "parked"
         \/ \E w \in Wakers : task[w] # None /\ task[w].thread = t
    /\ \A w \in Wakers : task[w] # None =>
         state[task[w].thread] = "Blocked" /\ cpuOf[task[w].thread] = task[w].owner
    /\ \A c \in Cpus :
         Noticed(c) \/ IF current[c] = Idle THEN missed[c] ELSE needResched[c]

\* While a thread has preemption disabled it keeps its CPU, and a switch that
\* became due meanwhile is still requested when it enables preemption again.
PreemptionDeferred ==
    \A c \in Cpus :
        /\ preemptOff[c] => exec[c] \in Threads /\ current[c] = exec[c]
                            /\ state[exec[c]] = "Running"
        /\ preemptPending[c] => preemptOff[c] /\ needResched[c]

\* A woken or new thread eventually runs (all threads of one priority).
ReadyRuns(t) == state[t] = "Ready" ~> state[t] = "Running"

\* A thread whose park word a waker has won eventually runs, unless the kick of
\* the CPU it was put on was not sent.
WokenRuns(t) ==
    state[t] = "Blocked" /\ parkState[t] = "idle" ~>
        state[t] = "Running" \/ (state[t] = "Ready" /\ missed[cpuOf[t]])
=============================================================================
