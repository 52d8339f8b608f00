------------------------------- MODULE Process -------------------------------
(***************************************************************************)
(* The process tree of kernel/src/proc/mod.rs: fork, threads, exec, exit,  *)
(* reparenting to init, wait and reaping, process groups and sessions.     *)
(* A critical section of Process::children or of the registry is one step. *)
(*                                                                         *)
(* A Weak reference to a parent is taken to be always upgradable: locking  *)
(* or signaling a process that was freed meanwhile changes nothing.        *)
(***************************************************************************)
EXTENDS LevelEvent, Integers, FiniteSets, FiniteSetsExt

CONSTANTS
    Pids,           \* bound: the processes ever created, in the order of NEXT_PID
    Threads,        \* bound: thread records
    Selectors,      \* bound: what waits select, among Pids, AnyChild and Group
    Groups,         \* bound: the groups processes join or create
    None, AnyChild, Group

InitPid == 1

VARIABLES
    parent, children, childEvent, exited, active,   \* Process
    group, session,
    registry,       \* ProcessRegistry::processes
    fresh,          \* NEXT_PID
    late,           \* history: children added after their parent's list was taken
    proc,           \* the process of a thread record
    counted,        \* the thread is still counted in active_threads
    arg,            \* the child or parent a thread works on
    orphans,        \* children taken by reparent_children
    sel,            \* the selector of a wait
    pc

tree == <<parent, children, registry, fresh, late>>
ids == <<group, session>>
locals == <<arg, orphans, sel>>
life == <<exited, active, proc, counted>>
vars == <<tree, childEvent, life, ids, locals, pc>>

Labels == {"off", "user", "register", "run", "exec", "scan", "wait", "sleep", "unregister",
           "take", "reparent", "disown", "publish", "signal", "finish"}

TypeOK ==
    /\ parent \in [Pids -> Pids \cup {None}]
    /\ children \in [Pids -> SUBSET Pids]
    /\ childEvent \in [Pids -> EventOf(Threads)]
    /\ exited \in [Pids -> BOOLEAN]
    /\ active \in [Pids -> 0 .. Cardinality(Threads)]
    /\ group \in [Pids -> Pids] /\ session \in [Pids -> Pids]
    /\ registry \subseteq Pids
    /\ fresh \in Nat
    /\ late \subseteq Pids
    /\ proc \in [Threads -> Pids \cup {None}]
    /\ counted \in [Threads -> BOOLEAN]
    /\ arg \in [Threads -> Pids \cup {None}]
    /\ orphans \in [Threads -> SUBSET Pids]
    /\ sel \in [Threads -> Pids \cup {None, AnyChild, Group}]
    /\ pc \in [Threads -> Labels]

\* spawn_init: init has one thread, which runs in user mode.
Init ==
    /\ parent = [p \in Pids |-> None]
    /\ children = [p \in Pids |-> {}]
    /\ childEvent = [p \in Pids |-> NewEvent]
    /\ exited = [p \in Pids |-> FALSE]
    /\ active = [p \in Pids |-> IF p = InitPid THEN 1 ELSE 0]
    /\ group = [p \in Pids |-> InitPid] /\ session = [p \in Pids |-> InitPid]
    /\ registry = {InitPid}
    /\ fresh = InitPid + 1
    /\ late = {}
    /\ \E first \in Threads :
           /\ proc = [t \in Threads |-> IF t = first THEN InitPid ELSE None]
           /\ counted = [t \in Threads |-> t = first]
           /\ pc = [t \in Threads |-> IF t = first THEN "user" ELSE "off"]
    /\ arg = [t \in Threads |-> None]
    /\ orphans = [t \in Threads |-> {}]
    /\ sel = [t \in Threads |-> None]

Goto(t, label) == pc' = [pc EXCEPT ![t] = label]

-----------------------------------------------------------------------------
(* Creation *)

\* A thread of p is past the point of mark_exited where it took the children.
Ending(p) ==
    \/ exited[p]
    \/ \E t \in Threads : proc[t] = p /\ pc[t] \in {"reparent", "disown", "publish", "signal"}

\* fork_from: the child copies its parent's ids and joins its children, also
\* when another thread is ending the parent or has ended it.
Fork(t) ==
    LET p == proc[t] IN
    /\ pc[t] = "user" /\ fresh \in Pids
    /\ fresh' = fresh + 1
    /\ parent' = [parent EXCEPT ![fresh] = p]
    /\ children' = [children EXCEPT ![p] = @ \cup {fresh}]
    /\ late' = IF Ending(p) THEN late \cup {fresh} ELSE late
    /\ group' = [group EXCEPT ![fresh] = group[p]]
    /\ session' = [session EXCEPT ![fresh] = session[p]]
    /\ arg' = [arg EXCEPT ![t] = fresh]
    /\ Goto(t, "register")
    /\ UNCHANGED <<registry, childEvent, life, orphans, sel>>

ForkRegister(t) ==
    /\ pc[t] = "register"
    /\ registry' = registry \cup {arg[t]}
    /\ Goto(t, "run")
    /\ UNCHANGED <<parent, children, fresh, late, childEvent, life, ids, locals>>

\* A new thread record of process p: register_thread, then runnable.
Start(u, p) ==
    /\ pc[u] = "off"
    /\ proc' = [proc EXCEPT ![u] = p]
    /\ counted' = [counted EXCEPT ![u] = TRUE]
    /\ active' = [active EXCEPT ![p] = @ + 1]

\* run_forked_user and run_user_thread
RunThread(t, u) ==
    /\ pc[t] = "run"
    /\ Start(u, arg[t])
    /\ arg' = [arg EXCEPT ![t] = None]
    /\ pc' = [pc EXCEPT ![t] = "user", ![u] = "user"]
    /\ UNCHANGED <<tree, childEvent, exited, ids, orphans, sel>>

\* create_thread is refused once the process has exited.
CreateThread(t) ==
    /\ pc[t] = "user"
    /\ ~exited[proc[t]]
    /\ arg' = [arg EXCEPT ![t] = proc[t]]
    /\ Goto(t, "run")
    /\ UNCHANGED <<tree, childEvent, life, ids, orphans, sel>>

\* Mutant: a process may exec next to one other thread.
ExecCrowded(t) ==
    /\ pc[t] = "user" /\ active[proc[t]] <= 2
    /\ Goto(t, "exec")
    /\ UNCHANGED <<tree, childEvent, life, ids, locals>>

\* exec_current is refused to a process with several threads.
Exec(t) ==
    /\ pc[t] = "user"
    /\ active[proc[t]] = 1
    /\ Goto(t, "exec")
    /\ UNCHANGED <<tree, childEvent, life, ids, locals>>

\* The new image is installed.
ExecDone(t) ==
    /\ pc[t] = "exec"
    /\ Goto(t, "user")
    /\ UNCHANGED <<tree, childEvent, life, ids, locals>>

-----------------------------------------------------------------------------
(* Exit *)

\* exit_current and exit_current_signal: every thread may end the process, even
\* after another did.  Both panic in init.
Exit(t) ==
    /\ pc[t] = "user"
    /\ proc[t] # InitPid
    /\ Goto(t, "take")
    /\ UNCHANGED <<tree, childEvent, life, ids, locals>>

\* unregister_thread
Uncount(t) ==
    /\ counted' = [counted EXCEPT ![t] = FALSE]
    /\ active' = [active EXCEPT ![proc[t]] = @ - 1]

\* exit_current_thread: the last thread ends the process, unless that was done.
\* Init is no exception.
ExitThread(t) ==
    LET last == active[proc[t]] = 1 IN
    /\ pc[t] = "user"
    /\ Uncount(t)
    /\ Goto(t, IF last /\ ~exited[proc[t]] THEN "take" ELSE "finish")
    /\ UNCHANGED <<tree, childEvent, exited, proc, ids, locals>>

\* exit_current_thread_if_process_exited, on every return to user mode.
TrapReturn(t) ==
    /\ pc[t] = "user"
    /\ exited[proc[t]]
    /\ Goto(t, "finish")
    /\ UNCHANGED <<tree, childEvent, life, ids, locals>>

\* The registry's reference to init is weak: once init has ended, the record may
\* be gone with its last thread and the last user of it.
InitMayBeFreed ==
    exited[InitPid] /\ \A u \in Threads : proc[u] # InitPid /\ arg[u] # InitPid

\* reparent_children takes the children out of the process and looks init up...
Take(t) ==
    LET p == proc[t] IN
    /\ pc[t] = "take"
    /\ orphans' = [orphans EXCEPT ![t] = children[p]]
    /\ children' = [children EXCEPT ![p] = {}]
    /\ late' = late \ children[p]
    /\ \/ p # InitPid /\ Goto(t, "reparent")
       \/ (p = InitPid \/ InitMayBeFreed) /\ Goto(t, "disown")
    /\ UNCHANGED <<parent, registry, fresh, childEvent, life, ids, arg, sel>>

\* ...has nobody to give them to, and leaves them without a parent...
Disown(t) ==
    /\ pc[t] = "disown" /\ orphans[t] # {}
    /\ LET c == Min(orphans[t]) IN
         /\ parent' = [parent EXCEPT ![c] = None]
         /\ orphans' = [orphans EXCEPT ![t] = @ \ {c}]
    /\ UNCHANGED <<children, registry, fresh, late, childEvent, life, ids, arg, sel, pc>>

\* Mutant: the child stays with the process that is exiting as well.
ReparentTwice(t) ==
    /\ pc[t] = "reparent" /\ orphans[t] # {}
    /\ LET c == Min(orphans[t]) IN
         /\ parent' = [parent EXCEPT ![c] = InitPid]
         /\ children' = [children EXCEPT ![InitPid] = @ \cup {c}, ![proc[t]] = @ \cup {c}]
         /\ childEvent' = [childEvent EXCEPT ![InitPid] = IF exited[c] THEN Signal(@) ELSE @]
         /\ orphans' = [orphans EXCEPT ![t] = @ \ {c}]
    /\ UNCHANGED <<registry, fresh, late, life, ids, arg, sel, pc>>

\* ...or gives them to init one by one, under both children's locks.
Reparent(t) ==
    /\ pc[t] = "reparent" /\ orphans[t] # {}
    /\ LET c == Min(orphans[t]) IN
         /\ parent' = [parent EXCEPT ![c] = InitPid]
         /\ children' = [children EXCEPT ![InitPid] = @ \cup {c}]
         /\ childEvent' = [childEvent EXCEPT ![InitPid] = IF exited[c] THEN Signal(@) ELSE @]
         /\ orphans' = [orphans EXCEPT ![t] = @ \ {c}]
    /\ UNCHANGED <<registry, fresh, late, life, ids, arg, sel, pc>>

\* mark_exited reads its parent...
ReadParent(t) ==
    /\ pc[t] \in {"reparent", "disown"} /\ orphans[t] = {}
    /\ arg' = [arg EXCEPT ![t] = parent[proc[t]]]
    /\ Goto(t, "publish")
    /\ UNCHANGED <<tree, childEvent, life, ids, orphans, sel>>

\* ...publishes the status, under the children lock of a parent it has...
Publish(t) ==
    /\ pc[t] = "publish"
    /\ exited' = [exited EXCEPT ![proc[t]] = TRUE]
    /\ Goto(t, "signal")
    /\ UNCHANGED <<tree, childEvent, active, proc, counted, ids, locals>>

\* Mutant: the parent is not woken.
SignalParentNot(t) ==
    /\ pc[t] = "signal"
    /\ arg' = [arg EXCEPT ![t] = None]
    /\ Goto(t, "finish")
    /\ UNCHANGED <<tree, childEvent, life, ids, orphans, sel>>

\* ...and signals that parent outside every lock.  The SIGCHLD queued with it
\* wakes nobody here: wait_current does not look at signals.
SignalParent(t) ==
    /\ pc[t] = "signal"
    /\ childEvent' = [p \in Pids |-> IF p = arg[t] THEN Signal(childEvent[p]) ELSE childEvent[p]]
    /\ arg' = [arg EXCEPT ![t] = None]
    /\ Goto(t, "finish")
    /\ UNCHANGED <<tree, life, ids, orphans, sel>>

\* finish_current_process_thread_exit, with interrupts masked; a thread that
\* came through exit_current_thread is not counted any more.
Finish(t) ==
    /\ pc[t] = "finish"
    /\ IF counted[t] THEN Uncount(t) ELSE UNCHANGED <<counted, active>>
    /\ proc' = [proc EXCEPT ![t] = None]
    /\ Goto(t, "off")
    /\ UNCHANGED <<tree, childEvent, exited, ids, locals>>

-----------------------------------------------------------------------------
(* Wait *)

\* Process::matches_wait; a negative selector names a group like Group does.
Matching(t) ==
    {c \in children[proc[t]] : \/ sel[t] = AnyChild
                               \/ sel[t] = c
                               \/ sel[t] = Group /\ group[c] = group[proc[t]]}
Zombies(S) == {c \in S : exited[c]}

WaitCall(t, s) ==
    /\ pc[t] = "user"
    /\ sel' = [sel EXCEPT ![t] = s]
    /\ Goto(t, "scan")
    /\ UNCHANGED <<tree, childEvent, life, ids, arg, orphans>>

\* NoChild, or nothing has exited and the caller does not want to block.
WaitReturn(t) ==
    /\ pc[t] = "scan"
    /\ Zombies(Matching(t)) = {}
    /\ sel' = [sel EXCEPT ![t] = None]
    /\ Goto(t, "user")
    /\ UNCHANGED <<tree, childEvent, life, ids, arg, orphans>>

\* The first exited child is removed; the level stays set while another waits.
Reap(t) ==
    /\ pc[t] = "scan" /\ Zombies(Matching(t)) # {}
    /\ LET p == proc[t]
           c == Min(Zombies(Matching(t)))
       IN  /\ children' = [children EXCEPT ![p] = @ \ {c}]
           /\ childEvent' = [childEvent EXCEPT ![p] =
                                IF Zombies(children[p] \ {c}) = {} THEN Reset(@) ELSE @]
           /\ arg' = [arg EXCEPT ![t] = c]
    /\ Goto(t, "unregister")
    /\ UNCHANGED <<parent, registry, fresh, late, life, ids, orphans, sel>>

\* unregister_process, after the children lock was released.
Unregister(t) ==
    /\ pc[t] = "unregister"
    /\ registry' = registry \ {arg[t]}
    /\ arg' = [arg EXCEPT ![t] = None]
    /\ sel' = [sel EXCEPT ![t] = None]
    /\ Goto(t, "user")
    /\ UNCHANGED <<parent, children, fresh, late, childEvent, life, ids, orphans>>

WaitBlock(t) ==
    /\ pc[t] = "scan"
    /\ Matching(t) # {} /\ Zombies(Matching(t)) = {}
    /\ childEvent' = [childEvent EXCEPT ![proc[t]] = Reset(@)]
    /\ Goto(t, "wait")
    /\ UNCHANGED <<tree, life, ids, locals>>

WaitSleep(t) ==
    /\ pc[t] = "wait"
    /\ childEvent' = [childEvent EXCEPT ![proc[t]] = Join(@, t)]
    /\ Goto(t, "sleep")
    /\ UNCHANGED <<tree, life, ids, locals>>

WaitWake(t) ==
    /\ pc[t] = "sleep"
    /\ ~Asleep(childEvent[proc[t]], t)
    /\ Goto(t, "scan")
    /\ UNCHANGED <<tree, childEvent, life, ids, locals>>

-----------------------------------------------------------------------------
(* Groups and sessions *)

\* set_process_group of the caller or one of its children, to any group.
SetProcessGroup(t, p, g) ==
    /\ pc[t] = "user"
    /\ p = proc[t] \/ p \in children[proc[t]]
    /\ session[p] = session[proc[t]]
    /\ group' = [group EXCEPT ![p] = g]
    /\ UNCHANGED <<tree, childEvent, life, session, locals, pc>>

\* create_session is refused to a group leader.
CreateSession(t) ==
    LET p == proc[t] IN
    /\ pc[t] = "user"
    /\ p \in Groups /\ group[p] # p
    /\ session' = [session EXCEPT ![p] = p]
    /\ group' = [group EXCEPT ![p] = p]
    /\ UNCHANGED <<tree, childEvent, life, locals, pc>>

-----------------------------------------------------------------------------
Working(t) ==
    \/ ForkRegister(t) \/ (\E u \in Threads : RunThread(t, u)) \/ ExecDone(t)
    \/ Take(t) \/ Disown(t) \/ Reparent(t) \/ ReadParent(t) \/ Publish(t) \/ SignalParent(t) \/ Finish(t)
    \/ WaitReturn(t) \/ Reap(t) \/ Unregister(t) \/ WaitBlock(t) \/ WaitSleep(t) \/ WaitWake(t)

Next == \E t \in Threads :
    \/ Fork(t) \/ CreateThread(t) \/ Exec(t)
    \/ Exit(t) \/ ExitThread(t) \/ TrapReturn(t)
    \/ \E s \in Selectors : WaitCall(t, s)
    \/ \E p \in Pids, g \in Groups : SetProcessGroup(t, p, g)
    \/ CreateSession(t)
    \/ Working(t)

Spec == Init /\ [][Next]_vars

-----------------------------------------------------------------------------
(* Properties *)

Inside(t) == pc[t] \notin {"off", "finish"}

\* A process is in one place: in the children of one process, in the hands of
\* the thread that moves it to init, or reaped; only a process that has exited
\* is reaped.  As long as init lives, the one that holds it can still wait for
\* it or hand it on: mark_exited leaves no child with the process it ends.  The
\* one exception is a child that a peer thread forks after mark_exited took the
\* list, as fork_current does not look at `exited`: unless a second thread ends
\* the process too, it stays in the list of a dead process and nobody reaps it.
OneHolder ==
    \A c \in Pids \ {InitPid} : c < fresh =>
        LET holders == {p \in Pids : c \in children[p]}
            movers == {t \in Threads : c \in orphans[t]}
            reapers == {t \in Threads : pc[t] = "unregister" /\ arg[t] = c}
            forkers == {t \in Threads : pc[t] = "register" /\ arg[t] = c}
        IN  /\ Cardinality(holders) + Cardinality(movers) <= 1
            /\ c \notin registry => exited[c] \/ forkers # {}
            /\ ~Ending(InitPid) =>
                  /\ c \in registry => holders # {} \/ movers # {} \/ reapers # {}
                  /\ holders = {} /\ movers = {} => exited[c]
                  /\ c \notin late => \A p \in holders : ~Ending(p)

\* active_threads counts the threads that may still enter user mode; in
\* exec_current no other thread of the process may.
ExecAlone ==
    /\ \A p \in Pids : active[p] = Cardinality({t \in Threads : proc[t] = p /\ counted[t]})
    /\ \A t, u \in Threads :
         pc[t] = "exec" /\ t # u /\ proc[u] = proc[t] => ~counted[u] /\ pc[u] = "finish"

\* wait_current: a thread sleeps next to a child it waits for and that has
\* exited only while the thread that publishes the exit is about to wake it.
WakeOnWay(t) ==
    Asleep(childEvent[proc[t]], t) /\ Zombies(Matching(t)) # {}
        => \E u \in Threads : pc[u] = "signal" /\ arg[u] = proc[t]

\* That holds for a process other than init that waits with one thread.
ParentIsWoken ==
    \A t \in Threads :
        /\ proc[t] \notin {None, InitPid}
        /\ \A u \in Threads \ {t} : proc[u] = proc[t] => sel[u] = None
        => WakeOnWay(t)

\* "Waits for and reaps one matching child process" (wait_current): the same of
\* init, which inherits orphans.
InitIsWoken == \A t \in Threads : proc[t] = InitPid => WakeOnWay(t)
=============================================================================
