----------------------------- MODULE MCProcess -----------------------------
(***************************************************************************)
(* A behaviour is about one case:                                          *)
(*   tree      three processes and three threads, any child is waited for; *)
(*   groups    two processes change groups and wait by group or pid;       *)
(*   stops     one thread is stopped, continued and killed;                *)
(*   handlers  one thread handles, blocks and waits for signals;           *)
(*   shared    two threads share the signal state.                         *)
(***************************************************************************)
EXTENDS Process, TLC

CONSTANTS Sender, Kill, Stop, Tstp, Cont, Usr, Chld

Symmetric == Permutations(Threads)

VARIABLES
    actions, pending, mask, saved, stopped, hint, event, parkState, parkSeq, taken, handled,
    restore, frames, call, waited, waking, chosen, changes, spc,
    case

signalVars == <<actions, pending, mask, saved, stopped, hint, event, parkState, parkSeq, taken,
                handled, restore, frames, call, waited, waking, chosen, changes, spc>>
allVars == <<vars, signalVars, case>>

GroupCase == INSTANCE Process WITH
    Pids <- {1, 2}, Selectors <- {2, AnyChild, Group}, Groups <- {1, 2}

\* Signal threads are numbered: the symmetry of Threads does not concern them.
Senders == {Sender}
Stops == INSTANCE Signals WITH active <- handled, pc <- spc,
    Threads <- {1}, Used <- {Kill, Tstp, Cont}, Masks <- {{Usr}}, Handlers <- 0, MaxParks <- 3
Handles == INSTANCE Signals WITH active <- handled, pc <- spc,
    Threads <- {1}, Used <- {Usr, Tstp}, Masks <- {{Usr}}, Handlers <- 2, MaxParks <- 1
Shared == INSTANCE Signals WITH active <- handled, pc <- spc,
    Threads <- {1, 2}, Used <- {Chld}, Masks <- {{Usr}}, Handlers <- 0, MaxParks <- 1

MCInit ==
    \/ case \in {"tree", "stops"} /\ Init /\ Stops!Init
    \/ case = "groups" /\ GroupCase!Init /\ Stops!Init
    \/ case = "handlers" /\ Init /\ Handles!Init
    \/ case = "shared" /\ Init /\ Shared!Init

MCNext ==
    /\ \/ case = "tree"     /\ Next /\ UNCHANGED signalVars
       \/ case = "groups"   /\ GroupCase!Next /\ UNCHANGED signalVars
       \/ case = "stops"    /\ Stops!Next /\ UNCHANGED vars
       \/ case = "handlers" /\ Handles!Next /\ UNCHANGED vars
       \/ case = "shared"   /\ Shared!Next /\ UNCHANGED vars
    /\ UNCHANGED case

MCSpec == MCInit /\ [][MCNext]_allVars

-----------------------------------------------------------------------------
\* fork_from, mark_exited and wait_current: no process is held twice, only one
\* that has exited is reaped, and while init lives every child is with a process
\* that can still wait for it or hand it on, but for one forked by a peer of a
\* thread that has already taken the children in mark_exited.
NoProcessLost ==
    IF case = "groups" THEN GroupCase!TypeOK /\ GroupCase!OneHolder ELSE TypeOK /\ OneHolder

\* exec_current replaces the address space of its own thread only.
ExecIsAlone == IF case = "groups" THEN GroupCase!ExecAlone ELSE ExecAlone

\* A parent that sleeps in wait_current is woken for every child it waits for,
\* if it is not init and waits with one thread.  Only the case tree has such a
\* parent: in groups no process but init can have a child.
ExitWakesParent == IF case = "groups" THEN GroupCase!ParentIsWoken ELSE ParentIsWoken

\* SignalManager: a clear pending_work hides nothing; with one thread, sigsuspend
\* and sigtimedwait do not sleep next to a signal that ends them, nor a read of a
\* signalfd next to one of its set (it sleeps through all others, SIGKILL
\* included); sigsuspend and handlers give back the mask user code chose, and a
\* thread that stopped can be continued.
SignalsSound ==
    CASE case = "stops" ->
            /\ Stops!TypeOK /\ Stops!HintCovers /\ Stops!SleepIsJustified
            /\ Stops!MaskRestored /\ Stops!StoppedIsRecorded
      [] case = "handlers" ->
            /\ Handles!TypeOK /\ Handles!HintCovers /\ Handles!SleepIsJustified
            /\ Handles!MaskRestored /\ Handles!StoppedIsRecorded
      [] case = "shared" -> Shared!TypeOK /\ Shared!HintCovers
      [] OTHER -> TRUE

\* "Waits for and reaps one matching child process" (wait_current), of init.
InitReaps == case = "tree" => InitIsWoken

\* "Delivers one pending signal before returning to userspace"
\* (deliver_pending): a thread is not left stopped with SIGKILL pending.
KillIsDelivered == case = "stops" => Stops!NotStoppedUnderKill
=============================================================================
