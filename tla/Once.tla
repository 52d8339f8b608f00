-------------------------------- MODULE Once --------------------------------
(***************************************************************************)
(* One-time initialisation (kernel/src/sys/sync.rs, Once): racing callers  *)
(* of call_once, one of which runs its initializer; the others spin.  The  *)
(* initializer may panic, which poisons the cell.                          *)
(***************************************************************************)
EXTENDS Integers

CONSTANTS Callers, None

VARIABLES
    state,      \* Once::state
    value,      \* the caller whose value is stored, None while uninitialised
    seen,       \* the state a failed compare_exchange returned
    ran,        \* the callers whose initializer has started
    pc

vars == <<state, value, seen, ran, pc>>

States == {"incomplete", "running", "complete", "poisoned"}
Labels == {"idle", "exchange", "failed", "spin", "initialise", "write", "finish",
           "returned", "panicked"}

TypeOK ==
    /\ state \in States
    /\ value \in Callers \cup {None}
    /\ seen \in [Callers -> States]
    /\ ran \subseteq Callers
    /\ pc \in [Callers -> Labels]

Init ==
    /\ state = "incomplete"
    /\ value = None
    /\ seen = [c \in Callers |-> "incomplete"]
    /\ ran = {}
    /\ pc = [c \in Callers |-> "idle"]

Step(c, from, to) == pc[c] = from /\ pc' = [pc EXCEPT ![c] = to]

-----------------------------------------------------------------------------
\* call_once: the fast path is get.
CallOnce(c) ==
    /\ Step(c, "idle", IF state = "complete" THEN "returned" ELSE "exchange")
    /\ UNCHANGED <<state, value, seen, ran>>

Win(c) ==
    /\ Step(c, "exchange", "initialise")
    /\ state = "incomplete"
    /\ state' = "running"
    /\ UNCHANGED <<value, seen, ran>>

Lose(c) ==
    /\ Step(c, "exchange", "failed")
    /\ state # "incomplete"
    /\ seen' = [seen EXCEPT ![c] = state]
    /\ UNCHANGED <<state, value, ran>>

Lost(c) ==
    /\ pc[c] = "failed"
    /\ pc' = [pc EXCEPT ![c] = CASE seen[c] = "complete" -> "returned"
                                 [] seen[c] = "running"  -> "spin"
                                 [] seen[c] = "poisoned" -> "panicked"]
    /\ UNCHANGED <<state, value, seen, ran>>

\* The spin ends when the state is no longer RUNNING.
Spin(c) ==
    /\ Step(c, "spin", "exchange")
    /\ state # "running"
    /\ UNCHANGED <<state, value, seen, ran>>

Initialise(c) ==
    /\ Step(c, "initialise", "write")
    /\ ran' = ran \cup {c}
    /\ UNCHANGED <<state, value, seen>>

\* Mutant: a panic leaves the cell as it was.
PanicSilent(c) ==
    /\ Step(c, "write", "panicked")
    /\ UNCHANGED <<state, value, seen, ran>>

\* The initializer panics: OnceInitGuard::drop poisons the cell.
Panic(c) ==
    /\ Step(c, "write", "panicked")
    /\ state' = "poisoned"
    /\ UNCHANGED <<value, seen, ran>>

Write(c) ==
    /\ Step(c, "write", "finish")
    /\ value' = c
    /\ UNCHANGED <<state, seen, ran>>

Finish(c) ==
    /\ Step(c, "finish", "returned")
    /\ state' = "complete"
    /\ UNCHANGED <<value, seen, ran>>

-----------------------------------------------------------------------------
Inside(c) ==
    \/ Win(c) \/ Lose(c) \/ Lost(c) \/ Spin(c) \/ Initialise(c)
    \/ Panic(c) \/ Write(c) \/ Finish(c)

Next == \E c \in Callers : CallOnce(c) \/ Inside(c)

Spec == Init /\ [][Next]_vars

\* Every caller keeps running; an initializer returns or panics.
FairSpec == Spec /\ \A c \in Callers : WF_vars(Inside(c))

-----------------------------------------------------------------------------
(* Properties *)

\* "A value that can be initialized exactly once": every caller returns the
\* value of the one initializer that ever started, or panics; nobody spins on a
\* poisoned cell.
Ends(c) ==
    pc[c] = "exchange" ~>
        \/ pc[c] = "panicked"
        \/ pc[c] = "returned" /\ value # None /\ ran = {value}
=============================================================================
