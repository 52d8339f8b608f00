------------------------------ MODULE MCSched ------------------------------
(***************************************************************************)
(* Two CPUs and two threads, in five cases chosen at the start:            *)
(*   mixed   an interactive thread, which does not exit, and an interrupt  *)
(*           thread; neither yields;                                       *)
(*   policy  the first is boosted and restored at any moment, the second   *)
(*           is pinned, uncounted and disables preemption;                 *)
(*   woken   only the first thread exists, and parks twice;                *)
(*   turns   only the boot CPU comes up, and the threads are equals;       *)
(*   reaper  only the boot CPU comes up, and the second thread is the      *)
(*           maintenance thread, which does not exit.                      *)
(***************************************************************************)
EXTENDS Sched, TLC

CONSTANTS c1, c2, t1, t2, w1

VARIABLE case

MCCpus == {c1, c2}
MCThreads == {t1, t2}
MCMixed == t1 :> 60 @@ t2 :> 4
MCEqual == t1 :> 60 @@ t2 :> 60
MCMaintained == t1 :> 60 @@ t2 :> 48

Policy == INSTANCE Sched WITH
    Boostable <- {t1}, NonPreemptible <- {t2}, NoMigrate <- {t2}, NoLoad <- {t2}
Woken == INSTANCE Sched WITH MaxParks <- 2
Turns == INSTANCE Sched WITH BasePriority <- MCEqual
Reaper == INSTANCE Sched WITH
    BasePriority <- MCMaintained, NoMigrate <- {t2}, NoLoad <- {t2}, Maintainer <- t2

MCInit ==
    \/ case \in {"mixed", "policy", "woken"} /\ Init
    \/ case = "turns" /\ Turns!Init
    \/ case = "reaper" /\ Reaper!Init

MCNext ==
    /\ case' = case
    /\ \/ case = "mixed"  /\ Next /\ state'[t1] # "Exited" /\ sliceEnd' = {}
       \/ case = "policy" /\ Policy!Next /\ state'[t1] # "Exited"
       \/ case = "woken"  /\ Woken!Next /\ state'[t2] = "unborn"
       \/ case = "turns"  /\ Turns!Next /\ pc'[c2] = "off"
       \/ case = "reaper" /\ Reaper!Next /\ pc'[c2] = "off" /\ state'[t2] # "Exited"

\* FairSpec, in the cases whose liveness is checked.
MCSpec ==
    /\ MCInit /\ [][MCNext]_<<vars, case>>
    /\ \A c \in Cpus :
         /\ WF_vars(case = "woken" /\ Woken!Switching(c))
         /\ WF_vars(case = "woken" /\ Woken!Trap(c) /\ (timer[c] \/ kick[c] # "none"))
         /\ SF_vars(case = "woken" /\ Woken!TrapSwitch(c, TRUE))
    /\ WF_vars(case = "woken" /\ Woken!Waking(w1))
    /\ WF_vars(case = "turns" /\ Turns!Switching(c1))
    /\ WF_vars(case = "turns" /\ Turns!Trap(c1) /\ (timer[c1] \/ kick[c1] # "none"))
    /\ SF_vars(case = "turns" /\ Turns!TrapSwitch(c1, TRUE))
    /\ WF_vars(case = "turns" /\ Turns!Waking(w1))

-----------------------------------------------------------------------------
(* Properties *)

\* adopt_thread and release_thread balance: a CPU's load counts exactly the
\* threads it has adopted, uncounted ones apart.
LoadsExact ==
    CASE case = "policy" -> Policy!LoadExact
      [] case = "reaper" -> Reaper!LoadExact
      [] OTHER -> LoadExact

\* A woken thread runs, even on a CPU that went idle and stopped its timer,
\* unless the kick of that CPU was not sent because it was still starting.
WokenThreadRuns == case = "woken" => Woken!WokenRuns(t1)

\* Of two equal threads on one CPU, each gets its turn.
ReadyThreadRuns == case = "turns" => Turns!ReadyRuns(t1)

\* kick_idle_cpu says why an idle CPU needs a kick: it has stopped its timer.
\* So an idle CPU with queued work has an interrupt on its way.
IdleCpuIsKicked == \A c \in Cpus : current[c] = Idle => Noticed(c)
=============================================================================
