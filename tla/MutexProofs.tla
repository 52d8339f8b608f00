---------------------------- MODULE MutexProofs ----------------------------
(***************************************************************************)
(* Mutex is correct for every set of threads, every priority assignment    *)
(* and every number of lock calls.                                         *)
(***************************************************************************)
EXTENDS MutexLocking, MutexUnlocking, MutexHandoff

USE DEF word, waiters, lending, parking, locals, Goto

\* Every step of the mutex preserves the inductive invariant.
LEMMA NextInv == ASSUME IInv, [Next]_vars PROVE IInv'
  <1>1. CASE UNCHANGED vars
    <2>1. BoostsBalance'
      BY <1>1, BoostsUnchanged DEF vars, IInv
    <2>2. TypeOK' /\ MutualExclusion' /\ GuardInv' /\ QueueInv' /\ DistinctInv'
      BY <1>1 DEF vars, IInv, TypeOK, MutualExclusion, GuardInv, QueueInv, DistinctInv,
         InQueue, Holds
    <2>3. BitInv' /\ StaleInv' /\ ParkInv' /\ LendInv'
      BY <1>1 DEF vars, IInv, BitInv, StaleInv, ParkInv, LendInv, Holds
    <2> QED BY <2>1, <2>2, <2>3 DEF IInv
  <1>2. ASSUME NEW t \in Threads,
               TryLockFast(t) \/ EnterSlow(t) \/ ClearOwner(t) \/ Running(t)
        PROVE  IInv'
    BY <1>2, TryLockFastPreserves, EnterSlowPreserves, ClearOwnerPreserves,
       StopSpinningPreserves, PublishOwnerPreserves, AcquireGuardPreserves,
       SeeUnlockedPreserves, SeeLockedPreserves, SpinMaskedPreserves,
       CasAcquirePreserves, CasRetryPreserves, PublishLockedPreserves,
       EnqueuePreserves, PublishQueuedPreserves, SelfAcquirePreserves,
       SelfWakePreserves, LendToOwnerPreserves, ParkPreserves,
       ParkRefusedPreserves, ResumePreserves, ReturnGrantedPreserves,
       UnlockCasPreserves, UnlockContendedPreserves, UnlockGuardPreserves,
       HandoffPreserves, WakeTargetPreserves DEF Running
  <1> QED BY <1>1, <1>2 DEF Next

\* IInv holds in every reachable state of the mutex.
THEOREM Invariance == Spec => []IInv
  BY InitInv, NextInv, PTL DEF Spec

\* The mutex word, the waiters and the park words stay well typed.
THEOREM TypeCorrect == Spec => []TypeOK
  <1>1. IInv => TypeOK
    BY DEF IInv
  <1> QED BY <1>1, Invariance, PTL

\* At most one thread owns the mutex, and LOCKED says whether one does, for
\* every interleaving of the fast paths, the slow path and direct handoff.
THEOREM MutualExclusionHolds == Spec => []MutualExclusion
  <1>1. IInv => MutualExclusion
    BY DEF IInv
  <1> QED BY <1>1, Invariance, PTL

\* The QUEUED bit never misses a linked waiter.
THEOREM NoWaiterIsLost == Spec => []NoLostWaiter
  <1>1. IInv => NoLostWaiter
    <2> SUFFICES ASSUME IInv, guard = NoThread PROVE NoLostWaiter
      BY DEF NoLostWaiter
    <2>1. ~\E t \in Threads : pc[t] = "publishq"
      BY ThreadAssumption DEF IInv, GuardInv, GuardLabels
    <2> QED BY <2>1 DEF IInv, BitInv, MutualExclusion, NoLostWaiter
  <1> QED BY <1>1, Invariance, PTL

\* The wake of a granted waiter is never stale, and a thread that comes back
\* from park_current has always been granted the lock.
THEOREM WakesAreExact == Spec => [](NoStaleWake /\ GrantedOnReturn)
  <1>1. IInv => NoStaleWake /\ GrantedOnReturn
    BY DEF IInv, ParkInv, NoStaleWake, GrantedOnReturn, Wakeable
  <1> QED BY <1>1, Invariance, PTL

\* boost_count counts exactly the queued waiters lending to a thread, and only
\* the current holder ever inherits a priority.
THEOREM BoostsAreExact == Spec => [](BoostsBalance /\ BoostOnlyHolder)
  <1>1. IInv => BoostsBalance /\ BoostOnlyHolder
    <2> SUFFICES ASSUME IInv PROVE BoostsBalance /\ BoostOnlyHolder
      OBVIOUS
    <2>1. \A w \in Threads : InQueue(w) => w \in QueuedThreads(queue)
      BY DEF InQueue, QueuedThreads, IInv, TypeOK
    <2>2. BoostOnlyHolder
      BY <2>1 DEF IInv, QueueInv, LendInv, BoostOnlyHolder
    <2> QED BY <2>2 DEF IInv
  <1> QED BY <1>1, Invariance, PTL
=============================================================================
