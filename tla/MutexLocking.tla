---------------------------- MODULE MutexLocking ----------------------------
(***************************************************************************)
(* The steps of lock() up to the park keep the inductive invariant of Mutex, *)
(* lending apart.                                                          *)
(***************************************************************************)
EXTENDS MutexInvariant

USE DEF word, waiters, lending, parking, locals, Goto

\* TryLockFast preserves the inductive invariant.
LEMMA TryLockFastPreserves == ASSUME NEW t \in Threads, IInv, TryLockFast(t) PROVE IInv'
  <1>1. TypeOK'
    BY ThreadAssumption DEF TryLockFast, IInv, TypeOK, Labels, MaxPriority
  <1>2. MutualExclusion'
    BY ThreadAssumption DEF TryLockFast, IInv, TypeOK, MutualExclusion, Holds, HoldLabels
  <1>3. GuardInv'
    BY ThreadAssumption DEF TryLockFast, IInv, TypeOK, GuardInv, GuardLabels
  <1>4. QueueInv'
    <2>1. \A u \in Threads : InQueue(u)' <=> InQueue(u)
      BY DEF TryLockFast, InQueue
    <2> QED BY <2>1 DEF TryLockFast, IInv, TypeOK, QueueInv
  <1>5. DistinctInv'
    BY ThreadAssumption DEF TryLockFast, IInv, TypeOK, DistinctInv
  <1>6. BitInv'
    BY ThreadAssumption DEF TryLockFast, IInv, TypeOK, BitInv
  <1>7. StaleInv'
    BY ThreadAssumption DEF TryLockFast, IInv, TypeOK, StaleInv
  <1>8. ParkInv'
    BY SMTT(60), ThreadAssumption DEF TryLockFast, IInv, TypeOK, ParkInv
  <1>9. LendInv'
    BY ThreadAssumption DEF TryLockFast, IInv, TypeOK, LendInv, Holds, HoldLabels
  <1>10. BoostsBalance'
    BY BoostsUnchanged DEF TryLockFast, IInv
  <1> QED BY <1>1, <1>2, <1>3, <1>4, <1>5, <1>6, <1>7, <1>8, <1>9, <1>10 DEF IInv

\* EnterSlow preserves the inductive invariant.
LEMMA EnterSlowPreserves == ASSUME NEW t \in Threads, IInv, EnterSlow(t) PROVE IInv'
  <1>1. TypeOK'
    BY ThreadAssumption DEF EnterSlow, IInv, TypeOK, Labels, MaxPriority
  <1>2. MutualExclusion'
    BY ThreadAssumption DEF EnterSlow, IInv, TypeOK, MutualExclusion, Holds, HoldLabels
  <1>3. GuardInv'
    BY ThreadAssumption DEF EnterSlow, IInv, TypeOK, GuardInv, GuardLabels
  <1>4. QueueInv'
    <2>1. \A u \in Threads : InQueue(u)' <=> InQueue(u)
      BY DEF EnterSlow, InQueue
    <2> QED BY <2>1 DEF EnterSlow, IInv, TypeOK, QueueInv
  <1>5. DistinctInv'
    BY ThreadAssumption DEF EnterSlow, IInv, TypeOK, DistinctInv
  <1>6. BitInv'
    BY ThreadAssumption DEF EnterSlow, IInv, TypeOK, BitInv
  <1>7. StaleInv'
    BY ThreadAssumption DEF EnterSlow, IInv, TypeOK, StaleInv
  <1>8. ParkInv'
    BY SMTT(60), ThreadAssumption DEF EnterSlow, IInv, TypeOK, ParkInv
  <1>9. LendInv'
    BY ThreadAssumption DEF EnterSlow, IInv, TypeOK, LendInv, Holds, HoldLabels
  <1>10. BoostsBalance'
    BY BoostsUnchanged DEF EnterSlow, IInv
  <1> QED BY <1>1, <1>2, <1>3, <1>4, <1>5, <1>6, <1>7, <1>8, <1>9, <1>10 DEF IInv

\* StopSpinning preserves the inductive invariant.
LEMMA StopSpinningPreserves == ASSUME NEW t \in Threads, IInv, StopSpinning(t) PROVE IInv'
  <1>1. TypeOK'
    BY ThreadAssumption DEF StopSpinning, IInv, TypeOK, Labels, MaxPriority
  <1>2. MutualExclusion'
    BY ThreadAssumption DEF StopSpinning, IInv, TypeOK, MutualExclusion, Holds, HoldLabels
  <1>3. GuardInv'
    BY ThreadAssumption DEF StopSpinning, IInv, TypeOK, GuardInv, GuardLabels
  <1>4. QueueInv'
    <2>1. \A u \in Threads : InQueue(u)' <=> InQueue(u)
      BY DEF StopSpinning, InQueue
    <2> QED BY <2>1 DEF StopSpinning, IInv, TypeOK, QueueInv
  <1>5. DistinctInv'
    BY ThreadAssumption DEF StopSpinning, IInv, TypeOK, DistinctInv
  <1>6. BitInv'
    BY ThreadAssumption DEF StopSpinning, IInv, TypeOK, BitInv
  <1>7. StaleInv'
    BY ThreadAssumption DEF StopSpinning, IInv, TypeOK, StaleInv
  <1>8. ParkInv'
    BY SMTT(60), ThreadAssumption DEF StopSpinning, IInv, TypeOK, ParkInv
  <1>9. LendInv'
    BY ThreadAssumption DEF StopSpinning, IInv, TypeOK, LendInv, Holds, HoldLabels
  <1>10. BoostsBalance'
    BY BoostsUnchanged DEF StopSpinning, IInv
  <1> QED BY <1>1, <1>2, <1>3, <1>4, <1>5, <1>6, <1>7, <1>8, <1>9, <1>10 DEF IInv

\* PublishOwner preserves the inductive invariant.
LEMMA PublishOwnerPreserves == ASSUME NEW t \in Threads, IInv, PublishOwner(t) PROVE IInv'
  <1>1. TypeOK'
    BY ThreadAssumption DEF PublishOwner, IInv, TypeOK, Labels, MaxPriority
  <1>2. MutualExclusion'
    BY ThreadAssumption DEF PublishOwner, IInv, TypeOK, MutualExclusion, Holds, HoldLabels
  <1>3. GuardInv'
    BY ThreadAssumption DEF PublishOwner, IInv, TypeOK, GuardInv, GuardLabels
  <1>4. QueueInv'
    <2>1. \A u \in Threads : InQueue(u)' <=> InQueue(u)
      BY DEF PublishOwner, InQueue
    <2> QED BY <2>1 DEF PublishOwner, IInv, TypeOK, QueueInv
  <1>5. DistinctInv'
    BY ThreadAssumption DEF PublishOwner, IInv, TypeOK, DistinctInv
  <1>6. BitInv'
    BY ThreadAssumption DEF PublishOwner, IInv, TypeOK, BitInv
  <1>7. StaleInv'
    BY ThreadAssumption DEF PublishOwner, IInv, TypeOK, StaleInv
  <1>8. ParkInv'
    BY SMTT(60), ThreadAssumption DEF PublishOwner, IInv, TypeOK, ParkInv
  <1>9. LendInv'
    BY ThreadAssumption DEF PublishOwner, IInv, TypeOK, LendInv, Holds, HoldLabels, MutualExclusion
  <1>10. BoostsBalance'
    BY BoostsUnchanged DEF PublishOwner, IInv
  <1> QED BY <1>1, <1>2, <1>3, <1>4, <1>5, <1>6, <1>7, <1>8, <1>9, <1>10 DEF IInv

\* AcquireGuard preserves the inductive invariant.
LEMMA AcquireGuardPreserves == ASSUME NEW t \in Threads, IInv, AcquireGuard(t) PROVE IInv'
  <1>1. TypeOK'
    BY ThreadAssumption DEF AcquireGuard, IInv, TypeOK, Labels, MaxPriority
  <1>2. MutualExclusion'
    BY ThreadAssumption DEF AcquireGuard, IInv, TypeOK, MutualExclusion, Holds, HoldLabels
  <1>3. GuardInv'
    BY ThreadAssumption DEF AcquireGuard, IInv, TypeOK, GuardInv, GuardLabels
  <1>4. QueueInv'
    <2>1. \A u \in Threads : InQueue(u)' <=> InQueue(u)
      BY DEF AcquireGuard, InQueue
    <2> QED BY <2>1 DEF AcquireGuard, IInv, TypeOK, QueueInv
  <1>5. DistinctInv'
    BY ThreadAssumption DEF AcquireGuard, IInv, TypeOK, DistinctInv
  <1>6. BitInv'
    BY ThreadAssumption DEF AcquireGuard, IInv, TypeOK, BitInv
  <1>7. StaleInv'
    BY ThreadAssumption DEF AcquireGuard, IInv, TypeOK, StaleInv
  <1>8. ParkInv'
    BY SMTT(60), ThreadAssumption DEF AcquireGuard, IInv, TypeOK, ParkInv
  <1>9. LendInv'
    BY ThreadAssumption DEF AcquireGuard, IInv, TypeOK, LendInv, Holds, HoldLabels
  <1>10. BoostsBalance'
    BY BoostsUnchanged DEF AcquireGuard, IInv
  <1> QED BY <1>1, <1>2, <1>3, <1>4, <1>5, <1>6, <1>7, <1>8, <1>9, <1>10 DEF IInv

\* SeeUnlocked preserves the inductive invariant.
LEMMA SeeUnlockedPreserves == ASSUME NEW t \in Threads, IInv, SeeUnlocked(t) PROVE IInv'
  <1>1. TypeOK'
    BY ThreadAssumption DEF SeeUnlocked, IInv, TypeOK, Labels, MaxPriority
  <1>2. MutualExclusion'
    BY ThreadAssumption DEF SeeUnlocked, IInv, TypeOK, MutualExclusion, Holds, HoldLabels
  <1>3. GuardInv'
    BY ThreadAssumption DEF SeeUnlocked, IInv, TypeOK, GuardInv, GuardLabels
  <1>4. QueueInv'
    <2>1. \A u \in Threads : InQueue(u)' <=> InQueue(u)
      BY DEF SeeUnlocked, InQueue
    <2> QED BY <2>1 DEF SeeUnlocked, IInv, TypeOK, QueueInv
  <1>5. DistinctInv'
    BY ThreadAssumption DEF SeeUnlocked, IInv, TypeOK, DistinctInv
  <1>6. BitInv'
    BY ThreadAssumption DEF SeeUnlocked, IInv, TypeOK, BitInv
  <1>7. StaleInv'
    BY ThreadAssumption DEF SeeUnlocked, IInv, TypeOK, StaleInv, BitInv, GuardInv, GuardLabels
  <1>8. ParkInv'
    BY SMTT(60), ThreadAssumption DEF SeeUnlocked, IInv, TypeOK, ParkInv
  <1>9. LendInv'
    BY ThreadAssumption DEF SeeUnlocked, IInv, TypeOK, LendInv, Holds, HoldLabels
  <1>10. BoostsBalance'
    BY BoostsUnchanged DEF SeeUnlocked, IInv
  <1> QED BY <1>1, <1>2, <1>3, <1>4, <1>5, <1>6, <1>7, <1>8, <1>9, <1>10 DEF IInv

\* SeeLocked preserves the inductive invariant.
LEMMA SeeLockedPreserves == ASSUME NEW t \in Threads, IInv, SeeLocked(t) PROVE IInv'
  <1>1. TypeOK'
    BY ThreadAssumption DEF SeeLocked, IInv, TypeOK, Labels, MaxPriority
  <1>2. MutualExclusion'
    BY ThreadAssumption DEF SeeLocked, IInv, TypeOK, MutualExclusion, Holds, HoldLabels
  <1>3. GuardInv'
    BY ThreadAssumption DEF SeeLocked, IInv, TypeOK, GuardInv, GuardLabels
  <1>4. QueueInv'
    <2>1. \A u \in Threads : InQueue(u)' <=> InQueue(u)
      BY DEF SeeLocked, InQueue
    <2> QED BY <2>1 DEF SeeLocked, IInv, TypeOK, QueueInv
  <1>5. DistinctInv'
    BY ThreadAssumption DEF SeeLocked, IInv, TypeOK, DistinctInv
  <1>6. BitInv'
    BY ThreadAssumption DEF SeeLocked, IInv, TypeOK, BitInv
  <1>7. StaleInv'
    BY ThreadAssumption DEF SeeLocked, IInv, TypeOK, StaleInv
  <1>8. ParkInv'
    BY SMTT(60), ThreadAssumption DEF SeeLocked, IInv, TypeOK, ParkInv
  <1>9. LendInv'
    BY ThreadAssumption DEF SeeLocked, IInv, TypeOK, LendInv, Holds, HoldLabels
  <1>10. BoostsBalance'
    BY BoostsUnchanged DEF SeeLocked, IInv
  <1> QED BY <1>1, <1>2, <1>3, <1>4, <1>5, <1>6, <1>7, <1>8, <1>9, <1>10 DEF IInv

\* SpinMasked preserves the inductive invariant.
LEMMA SpinMaskedPreserves == ASSUME NEW t \in Threads, IInv, SpinMasked(t) PROVE IInv'
  <1>1. TypeOK'
    BY ThreadAssumption DEF SpinMasked, IInv, TypeOK, Labels, MaxPriority
  <1>2. MutualExclusion'
    BY ThreadAssumption DEF SpinMasked, IInv, TypeOK, MutualExclusion, Holds, HoldLabels
  <1>3. GuardInv'
    BY ThreadAssumption DEF SpinMasked, IInv, TypeOK, GuardInv, GuardLabels
  <1>4. QueueInv'
    <2>1. \A u \in Threads : InQueue(u)' <=> InQueue(u)
      BY DEF SpinMasked, InQueue
    <2> QED BY <2>1 DEF SpinMasked, IInv, TypeOK, QueueInv
  <1>5. DistinctInv'
    BY ThreadAssumption DEF SpinMasked, IInv, TypeOK, DistinctInv
  <1>6. BitInv'
    BY ThreadAssumption DEF SpinMasked, IInv, TypeOK, BitInv
  <1>7. StaleInv'
    BY ThreadAssumption DEF SpinMasked, IInv, TypeOK, StaleInv
  <1>8. ParkInv'
    BY SMTT(60), ThreadAssumption DEF SpinMasked, IInv, TypeOK, ParkInv
  <1>9. LendInv'
    BY ThreadAssumption DEF SpinMasked, IInv, TypeOK, LendInv, Holds, HoldLabels
  <1>10. BoostsBalance'
    BY BoostsUnchanged DEF SpinMasked, IInv
  <1> QED BY <1>1, <1>2, <1>3, <1>4, <1>5, <1>6, <1>7, <1>8, <1>9, <1>10 DEF IInv

\* CasAcquire preserves the inductive invariant.
LEMMA CasAcquirePreserves == ASSUME NEW t \in Threads, IInv, CasAcquire(t) PROVE IInv'
  <1> <<>> \in Seq(Threads) /\ Len(<<>>) = 0
    OBVIOUS
  <1>1. TypeOK'
    BY ThreadAssumption DEF CasAcquire, IInv, TypeOK, Labels, MaxPriority
  <1>2. MutualExclusion'
    BY ThreadAssumption DEF CasAcquire, IInv, TypeOK, MutualExclusion, Holds, HoldLabels
  <1>3. GuardInv'
    BY ThreadAssumption DEF CasAcquire, IInv, TypeOK, GuardInv, GuardLabels
  <1>4. QueueInv'
    <2>1. \A u \in Threads : InQueue(u)' <=> InQueue(u)
      BY DEF CasAcquire, InQueue, IInv, StaleInv
    <2> QED BY <2>1 DEF CasAcquire, IInv, TypeOK, QueueInv
  <1>5. DistinctInv'
    BY ThreadAssumption DEF CasAcquire, IInv, TypeOK, DistinctInv
  <1>6. BitInv'
    BY ThreadAssumption DEF CasAcquire, IInv, TypeOK, BitInv
  <1>7. StaleInv'
    BY ThreadAssumption DEF CasAcquire, IInv, TypeOK, StaleInv, GuardInv, GuardLabels, MutualExclusion, Holds, HoldLabels
  <1>8. ParkInv'
    BY SMTT(60), ThreadAssumption DEF CasAcquire, IInv, TypeOK, ParkInv
  <1>9. LendInv'
    BY ThreadAssumption DEF CasAcquire, IInv, TypeOK, LendInv, Holds, HoldLabels
  <1>10. BoostsBalance'
    BY BoostsUnchanged DEF CasAcquire, IInv
  <1> QED BY <1>1, <1>2, <1>3, <1>4, <1>5, <1>6, <1>7, <1>8, <1>9, <1>10 DEF IInv

\* CasRetry preserves the inductive invariant.
LEMMA CasRetryPreserves == ASSUME NEW t \in Threads, IInv, CasRetry(t) PROVE IInv'
  <1>1. TypeOK'
    BY ThreadAssumption DEF CasRetry, IInv, TypeOK, Labels, MaxPriority
  <1>2. MutualExclusion'
    BY ThreadAssumption DEF CasRetry, IInv, TypeOK, MutualExclusion, Holds, HoldLabels
  <1>3. GuardInv'
    BY ThreadAssumption DEF CasRetry, IInv, TypeOK, GuardInv, GuardLabels
  <1>4. QueueInv'
    <2>1. \A u \in Threads : InQueue(u)' <=> InQueue(u)
      BY DEF CasRetry, InQueue
    <2> QED BY <2>1 DEF CasRetry, IInv, TypeOK, QueueInv
  <1>5. DistinctInv'
    BY ThreadAssumption DEF CasRetry, IInv, TypeOK, DistinctInv
  <1>6. BitInv'
    BY ThreadAssumption DEF CasRetry, IInv, TypeOK, BitInv
  <1>7. StaleInv'
    BY ThreadAssumption DEF CasRetry, IInv, TypeOK, StaleInv
  <1>8. ParkInv'
    BY SMTT(60), ThreadAssumption DEF CasRetry, IInv, TypeOK, ParkInv
  <1>9. LendInv'
    BY ThreadAssumption DEF CasRetry, IInv, TypeOK, LendInv, Holds, HoldLabels
  <1>10. BoostsBalance'
    BY BoostsUnchanged DEF CasRetry, IInv
  <1> QED BY <1>1, <1>2, <1>3, <1>4, <1>5, <1>6, <1>7, <1>8, <1>9, <1>10 DEF IInv

\* PublishLocked preserves the inductive invariant.
LEMMA PublishLockedPreserves == ASSUME NEW t \in Threads, IInv, PublishLocked(t) PROVE IInv'
  <1>1. TypeOK'
    BY ThreadAssumption DEF PublishLocked, IInv, TypeOK, Labels, MaxPriority
  <1>2. MutualExclusion'
    BY ThreadAssumption DEF PublishLocked, IInv, TypeOK, MutualExclusion, Holds, HoldLabels
  <1>3. GuardInv'
    BY ThreadAssumption DEF PublishLocked, IInv, TypeOK, GuardInv, GuardLabels
  <1>4. QueueInv'
    <2>1. \A u \in Threads : InQueue(u)' <=> InQueue(u)
      BY DEF PublishLocked, InQueue
    <2> QED BY <2>1 DEF PublishLocked, IInv, TypeOK, QueueInv
  <1>5. DistinctInv'
    BY ThreadAssumption DEF PublishLocked, IInv, TypeOK, DistinctInv
  <1>6. BitInv'
    BY ThreadAssumption DEF PublishLocked, IInv, TypeOK, BitInv
  <1>7. StaleInv'
    BY ThreadAssumption DEF PublishLocked, IInv, TypeOK, StaleInv
  <1>8. ParkInv'
    BY SMTT(60), ThreadAssumption DEF PublishLocked, IInv, TypeOK, ParkInv
  <1>9. LendInv'
    BY ThreadAssumption DEF PublishLocked, IInv, TypeOK, LendInv, Holds, HoldLabels, MutualExclusion
  <1>10. BoostsBalance'
    BY BoostsUnchanged DEF PublishLocked, IInv
  <1> QED BY <1>1, <1>2, <1>3, <1>4, <1>5, <1>6, <1>7, <1>8, <1>9, <1>10 DEF IInv

\* Enqueue preserves the inductive invariant.
LEMMA EnqueuePreserves == ASSUME NEW t \in Threads, IInv, Enqueue(t) PROVE IInv'
  <1>a. /\ queue \in Seq(Threads) /\ Len(queue) \in Nat
        /\ queue' \in Seq(Threads)
        /\ Len(queue') = Len(queue) + 1
        /\ queue'[Len(queue) + 1] = t
        /\ \A i \in 1 .. Len(queue) : queue'[i] = queue[i]
    BY AppendFacts DEF Enqueue, IInv, TypeOK
  <1>b. ~InQueue(t) /\ ~granted[t] /\ boosted[t] = NoThread
    BY DEF Enqueue, IInv, QueueInv, StaleInv, LendInv
  <1>c. \A u \in Threads : InQueue(u)' <=> InQueue(u) \/ u = t
    BY <1>a DEF InQueue
  <1>d. granted' = granted /\ boosted' = boosted
    BY <1>b DEF Enqueue, IInv, TypeOK
  <1>e. guard = t /\ \A u \in Threads : pc[u] \in GuardLabels => u = t
    BY DEF Enqueue, IInv, GuardInv, GuardLabels
  <1>1. TypeOK'
    <2>1. queue' \in Seq(Threads) /\ boosted' \in [Threads -> Threads \cup {NoThread}]
      BY <1>a, <1>d DEF IInv, TypeOK
    <2>2. parkSeq' \in [Threads -> Nat]
      BY DEF Enqueue, IInv, TypeOK
    <2> QED BY <1>d, <2>1, <2>2 DEF Enqueue, IInv, TypeOK, Labels
  <1>2. MutualExclusion'
    BY SMTT(60), <1>d DEF Enqueue, IInv, TypeOK, MutualExclusion, Holds, HoldLabels
  <1>3. GuardInv'
    BY ThreadAssumption DEF Enqueue, IInv, TypeOK, GuardInv, GuardLabels
  <1>4. QueueInv'
    BY <1>c, <1>d DEF Enqueue, IInv, TypeOK, QueueInv
  <1>5. DistinctInv'
    <2>1. \A i \in 1 .. Len(queue) : queue[i] # t
      BY <1>b DEF InQueue
    <2>2. \A i \in 1 .. Len(queue') : i \in 1 .. Len(queue) \/ i = Len(queue) + 1
      BY <1>a
    <2> QED BY <1>a, <2>1, <2>2 DEF IInv, DistinctInv
  <1>6. BitInv'
    <2>1. queued <=> Len(queue) >= 1
      BY <1>a, <1>e DEF Enqueue, IInv, BitInv, GuardLabels
    <2>2. pc'[t] = "publishq"
      BY DEF Enqueue, IInv, TypeOK
    <2> QED BY <1>a, <2>1, <2>2 DEF Enqueue, IInv, BitInv
  <1>7. StaleInv'
    BY <1>d, <1>e DEF Enqueue, IInv, TypeOK, StaleInv, GuardLabels
  <1>8. ParkInv'
    BY SMTT(60), <1>d DEF Enqueue, IInv, TypeOK, ParkInv
  <1>9. LendInv'
    BY <1>d DEF Enqueue, IInv, TypeOK, LendInv, Holds, HoldLabels
  <1>10. BoostsBalance'
    BY <1>d, BoostsUnchanged DEF Enqueue, IInv
  <1> QED BY <1>1, <1>2, <1>3, <1>4, <1>5, <1>6, <1>7, <1>8, <1>9, <1>10 DEF IInv

\* PublishQueued preserves the inductive invariant.
LEMMA PublishQueuedPreserves == ASSUME NEW t \in Threads, IInv, PublishQueued(t) PROVE IInv'
  <1>1. TypeOK'
    BY ThreadAssumption DEF PublishQueued, IInv, TypeOK, Labels, MaxPriority
  <1>2. MutualExclusion'
    BY ThreadAssumption DEF PublishQueued, IInv, TypeOK, MutualExclusion, Holds, HoldLabels
  <1>3. GuardInv'
    BY ThreadAssumption DEF PublishQueued, IInv, TypeOK, GuardInv, GuardLabels
  <1>4. QueueInv'
    <2>1. \A u \in Threads : InQueue(u)' <=> InQueue(u)
      BY DEF PublishQueued, InQueue
    <2> QED BY <2>1 DEF PublishQueued, IInv, TypeOK, QueueInv
  <1>5. DistinctInv'
    BY ThreadAssumption DEF PublishQueued, IInv, TypeOK, DistinctInv
  <1>6. BitInv'
    BY ThreadAssumption DEF PublishQueued, IInv, TypeOK, BitInv, GuardInv, GuardLabels, QueueInv, InQueue
  <1>7. StaleInv'
    BY ThreadAssumption DEF PublishQueued, IInv, TypeOK, StaleInv
  <1>8. ParkInv'
    BY SMTT(60), ThreadAssumption DEF PublishQueued, IInv, TypeOK, ParkInv
  <1>9. LendInv'
    BY ThreadAssumption DEF PublishQueued, IInv, TypeOK, LendInv, Holds, HoldLabels
  <1>10. BoostsBalance'
    BY BoostsUnchanged DEF PublishQueued, IInv
  <1> QED BY <1>1, <1>2, <1>3, <1>4, <1>5, <1>6, <1>7, <1>8, <1>9, <1>10 DEF IInv

\* SelfAcquire preserves the inductive invariant.
LEMMA SelfAcquirePreserves == ASSUME NEW t \in Threads, IInv, SelfAcquire(t) PROVE IInv'
  <1> <<>> \in Seq(Threads) /\ Len(<<>>) = 0
    OBVIOUS
  <1>1. TypeOK'
    BY ThreadAssumption DEF SelfAcquire, IInv, TypeOK, Labels, MaxPriority
  <1>2. MutualExclusion'
    BY ThreadAssumption DEF SelfAcquire, IInv, TypeOK, MutualExclusion, Holds, HoldLabels
  <1>3. GuardInv'
    BY ThreadAssumption DEF SelfAcquire, IInv, TypeOK, GuardInv, GuardLabels
  <1>4. QueueInv'
    <2>1. \A u \in Threads : ~InQueue(u)'
      BY DEF SelfAcquire, InQueue
    <2>2. Len(queue) <= 1 /\ Len(queue) \in Nat
      BY DEF SelfAcquire, IInv, TypeOK, BitInv
    <2>3. InQueue(t)
      BY DEF SelfAcquire, IInv, QueueInv
    <2>4. \A u \in Threads : InQueue(u) => u = t
      BY <2>2, <2>3 DEF InQueue
    <2> QED BY <2>1, <2>4 DEF SelfAcquire, IInv, TypeOK, QueueInv
  <1>5. DistinctInv'
    BY ThreadAssumption DEF SelfAcquire, IInv, TypeOK, DistinctInv
  <1>6. BitInv'
    BY ThreadAssumption DEF SelfAcquire, IInv, TypeOK, BitInv
  <1>7. StaleInv'
    BY ThreadAssumption DEF SelfAcquire, IInv, TypeOK, StaleInv, GuardInv, GuardLabels, MutualExclusion, Holds, HoldLabels
  <1>8. ParkInv'
    BY SMTT(60), ThreadAssumption DEF SelfAcquire, IInv, TypeOK, ParkInv
  <1>9. LendInv'
    BY ThreadAssumption DEF SelfAcquire, IInv, TypeOK, LendInv, Holds, HoldLabels, MutualExclusion
  <1>10. BoostsBalance'
    BY BoostsUnchanged DEF SelfAcquire, IInv
  <1> QED BY <1>1, <1>2, <1>3, <1>4, <1>5, <1>6, <1>7, <1>8, <1>9, <1>10 DEF IInv

\* SelfWake preserves the inductive invariant.
LEMMA SelfWakePreserves == ASSUME NEW t \in Threads, IInv, SelfWake(t) PROVE IInv'
  <1>1. TypeOK'
    BY ThreadAssumption DEF SelfWake, Wakeable, IInv, TypeOK, Labels, MaxPriority
  <1>2. MutualExclusion'
    BY ThreadAssumption DEF SelfWake, Wakeable, IInv, TypeOK, MutualExclusion, Holds, HoldLabels
  <1>3. GuardInv'
    BY ThreadAssumption DEF SelfWake, Wakeable, IInv, TypeOK, GuardInv, GuardLabels
  <1>4. QueueInv'
    <2>1. \A u \in Threads : InQueue(u)' <=> InQueue(u)
      BY DEF SelfWake, InQueue
    <2> QED BY <2>1 DEF SelfWake, Wakeable, IInv, TypeOK, QueueInv
  <1>5. DistinctInv'
    BY ThreadAssumption DEF SelfWake, Wakeable, IInv, TypeOK, DistinctInv
  <1>6. BitInv'
    BY ThreadAssumption DEF SelfWake, Wakeable, IInv, TypeOK, BitInv
  <1>7. StaleInv'
    BY ThreadAssumption DEF SelfWake, Wakeable, IInv, TypeOK, StaleInv
  <1>8. ParkInv'
    BY SMTT(60), ThreadAssumption DEF SelfWake, Wakeable, IInv, TypeOK, ParkInv
  <1>9. LendInv'
    BY ThreadAssumption DEF SelfWake, Wakeable, IInv, TypeOK, LendInv, Holds, HoldLabels
  <1>10. BoostsBalance'
    BY BoostsUnchanged DEF SelfWake, IInv
  <1> QED BY <1>1, <1>2, <1>3, <1>4, <1>5, <1>6, <1>7, <1>8, <1>9, <1>10 DEF IInv
=============================================================================
