--------------------------- MODULE MutexUnlocking ---------------------------
(***************************************************************************)
(* Lending, parking, and the steps of unlock() before the handoff keep the *)
(* inductive invariant of Mutex.                                           *)
(***************************************************************************)
EXTENDS MutexInvariant

USE DEF word, waiters, lending, parking, locals, Goto

\* LendToOwner preserves the inductive invariant.
LEMMA LendToOwnerPreserves == ASSUME NEW t \in Threads, IInv, LendToOwner(t) PROVE IInv'
  <1>1. TypeOK'
    <2>1. CASE owner = NoThread
      BY <2>1, ThreadAssumption DEF LendToOwner, IInv, TypeOK, Labels
    <2>2. CASE owner # NoThread
      <3>1. owner \in Threads /\ MinPriority(lent[owner], Priority[t]) \in 0 .. MaxPriority
        BY <2>2, PriorityAssumption DEF MinPriority, IInv, TypeOK, MaxPriority
      <3>2. boosted' \in [Threads -> Threads \cup {NoThread}]
        BY <2>2, <3>1 DEF LendToOwner, IInv, TypeOK
      <3>3. boostCount' \in [Threads -> Nat]
        <4>1. boostCount' = [boostCount EXCEPT ![owner] = boostCount[owner] + 1]
          BY <2>2 DEF LendToOwner
        <4>2. boostCount \in [Threads -> Nat] /\ boostCount[owner] + 1 \in Nat
          BY <3>1 DEF IInv, TypeOK
        <4> QED BY <3>1, <4>1, <4>2
      <3>4. lent' \in [Threads -> 0 .. MaxPriority]
        BY <2>2, <3>1 DEF LendToOwner, IInv, TypeOK
      <3>5. /\ guard' = NoThread /\ pc' = [pc EXCEPT ![t] = "park"]
            /\ UNCHANGED <<word, queue, granted, parking, locals>>
        BY DEF LendToOwner
      <3> QED BY <3>2, <3>3, <3>4, <3>5 DEF IInv, TypeOK, Labels
    <2> QED BY <2>1, <2>2
  <1>2. MutualExclusion'
    BY ThreadAssumption DEF LendToOwner, MinPriority, IInv, TypeOK, MutualExclusion, Holds, HoldLabels
  <1>3. GuardInv'
    BY ThreadAssumption DEF LendToOwner, MinPriority, IInv, TypeOK, GuardInv, GuardLabels
  <1>4. QueueInv'
    <2>1. \A u \in Threads : InQueue(u)' <=> InQueue(u)
      BY DEF LendToOwner, InQueue
    <2> QED BY <2>1 DEF LendToOwner, MinPriority, IInv, TypeOK, QueueInv, StaleInv
  <1>5. DistinctInv'
    BY ThreadAssumption DEF LendToOwner, MinPriority, IInv, TypeOK, DistinctInv
  <1>6. BitInv'
    BY ThreadAssumption DEF LendToOwner, MinPriority, IInv, TypeOK, BitInv
  <1>7. StaleInv'
    BY ThreadAssumption DEF LendToOwner, MinPriority, IInv, TypeOK, StaleInv
  <1>8. ParkInv'
    BY SMTT(60), ThreadAssumption DEF LendToOwner, MinPriority, IInv, TypeOK, ParkInv
  <1>9. LendInv'
    <2>1. /\ pc' = [pc EXCEPT ![t] = "park"] /\ pc[t] = "lend"
          /\ granted' = granted /\ owner' = owner /\ ~granted[t]
      BY DEF LendToOwner, IInv, StaleInv
    <2>2. \A u \in Threads : Holds(u)' <=> Holds(u)
      BY <2>1 DEF IInv, TypeOK, Holds, HoldLabels
    <2>3. \A w \in Threads : boosted'[w] = boosted[w] \/ (w = t /\ boosted'[w] = owner)
      BY DEF LendToOwner, IInv, TypeOK
    <2>4. owner \in Threads \cup {NoThread} /\ boosted \in [Threads -> Threads \cup {NoThread}]
      BY DEF IInv, TypeOK
    <2>5. owner' # NoThread => Holds(owner)'
      BY <2>1, <2>2, <2>4 DEF IInv, LendInv
    <2>6. \A w \in Threads : boosted'[w] # NoThread =>
            pc'[w] \in {"park", "parked"} /\ ~granted'[w]
      BY <2>1, <2>3 DEF IInv, LendInv, TypeOK
    <2>7. ASSUME NEW w \in Threads, boosted'[w] # NoThread PROVE Holds(boosted[w])'
      <3>1. PICK b \in Threads : b = boosted'[w]
        BY <2>3, <2>4, <2>7
      <3>2. Holds(b)
        BY <2>3, <2>7, <3>1 DEF IInv, LendInv
      <3> QED BY <2>2, <3>1, <3>2 DEF Holds
    <2>8. \A u \in Threads : pc'[u] \in {"ucas", "uslow", "handoff"} => owner' = NoThread
      BY <2>1 DEF IInv, LendInv, TypeOK
    <2> QED BY <2>5, <2>6, <2>7, <2>8 DEF LendInv
  <1>10. BoostsBalance'
    <2>1. CASE owner = NoThread
      BY <2>1, BoostsUnchanged DEF LendToOwner, IInv
    <2>2. CASE owner # NoThread
      <3>0. PICK o \in Threads : o = owner
        BY <2>2 DEF IInv, TypeOK
      <3>1. boosted[t] = NoThread
        BY DEF LendToOwner, IInv, TypeOK, LendInv
      <3>2. \A u \in Threads \ {o} : Donors(Threads, u)' = Donors(Threads, u)
        BY <3>0, <3>1, ThreadAssumption DEF LendToOwner, Donors, IInv, TypeOK
      <3>3. /\ Donors(Threads, o)' = Donors(Threads, o) \cup {t}
            /\ t \notin Donors(Threads, o)
        BY <2>2, <3>0, <3>1, ThreadAssumption DEF LendToOwner, Donors, IInv, TypeOK
      <3>4. Cardinality(Donors(Threads, o)') = Cardinality(Donors(Threads, o)) + 1
        <4>1. IsFiniteSet(Donors(Threads, o))
          BY ThreadAssumption, FS_Subset DEF Donors
        <4> QED BY <3>3, <4>1, FS_AddElement
      <3>5. lent'[o] = LowestPriority(Donors(Threads, o)', MaxPriority)
        <4> DEFINE D == Donors(Threads, o)
                   p == MinPriority(lent[o], Priority[t])
        <4>1. D \in SUBSET Threads /\ lent[o] = LowestPriority(D, MaxPriority)
          BY <3>0, <3>1 DEF Donors, IInv, BoostsBalance
        <4>2. Priority[t] \in 0 .. MaxPriority /\ MaxPriority \in 0 .. MaxPriority
          BY PriorityAssumption DEF MaxPriority
        <4>3. /\ lent[o] \in 0 .. MaxPriority
              /\ lent[o] = MaxPriority \/ \E w \in D : lent[o] = Priority[w]
              /\ lent[o] <= MaxPriority
              /\ \A w \in D : lent[o] <= Priority[w]
          BY <4>1, <4>2, LowestFacts
        <4>4. /\ p \in 0 .. MaxPriority
              /\ p = MaxPriority \/ \E w \in D \cup {t} : p = Priority[w]
              /\ p <= MaxPriority
              /\ \A w \in D \cup {t} : p <= Priority[w]
          <5> HIDE DEF D
          <5>1. CASE lent[o] < Priority[t]
            <6>1. p = lent[o]
              BY <5>1 DEF MinPriority
            <6> QED BY <6>1, <5>1, <4>2, <4>3
          <5>2. CASE ~(lent[o] < Priority[t])
            <6>1. p = Priority[t]
              BY <5>2 DEF MinPriority
            <6>2. \A w \in D : Priority[w] \in 0 .. MaxPriority
              BY <4>1, PriorityAssumption
            <6>3. Priority[t] <= lent[o]
              <7>1. lent[o] \in Int /\ Priority[t] \in Int
                BY <4>2, <4>3
              <7> QED BY <5>2, <7>1
            <6>4. ASSUME NEW w \in D PROVE Priority[t] <= Priority[w]
              <7>1. lent[o] \in Int /\ Priority[t] \in Int /\ Priority[w] \in Int
                BY <4>2, <4>3, <6>2
              <7>2. lent[o] <= Priority[w]
                BY <4>3
              <7> QED BY <6>3, <7>1, <7>2
            <6>5. Priority[t] <= Priority[t] /\ Priority[t] <= MaxPriority
              BY <4>2 DEF MaxPriority
            <6> QED BY <6>1, <6>4, <6>5, <4>2
          <5> QED BY <5>1, <5>2
        <4>5. LowestPriority(D \cup {t}, MaxPriority) = p
          <5>1. D \cup {t} \in SUBSET Threads
            BY <4>1
          <5> HIDE DEF D, p
          <5> QED BY <5>1, <4>2, <4>4, LowestUnique
        <4>6. lent'[o] = p
          BY <2>2, <3>0, <3>1 DEF LendToOwner, IInv, TypeOK
        <4> QED BY <3>3, <4>5, <4>6
      <3>6. \A u \in Threads \ {o} : boostCount'[u] = boostCount[u] /\ lent'[u] = lent[u]
        BY <2>2, <3>0, <3>1 DEF LendToOwner, IInv, TypeOK
      <3>7. boostCount'[o] = boostCount[o] + 1
        BY <2>2, <3>0, <3>1 DEF LendToOwner, IInv, TypeOK
      <3>9. ASSUME NEW u \in Threads
            PROVE  /\ boostCount'[u] = Cardinality(Donors(Threads, u)')
                   /\ lent'[u] = LowestPriority(Donors(Threads, u)', MaxPriority)
        <4>1. CASE u = o
          BY <4>1, <3>1, <3>4, <3>5, <3>7 DEF IInv, BoostsBalance
        <4>2. CASE u # o
          BY <4>2, <3>2, <3>6 DEF IInv, BoostsBalance
        <4> QED BY <4>1, <4>2
      <3> QED BY <3>9 DEF BoostsBalance
    <2> QED BY <2>1, <2>2
  <1> QED BY <1>1, <1>2, <1>3, <1>4, <1>5, <1>6, <1>7, <1>8, <1>9, <1>10 DEF IInv

\* Park preserves the inductive invariant.
LEMMA ParkPreserves == ASSUME NEW t \in Threads, IInv, Park(t) PROVE IInv'
  <1>1. TypeOK'
    BY ThreadAssumption DEF Park, IInv, TypeOK, Labels, MaxPriority
  <1>2. MutualExclusion'
    BY ThreadAssumption DEF Park, IInv, TypeOK, MutualExclusion, Holds, HoldLabels
  <1>3. GuardInv'
    BY ThreadAssumption DEF Park, IInv, TypeOK, GuardInv, GuardLabels
  <1>4. QueueInv'
    <2>1. \A u \in Threads : InQueue(u)' <=> InQueue(u)
      BY DEF Park, InQueue
    <2> QED BY <2>1 DEF Park, IInv, TypeOK, QueueInv
  <1>5. DistinctInv'
    BY ThreadAssumption DEF Park, IInv, TypeOK, DistinctInv
  <1>6. BitInv'
    BY ThreadAssumption DEF Park, IInv, TypeOK, BitInv
  <1>7. StaleInv'
    BY ThreadAssumption DEF Park, IInv, TypeOK, StaleInv
  <1>8. ParkInv'
    BY SMTT(60), ThreadAssumption DEF Park, IInv, TypeOK, ParkInv
  <1>9. LendInv'
    BY ThreadAssumption DEF Park, IInv, TypeOK, LendInv, Holds, HoldLabels
  <1>10. BoostsBalance'
    BY BoostsUnchanged DEF Park, IInv
  <1> QED BY <1>1, <1>2, <1>3, <1>4, <1>5, <1>6, <1>7, <1>8, <1>9, <1>10 DEF IInv

\* ParkRefused preserves the inductive invariant.
LEMMA ParkRefusedPreserves == ASSUME NEW t \in Threads, IInv, ParkRefused(t) PROVE IInv'
  <1>1. TypeOK'
    BY ThreadAssumption DEF ParkRefused, IInv, TypeOK, Labels, MaxPriority
  <1>2. MutualExclusion'
    BY ThreadAssumption DEF ParkRefused, IInv, TypeOK, MutualExclusion, Holds, HoldLabels
  <1>3. GuardInv'
    BY ThreadAssumption DEF ParkRefused, IInv, TypeOK, GuardInv, GuardLabels
  <1>4. QueueInv'
    <2>1. \A u \in Threads : InQueue(u)' <=> InQueue(u)
      BY DEF ParkRefused, InQueue
    <2> QED BY <2>1 DEF ParkRefused, IInv, TypeOK, QueueInv, ParkInv
  <1>5. DistinctInv'
    BY ThreadAssumption DEF ParkRefused, IInv, TypeOK, DistinctInv
  <1>6. BitInv'
    BY ThreadAssumption DEF ParkRefused, IInv, TypeOK, BitInv
  <1>7. StaleInv'
    BY ThreadAssumption DEF ParkRefused, IInv, TypeOK, StaleInv
  <1>8. ParkInv'
    BY SMTT(60), ThreadAssumption DEF ParkRefused, IInv, TypeOK, ParkInv
  <1>9. LendInv'
    BY ThreadAssumption DEF ParkRefused, IInv, TypeOK, LendInv, Holds, HoldLabels, ParkInv
  <1>10. BoostsBalance'
    BY BoostsUnchanged DEF ParkRefused, IInv
  <1> QED BY <1>1, <1>2, <1>3, <1>4, <1>5, <1>6, <1>7, <1>8, <1>9, <1>10 DEF IInv

\* Resume preserves the inductive invariant.
LEMMA ResumePreserves == ASSUME NEW t \in Threads, IInv, Resume(t) PROVE IInv'
  <1>1. TypeOK'
    BY ThreadAssumption DEF Resume, IInv, TypeOK, Labels, MaxPriority
  <1>2. MutualExclusion'
    BY ThreadAssumption DEF Resume, IInv, TypeOK, MutualExclusion, Holds, HoldLabels
  <1>3. GuardInv'
    BY ThreadAssumption DEF Resume, IInv, TypeOK, GuardInv, GuardLabels
  <1>4. QueueInv'
    <2>1. \A u \in Threads : InQueue(u)' <=> InQueue(u)
      BY DEF Resume, InQueue
    <2> QED BY <2>1 DEF Resume, IInv, TypeOK, QueueInv, ParkInv
  <1>5. DistinctInv'
    BY ThreadAssumption DEF Resume, IInv, TypeOK, DistinctInv
  <1>6. BitInv'
    BY ThreadAssumption DEF Resume, IInv, TypeOK, BitInv
  <1>7. StaleInv'
    BY ThreadAssumption DEF Resume, IInv, TypeOK, StaleInv
  <1>8. ParkInv'
    BY SMTT(60), ThreadAssumption DEF Resume, IInv, TypeOK, ParkInv
  <1>9. LendInv'
    BY ThreadAssumption DEF Resume, IInv, TypeOK, LendInv, Holds, HoldLabels, ParkInv
  <1>10. BoostsBalance'
    BY BoostsUnchanged DEF Resume, IInv
  <1> QED BY <1>1, <1>2, <1>3, <1>4, <1>5, <1>6, <1>7, <1>8, <1>9, <1>10 DEF IInv

\* ReturnGranted preserves the inductive invariant.
LEMMA ReturnGrantedPreserves == ASSUME NEW t \in Threads, IInv, ReturnGranted(t) PROVE IInv'
  <1>1. TypeOK'
    BY ThreadAssumption DEF ReturnGranted, IInv, TypeOK, Labels, MaxPriority
  <1>2. MutualExclusion'
    BY SMTT(60), ThreadAssumption DEF ReturnGranted, IInv, TypeOK, MutualExclusion, Holds, HoldLabels
  <1>3. GuardInv'
    BY ThreadAssumption DEF ReturnGranted, IInv, TypeOK, GuardInv, GuardLabels
  <1>4. QueueInv'
    <2>1. \A u \in Threads : InQueue(u)' <=> InQueue(u)
      BY DEF ReturnGranted, InQueue
    <2> QED BY <2>1 DEF ReturnGranted, IInv, TypeOK, QueueInv
  <1>5. DistinctInv'
    BY ThreadAssumption DEF ReturnGranted, IInv, TypeOK, DistinctInv
  <1>6. BitInv'
    BY ThreadAssumption DEF ReturnGranted, IInv, TypeOK, BitInv
  <1>7. StaleInv'
    BY ThreadAssumption DEF ReturnGranted, IInv, TypeOK, StaleInv
  <1>8. ParkInv'
    BY SMTT(60), ThreadAssumption DEF ReturnGranted, IInv, TypeOK, ParkInv
  <1>9. LendInv'
    BY ThreadAssumption DEF ReturnGranted, IInv, TypeOK, LendInv, Holds, HoldLabels
  <1>10. BoostsBalance'
    BY BoostsUnchanged DEF ReturnGranted, IInv
  <1> QED BY <1>1, <1>2, <1>3, <1>4, <1>5, <1>6, <1>7, <1>8, <1>9, <1>10 DEF IInv

\* ClearOwner preserves the inductive invariant.
LEMMA ClearOwnerPreserves == ASSUME NEW t \in Threads, IInv, ClearOwner(t) PROVE IInv'
  <1>1. TypeOK'
    BY ThreadAssumption DEF ClearOwner, IInv, TypeOK, Labels, MaxPriority
  <1>2. MutualExclusion'
    BY ThreadAssumption DEF ClearOwner, IInv, TypeOK, MutualExclusion, Holds, HoldLabels
  <1>3. GuardInv'
    BY ThreadAssumption DEF ClearOwner, IInv, TypeOK, GuardInv, GuardLabels
  <1>4. QueueInv'
    <2>1. \A u \in Threads : InQueue(u)' <=> InQueue(u)
      BY DEF ClearOwner, InQueue
    <2> QED BY <2>1 DEF ClearOwner, IInv, TypeOK, QueueInv
  <1>5. DistinctInv'
    BY ThreadAssumption DEF ClearOwner, IInv, TypeOK, DistinctInv
  <1>6. BitInv'
    BY ThreadAssumption DEF ClearOwner, IInv, TypeOK, BitInv
  <1>7. StaleInv'
    BY ThreadAssumption DEF ClearOwner, IInv, TypeOK, StaleInv
  <1>8. ParkInv'
    BY SMTT(60), ThreadAssumption DEF ClearOwner, IInv, TypeOK, ParkInv
  <1>9. LendInv'
    BY ThreadAssumption DEF ClearOwner, IInv, TypeOK, LendInv, Holds, HoldLabels
  <1>10. BoostsBalance'
    BY BoostsUnchanged DEF ClearOwner, IInv
  <1> QED BY <1>1, <1>2, <1>3, <1>4, <1>5, <1>6, <1>7, <1>8, <1>9, <1>10 DEF IInv

\* UnlockCas preserves the inductive invariant.
LEMMA UnlockCasPreserves == ASSUME NEW t \in Threads, IInv, UnlockCas(t) PROVE IInv'
  <1>1. TypeOK'
    BY ThreadAssumption DEF UnlockCas, IInv, TypeOK, Labels, MaxPriority
  <1>2. MutualExclusion'
    BY ThreadAssumption DEF UnlockCas, IInv, TypeOK, MutualExclusion, Holds, HoldLabels, StaleInv
  <1>3. GuardInv'
    BY ThreadAssumption DEF UnlockCas, IInv, TypeOK, GuardInv, GuardLabels
  <1>4. QueueInv'
    <2>1. \A u \in Threads : InQueue(u)' <=> InQueue(u)
      BY DEF UnlockCas, InQueue
    <2> QED BY <2>1 DEF UnlockCas, IInv, TypeOK, QueueInv
  <1>5. DistinctInv'
    BY ThreadAssumption DEF UnlockCas, IInv, TypeOK, DistinctInv
  <1>6. BitInv'
    BY ThreadAssumption DEF UnlockCas, IInv, TypeOK, BitInv
  <1>7. StaleInv'
    BY ThreadAssumption DEF UnlockCas, IInv, TypeOK, StaleInv
  <1>8. ParkInv'
    BY SMTT(60), ThreadAssumption DEF UnlockCas, IInv, TypeOK, ParkInv
  <1>9. LendInv'
    <2>1. \A w \in Threads : pc[w] \in {"park", "parked"} => granted[w]
      <3> SUFFICES ASSUME NEW w \in Threads, pc[w] \in {"park", "parked"}, ~granted[w]
                   PROVE  FALSE
        OBVIOUS
      <3>1. InQueue(w)
        BY DEF IInv, QueueInv
      <3>2. queue # <<>> /\ Len(queue) \in Nat /\ Len(queue) >= 1
        <4>1. PICK i \in 1 .. Len(queue) : queue[i] = w
          BY <3>1 DEF InQueue
        <4>2. queue \in Seq(Threads) /\ Len(queue) \in Nat
          BY DEF IInv, TypeOK
        <4>3. Len(queue) >= 1
          BY <4>1, <4>2
        <4> QED BY <4>2, <4>3
      <3>3. PICK v \in Threads : pc[v] = "publishq"
        BY <3>2 DEF UnlockCas, IInv, BitInv
      <3>4. InQueue(v) /\ v # w
        BY <3>3 DEF IInv, QueueInv
      <3>5. Len(queue) > 1
        BY <3>1, <3>2, <3>4 DEF InQueue
      <3> QED BY <3>3, <3>5 DEF UnlockCas, IInv, BitInv


    <2> QED BY <2>1, ThreadAssumption DEF UnlockCas, IInv, TypeOK, LendInv, Holds, HoldLabels, MutualExclusion
  <1>10. BoostsBalance'
    BY BoostsUnchanged DEF UnlockCas, IInv
  <1> QED BY <1>1, <1>2, <1>3, <1>4, <1>5, <1>6, <1>7, <1>8, <1>9, <1>10 DEF IInv

\* UnlockContended preserves the inductive invariant.
LEMMA UnlockContendedPreserves == ASSUME NEW t \in Threads, IInv, UnlockContended(t) PROVE IInv'
  <1>1. TypeOK'
    BY ThreadAssumption DEF UnlockContended, IInv, TypeOK, Labels, MaxPriority
  <1>2. MutualExclusion'
    BY ThreadAssumption DEF UnlockContended, IInv, TypeOK, MutualExclusion, Holds, HoldLabels
  <1>3. GuardInv'
    BY ThreadAssumption DEF UnlockContended, IInv, TypeOK, GuardInv, GuardLabels
  <1>4. QueueInv'
    <2>1. \A u \in Threads : InQueue(u)' <=> InQueue(u)
      BY DEF UnlockContended, InQueue
    <2> QED BY <2>1 DEF UnlockContended, IInv, TypeOK, QueueInv
  <1>5. DistinctInv'
    BY ThreadAssumption DEF UnlockContended, IInv, TypeOK, DistinctInv
  <1>6. BitInv'
    BY ThreadAssumption DEF UnlockContended, IInv, TypeOK, BitInv
  <1>7. StaleInv'
    BY ThreadAssumption DEF UnlockContended, IInv, TypeOK, StaleInv, MutualExclusion, Holds, HoldLabels
  <1>8. ParkInv'
    BY SMTT(60), ThreadAssumption DEF UnlockContended, IInv, TypeOK, ParkInv
  <1>9. LendInv'
    BY ThreadAssumption DEF UnlockContended, IInv, TypeOK, LendInv, Holds, HoldLabels
  <1>10. BoostsBalance'
    BY BoostsUnchanged DEF UnlockContended, IInv
  <1> QED BY <1>1, <1>2, <1>3, <1>4, <1>5, <1>6, <1>7, <1>8, <1>9, <1>10 DEF IInv

\* UnlockGuard preserves the inductive invariant.
LEMMA UnlockGuardPreserves == ASSUME NEW t \in Threads, IInv, UnlockGuard(t) PROVE IInv'
  <1>1. TypeOK'
    BY ThreadAssumption DEF UnlockGuard, IInv, TypeOK, Labels, MaxPriority
  <1>2. MutualExclusion'
    BY ThreadAssumption DEF UnlockGuard, IInv, TypeOK, MutualExclusion, Holds, HoldLabels
  <1>3. GuardInv'
    BY ThreadAssumption DEF UnlockGuard, IInv, TypeOK, GuardInv, GuardLabels
  <1>4. QueueInv'
    <2>1. \A u \in Threads : InQueue(u)' <=> InQueue(u)
      BY DEF UnlockGuard, InQueue
    <2> QED BY <2>1 DEF UnlockGuard, IInv, TypeOK, QueueInv
  <1>5. DistinctInv'
    BY ThreadAssumption DEF UnlockGuard, IInv, TypeOK, DistinctInv
  <1>6. BitInv'
    BY ThreadAssumption DEF UnlockGuard, IInv, TypeOK, BitInv
  <1>7. StaleInv'
    BY ThreadAssumption DEF UnlockGuard, IInv, TypeOK, StaleInv
  <1>8. ParkInv'
    BY SMTT(60), ThreadAssumption DEF UnlockGuard, IInv, TypeOK, ParkInv
  <1>9. LendInv'
    BY ThreadAssumption DEF UnlockGuard, IInv, TypeOK, LendInv, Holds, HoldLabels
  <1>10. BoostsBalance'
    BY BoostsUnchanged DEF UnlockGuard, IInv
  <1> QED BY <1>1, <1>2, <1>3, <1>4, <1>5, <1>6, <1>7, <1>8, <1>9, <1>10 DEF IInv
=============================================================================
