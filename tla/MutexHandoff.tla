---------------------------- MODULE MutexHandoff ----------------------------
(***************************************************************************)
(* The handoff of unlock(), which pops a waiter and makes it the owner, and *)
(* the wake of that waiter keep the inductive invariant of Mutex.          *)
(***************************************************************************)
EXTENDS MutexInvariant

USE DEF word, waiters, lending, parking, locals, Goto

\* Handoff preserves the inductive invariant.
LEMMA HandoffPreserves == ASSUME NEW t \in Threads, IInv, Handoff(t) PROVE IInv'
  <1> DEFINE next == Head(queue)
             rest == Tail(queue)
             Q == QueuedThreads(rest)
  <1>a. /\ queue \in Seq(Threads) /\ queue # <<>> /\ pc[t] = "handoff"
        /\ queue' = rest
    BY DEF Handoff, IInv, TypeOK
  <1>b. /\ next = queue[1] /\ next \in Threads
        /\ Len(queue) \in Nat /\ Len(queue) >= 1
        /\ rest \in Seq(Threads) /\ Len(rest) = Len(queue) - 1
        /\ \A i \in 1 .. Len(queue) - 1 : rest[i] = queue[i + 1]
    BY <1>a, TailFacts
  <1>c. /\ owner' = next /\ locked' = TRUE /\ guard' = NoThread
        /\ granted' = [granted EXCEPT ![next] = TRUE]
        /\ queued' = (rest # <<>>)
        /\ target' = [target EXCEPT ![t] = [thread |-> next, seq |-> parkSeq[next]]]
        /\ pc' = [pc EXCEPT ![t] = "wake"]
        /\ UNCHANGED <<parkState, parkSeq, seen>>
    BY DEF Handoff
  <1>d. MoveBoosts(next, Q)
    BY DEF Handoff
  <1> HIDE DEF next, rest, Q
  <1>e. InQueue(next)
    BY <1>b DEF InQueue
  <1>f. \A u \in Threads : InQueue(u)' <=> InQueue(u) /\ u # next
    <2> SUFFICES ASSUME NEW u \in Threads
                 PROVE  (\E i \in 1 .. Len(rest) : rest[i] = u) <=> InQueue(u) /\ u # next
      BY <1>a DEF InQueue
    <2>1. ASSUME NEW i \in 1 .. Len(rest), rest[i] = u
          PROVE  InQueue(u) /\ u # next
      <3>1. i + 1 \in 1 .. Len(queue) /\ queue[i + 1] = u /\ 1 \in 1 .. Len(queue)
        BY <1>b, <2>1
      <3>2. i + 1 # 1
        BY <1>b
      <3> QED BY <1>b, <3>1, <3>2 DEF InQueue, IInv, DistinctInv
    <2>2. ASSUME InQueue(u), u # next
          PROVE  \E i \in 1 .. Len(rest) : rest[i] = u
      <3>1. PICK j \in 1 .. Len(queue) : queue[j] = u
        BY <2>2 DEF InQueue
      <3>2. j # 1
        BY <1>b, <2>2, <3>1
      <3>3. j - 1 \in 1 .. Len(rest) /\ rest[j - 1] = u
        BY <1>b, <3>1, <3>2
      <3> QED BY <3>3
    <2> QED BY <2>1, <2>2
  <1>g. guard = t /\ \A u \in Threads : pc[u] \in GuardLabels => u = t
    BY <1>a DEF IInv, GuardInv, GuardLabels
  <1>h. pc[next] \in {"park", "parked"} /\ ~granted[next] /\ next # t
    BY <1>a, <1>b, <1>e, <1>g DEF IInv, QueueInv, GuardLabels
  <1>i. Holds(t) /\ ~granted[t] /\ \A u \in Threads : Holds(u) => u = t
    BY <1>a DEF IInv, MutualExclusion, StaleInv, Holds, HoldLabels
  <1>j. \A u \in Threads : Holds(u)' <=> u = next
    BY <1>b, <1>c, <1>h, <1>i DEF IInv, TypeOK, Holds, HoldLabels
  <1>k. Q = {u \in Threads : InQueue(u) /\ u # next}
    <2>1. Q = {u \in Threads : \E i \in 1 .. Len(rest) : rest[i] = u}
      BY <1>b DEF Q, QueuedThreads
    <2>2. \A u \in Threads : InQueue(u)' <=> \E i \in 1 .. Len(rest) : rest[i] = u
      BY <1>a DEF InQueue
    <2> QED BY <1>f, <2>1, <2>2
  <1>l. IsFiniteSet(Q) /\ Q \in SUBSET Threads /\ Cardinality(Q) \in Nat
    BY <1>k, ThreadAssumption, FS_Subset, FS_CardinalityType
  <1>m. \A w \in Threads : boosted[w] # NoThread => boosted[w] = t /\ InQueue(w)
    BY <1>i DEF IInv, TypeOK, LendInv, QueueInv
  <1>n. /\ \A u \in Threads \ {t} : Donors(Threads, u) = {} /\ Donors({next} \cup Q, u) = {}
        /\ Donors({next} \cup Q, t) = Donors(Threads, t)
    BY <1>b, <1>k, <1>m, ThreadAssumption DEF Donors
  <1>o. /\ \A u \in Threads \ {t} : boostCount[u] = 0 /\ Cardinality(Donors({next} \cup Q, u)) = 0
        /\ boostCount[t] = Cardinality(Donors({next} \cup Q, t))
        /\ boostCount[t] \in Nat
    BY <1>n, FS_EmptySet DEF IInv, BoostsBalance, TypeOK
  <1>p. LowestPriority({}, MaxPriority) = MaxPriority /\ MaxPriority \in 0 .. MaxPriority
    <2>1. MaxPriority \in 0 .. MaxPriority /\ MaxPriority <= MaxPriority
      BY DEF MaxPriority
    <2> QED BY <2>1, LowestUnique
  <1>q. /\ \A u \in Threads \ {t} : lent[u] = MaxPriority
        /\ Cardinality(Donors({next} \cup Q, t)) = 0 => lent[t] = MaxPriority
    <2>1. IsFiniteSet(Donors(Threads, t))
      BY ThreadAssumption, FS_Subset DEF Donors
    <2>2. Cardinality(Donors(Threads, t)) = 0 => Donors(Threads, t) = {}
      BY <2>1, FS_EmptySet
    <2> QED BY <1>n, <1>p, <2>2 DEF IInv, BoostsBalance
  <1>r. \A u \in Threads : boostCount'[u] = IF u = next THEN Cardinality(Q) ELSE 0
    <2>1. \A u \in Threads : boostCount'[u] = boostCount[u]
              + (IF u = next THEN Cardinality(Q) ELSE 0)
              - Cardinality(Donors({next} \cup Q, u))
      BY <1>d DEF MoveBoosts
    <2>2. boostCount'[next] = Cardinality(Q)
      <3>1. boostCount'[next] = 0 + Cardinality(Q) - 0
        BY <1>b, <1>h, <1>o, <2>1
      <3> QED BY <1>l, <3>1
    <2>3. boostCount'[t] = 0
      <3>1. boostCount'[t] = boostCount[t] + 0 - boostCount[t]
        BY <1>h, <1>o, <2>1
      <3> QED BY <1>o, <3>1
    <2>4. \A u \in Threads \ {t, next} : boostCount'[u] = 0
      <3>1. \A u \in Threads \ {t, next} : boostCount'[u] = 0 + 0 - 0
        BY <1>o, <2>1
      <3> QED BY <3>1
    <2> QED BY <1>h, <2>2, <2>3, <2>4
  <1>s. boostCount' \in [Threads -> Nat]
    <2>1. boostCount' = [u \in Threads |-> boostCount'[u]]
      BY <1>d DEF MoveBoosts
    <2> QED BY <1>l, <1>r, <2>1
  <1>t. \A u \in Threads :
          lent'[u] = IF u = next THEN LowestPriority(Q, MaxPriority) ELSE MaxPriority
    <2>1. \A u \in Threads : lent'[u] =
              IF Cardinality(Donors({next} \cup Q, u)) > 0 /\ boostCount'[u] = 0
              THEN MaxPriority
              ELSE IF u = next THEN LowestPriority(Q, lent[u]) ELSE lent[u]
      BY <1>d DEF MoveBoosts
    <2>2. \A u \in Threads \ {t} : ~(Cardinality(Donors({next} \cup Q, u)) > 0)
      BY <1>o
    <2>3. lent'[next] = LowestPriority(Q, MaxPriority)
      BY <1>b, <1>h, <1>q, <2>1, <2>2
    <2>4. \A u \in Threads \ {t, next} : lent'[u] = MaxPriority
      BY <1>q, <2>1, <2>2
    <2>5. lent'[t] = MaxPriority
      <3>1. CASE Cardinality(Donors({next} \cup Q, t)) = 0
        BY <1>h, <1>q, <2>1, <3>1
      <3>2. CASE Cardinality(Donors({next} \cup Q, t)) # 0
        <4>1. Cardinality(Donors({next} \cup Q, t)) > 0
          BY <1>o, <3>2
        <4>2. boostCount'[t] = 0
          BY <1>h, <1>r
        <4> QED BY <2>1, <4>1, <4>2
      <3> QED BY <3>1, <3>2
    <2> QED BY <1>h, <2>3, <2>4, <2>5
  <1>u. lent' \in [Threads -> 0 .. MaxPriority]
    <2>1. lent' = [u \in Threads |-> lent'[u]]
      BY <1>d DEF MoveBoosts
    <2>2. LowestPriority(Q, MaxPriority) \in 0 .. MaxPriority
      BY <1>l, <1>p, LowestFacts
    <2> QED BY <1>p, <1>t, <2>1, <2>2
  <1>v. /\ boosted' \in [Threads -> Threads \cup {NoThread}]
        /\ \A w \in Threads : boosted'[w] = IF w \in Q THEN next ELSE NoThread
    <2>1. boosted' = [w \in Threads |-> IF w = next THEN NoThread
                                        ELSE IF w \in Q THEN next ELSE boosted[w]]
      BY <1>d DEF MoveBoosts
    <2>2. \A w \in Threads : w # next /\ w \notin Q => boosted[w] = NoThread
      BY <1>k, <1>m
    <2>3. next \notin Q
      BY <1>k
    <2> QED BY <1>b, <2>1, <2>2, <2>3
  <1>1. TypeOK'
    <2>1. target' \in [Threads -> [thread : Threads \cup {NoThread}, seq : Nat]]
      BY <1>b, <1>c DEF IInv, TypeOK
    <2>2. queue' \in Seq(Threads)
      BY <1>a, <1>b
    <2> QED BY <1>b, <1>c, <1>s, <1>u, <1>v, <2>1, <2>2 DEF IInv, TypeOK, Labels
  <1>2. MutualExclusion'
    BY <1>b, <1>c, <1>j DEF MutualExclusion
  <1>3. GuardInv'
    BY <1>c, <1>g, ThreadAssumption DEF IInv, TypeOK, GuardInv, GuardLabels
  <1>4. QueueInv'
    BY <1>a, <1>b, <1>c, <1>f, <1>h DEF IInv, TypeOK, QueueInv
  <1>5. DistinctInv'
    <2> SUFFICES ASSUME NEW i \in 1 .. Len(rest), NEW j \in 1 .. Len(rest), rest[i] = rest[j]
                 PROVE  i = j
      BY <1>a DEF DistinctInv
    <2>1. i + 1 \in 1 .. Len(queue) /\ j + 1 \in 1 .. Len(queue) /\ queue[i + 1] = queue[j + 1]
      BY <1>b
    <2>2. i + 1 = j + 1
      BY <2>1 DEF IInv, DistinctInv
    <2>3. i \in Int /\ j \in Int
      BY <1>b
    <2> QED BY <2>2, <2>3
  <1>6. BitInv'
    <2>1. \A u \in Threads : pc'[u] # "publishq"
      BY <1>a, <1>c, <1>g DEF IInv, TypeOK, GuardLabels
    <2> QED BY <1>a, <1>c, <2>1 DEF BitInv
  <1>7. StaleInv'
    <2>1. \A u \in Threads : pc'[u] # "cas" /\ pc'[u] \notin {"uslow", "handoff"}
      BY <1>a, <1>c, <1>g, <1>i DEF IInv, TypeOK, GuardLabels, Holds, HoldLabels
    <2>2. ASSUME NEW u \in Threads, granted'[u]
          PROVE  pc'[u] \in {"park", "parked", "woken"}
      <3>1. granted'[u] = (u = next \/ granted[u]) /\ pc'[u] = IF u = t THEN "wake" ELSE pc[u]
        BY <1>b, <1>c DEF IInv, TypeOK
      <3>2. ~granted[t] /\ next # t /\ pc[next] \in {"park", "parked"}
        BY <1>h, <1>i
      <3>3. granted[u] => pc[u] \in {"park", "parked", "woken"}
        BY DEF IInv, StaleInv
      <3> QED BY <2>2, <3>1, <3>2, <3>3
    <2> QED BY <2>1, <2>2 DEF StaleInv
  <1>8. ParkInv'
    <2>1. parkState[next] # "idle"
      BY <1>b, <1>h DEF IInv, ParkInv
    <2>2. \A u \in Threads : pc[u] = "wake" => target[u].thread # next
      BY <1>h DEF IInv, ParkInv
    <2>3. \A u \in Threads : pc'[u] = IF u = t THEN "wake" ELSE pc[u]
      BY <1>c DEF IInv, TypeOK
    <2>4. \A u \in Threads : granted'[u] = (u = next \/ granted[u])
      BY <1>b, <1>c DEF IInv, TypeOK
    <2>5. /\ target'[t].thread = next /\ target'[t].seq = parkSeq[next]
          /\ \A u \in Threads \ {t} : target'[u] = target[u]
      BY <1>c DEF IInv, TypeOK
    <2>6. ASSUME NEW u \in Threads
          PROVE  /\ pc'[u] \in {"publishq", "lend", "selfwake"} => parkState'[u] = "waiting"
                 /\ pc'[u] = "park" => parkState'[u] # "parked"
                 /\ pc'[u] = "parked" => parkState'[u] # "waiting"
                 /\ pc'[u] \in {"park", "parked"} /\ parkState'[u] = "idle" => granted'[u]
                 /\ pc'[u] = "woken" => granted'[u] /\ parkState'[u] = "idle"
      <3>1. /\ pc[u] \in {"publishq", "lend", "selfwake"} => parkState[u] = "waiting"
            /\ pc[u] = "park" => parkState[u] # "parked"
            /\ pc[u] = "parked" => parkState[u] # "waiting"
            /\ pc[u] \in {"park", "parked"} /\ parkState[u] = "idle" => granted[u]
            /\ pc[u] = "woken" => granted[u] /\ parkState[u] = "idle"
        BY DEF IInv, ParkInv
      <3>2. parkState' = parkState
        BY <1>c
      <3>3. pc'[u] = IF u = t THEN "wake" ELSE pc[u]
        BY <2>3
      <3>4. granted'[u] = (u = next \/ granted[u])
        BY <2>4
      <3> QED BY <3>1, <3>2, <3>3, <3>4
    <2>7. ASSUME NEW u \in Threads, pc'[u] = "wake"
          PROVE  /\ target'[u].thread \in Threads
                 /\ granted'[target'[u].thread]
                 /\ pc'[target'[u].thread] \in {"park", "parked"}
                 /\ parkState'[target'[u].thread] # "idle"
                 /\ parkSeq'[target'[u].thread] = target'[u].seq
      <3>1. CASE u = t
        <4>1. target'[u].thread = next /\ target'[u].seq = parkSeq[next]
          BY <2>5, <3>1
        <4>2. granted'[next] /\ pc'[next] \in {"park", "parked"}
          BY <1>b, <1>h, <2>3, <2>4
        <4>3. parkState'[next] # "idle" /\ parkSeq'[next] = parkSeq[next]
          BY <1>c, <2>1
        <4> QED BY <1>b, <4>1, <4>2, <4>3
      <3>2. CASE u # t
        <4>1. pc[u] = "wake" /\ target'[u] = target[u]
          BY <2>3, <2>5, <2>7, <3>2
        <4>2. target[u].thread \in Threads /\ target[u].thread # t
          BY <1>a, <4>1 DEF IInv, ParkInv
        <4> DEFINE w == target[u].thread
        <4>3. /\ granted[w] /\ pc[w] \in {"park", "parked"}
              /\ parkState[w] # "idle" /\ parkSeq[w] = target[u].seq
          BY <4>1 DEF IInv, ParkInv
        <4>4. parkState' = parkState /\ parkSeq' = parkSeq
          BY <1>c
        <4>5. granted'[w] /\ pc'[w] = pc[w]
          BY <2>3, <2>4, <4>2, <4>3
        <4> QED BY <4>1, <4>2, <4>3, <4>4, <4>5
      <3> QED BY <3>1, <3>2
    <2>8. ASSUME NEW u \in Threads, NEW v \in Threads, pc'[u] = "wake", pc'[v] = "wake",
                 target'[u].thread = target'[v].thread
          PROVE  u = v
      <3>1. CASE u = t /\ v # t
        BY <2>2, <2>3, <2>5, <2>8, <3>1
      <3>2. CASE u # t /\ v = t
        BY <2>2, <2>3, <2>5, <2>8, <3>2
      <3>3. CASE u # t /\ v # t
        <4>1. pc[u] = "wake" /\ pc[v] = "wake" /\ target[u].thread = target[v].thread
          BY <2>3, <2>5, <2>8, <3>3
        <4> QED BY <4>1 DEF IInv, ParkInv
      <3> QED BY <3>1, <3>2, <3>3
    <2> QED BY <2>6, <2>7, <2>8 DEF ParkInv
  <1>9. LendInv'
    <2>1. owner' # NoThread => Holds(owner)'
      <3>1. PICK n \in Threads : n = next
        BY <1>b
      <3>2. Holds(n)' /\ owner' = n
        BY <1>c, <1>j, <3>1
      <3> QED BY <3>2 DEF Holds
    <2>2. \A u \in Threads : pc'[u] \notin {"ucas", "uslow", "handoff"}
      BY <1>a, <1>c, <1>i DEF IInv, TypeOK, Holds, HoldLabels
    <2>3. ASSUME NEW w \in Threads, boosted'[w] # NoThread
          PROVE  Holds(boosted[w])' /\ pc'[w] \in {"park", "parked"} /\ ~granted'[w]
      <3>1. w \in Q /\ boosted'[w] = next
        BY <1>v, <2>3
      <3>2. InQueue(w) /\ w # next
        BY <1>k, <3>1
      <3>3. pc[w] \in {"park", "parked"} /\ ~granted[w] /\ w # t
        BY <1>a, <1>g, <3>2 DEF IInv, QueueInv, GuardLabels
      <3>4. pc'[w] = pc[w] /\ granted'[w] = granted[w]
        BY <1>c, <3>2, <3>3 DEF IInv, TypeOK
      <3>5. PICK n \in Threads : n = next
        BY <1>b
      <3>6. Holds(n)' /\ boosted'[w] = n
        BY <1>j, <3>1, <3>5
      <3> QED BY <3>3, <3>4, <3>6 DEF Holds
    <2> QED BY <2>1, <2>2, <2>3 DEF LendInv
  <1>10. BoostsBalance'
    <2>1. \A u \in Threads : Donors(Threads, u)' = IF u = next THEN Q ELSE {}
      BY <1>b, <1>l, <1>v, ThreadAssumption DEF Donors
    <2> QED BY <1>p, <1>r, <1>t, <2>1, FS_EmptySet DEF BoostsBalance
  <1> QED BY <1>1, <1>2, <1>3, <1>4, <1>5, <1>6, <1>7, <1>8, <1>9, <1>10 DEF IInv

\* WakeTarget preserves the inductive invariant.
LEMMA WakeTargetPreserves == ASSUME NEW t \in Threads, IInv, WakeTarget(t) PROVE IInv'
  <1>1. TypeOK'
    BY ThreadAssumption DEF WakeTarget, Wakeable, NoTarget, IInv, TypeOK, Labels, MaxPriority
  <1>2. MutualExclusion'
    BY ThreadAssumption DEF WakeTarget, Wakeable, NoTarget, IInv, TypeOK, MutualExclusion, Holds, HoldLabels
  <1>3. GuardInv'
    BY ThreadAssumption DEF WakeTarget, Wakeable, NoTarget, IInv, TypeOK, GuardInv, GuardLabels
  <1>4. QueueInv'
    <2>1. \A u \in Threads : InQueue(u)' <=> InQueue(u)
      BY DEF WakeTarget, InQueue
    <2> QED BY <2>1 DEF WakeTarget, Wakeable, NoTarget, IInv, TypeOK, QueueInv
  <1>5. DistinctInv'
    BY ThreadAssumption DEF WakeTarget, Wakeable, NoTarget, IInv, TypeOK, DistinctInv
  <1>6. BitInv'
    BY ThreadAssumption DEF WakeTarget, Wakeable, NoTarget, IInv, TypeOK, BitInv
  <1>7. StaleInv'
    BY ThreadAssumption DEF WakeTarget, Wakeable, NoTarget, IInv, TypeOK, StaleInv
  <1>8. ParkInv'
    <2> DEFINE w == target[t].thread
    <2>1. /\ w \in Threads /\ granted[w] /\ pc[w] \in {"park", "parked"} /\ w # t
          /\ pc' = [pc EXCEPT ![t] = "idle"]
          /\ parkState' = [parkState EXCEPT ![w] = "idle"]
          /\ target' = [target EXCEPT ![t] = NoTarget]
          /\ granted' = granted /\ parkSeq' = parkSeq
      BY DEF WakeTarget, IInv, ParkInv
    <2>2. /\ pc \in [Threads -> Labels]
          /\ target \in [Threads -> [thread : Threads \cup {NoThread}, seq : Nat]]
          /\ parkState \in [Threads -> {"idle", "waiting", "parked"}]
      BY DEF IInv, TypeOK
    <2>3. ASSUME NEW u \in Threads, u # t
          PROVE  pc'[u] = pc[u] /\ target'[u] = target[u] /\ pc'[t] = "idle"
      BY <2>1, <2>2, <2>3
    <2>4. ASSUME NEW u \in Threads, u # w PROVE parkState'[u] = parkState[u]
      BY <2>1, <2>2, <2>4
    <2>5. pc'[t] = "idle" /\ pc'[w] = pc[w] /\ parkState'[w] = "idle"
      BY <2>1, <2>2
    <2>6. ASSUME NEW u \in Threads
          PROVE  /\ pc'[u] \in {"publishq", "lend", "selfwake"} => parkState'[u] = "waiting"
                 /\ pc'[u] = "park" => parkState'[u] # "parked"
                 /\ pc'[u] = "parked" => parkState'[u] # "waiting"
                 /\ pc'[u] \in {"park", "parked"} /\ parkState'[u] = "idle" => granted'[u]
                 /\ pc'[u] = "woken" => granted'[u] /\ parkState'[u] = "idle"
      <3>1. CASE u = t \/ u = w
        BY <2>1, <2>5, <3>1
      <3>2. CASE u # t /\ u # w
        BY <2>1, <2>3, <2>4, <3>2 DEF IInv, ParkInv
      <3> QED BY <3>1, <3>2
    <2>7. ASSUME NEW u \in Threads, pc'[u] = "wake"
          PROVE  /\ target'[u].thread \in Threads
                 /\ granted'[target'[u].thread]
                 /\ pc'[target'[u].thread] \in {"park", "parked"}
                 /\ parkState'[target'[u].thread] # "idle"
                 /\ parkSeq'[target'[u].thread] = target'[u].seq
      <3> DEFINE v == target[u].thread
      <3>1. u # t /\ target'[u] = target[u] /\ pc[u] = "wake"
        BY <2>3, <2>5, <2>7
      <3>2. /\ v \in Threads /\ granted[v] /\ pc[v] \in {"park", "parked"}
            /\ parkState[v] # "idle" /\ parkSeq[v] = target[u].seq
        BY <3>1 DEF IInv, ParkInv
      <3>3. v # w /\ v # t
        BY <3>1, <3>2 DEF IInv, ParkInv, WakeTarget
      <3> QED BY <2>1, <2>3, <2>4, <3>1, <3>2, <3>3
    <2>8. ASSUME NEW u \in Threads, NEW v \in Threads, pc'[u] = "wake", pc'[v] = "wake",
                 target'[u].thread = target'[v].thread
          PROVE  u = v
      <3>1. u # t /\ v # t
        BY <2>5, <2>8
      <3>2. pc[u] = "wake" /\ pc[v] = "wake" /\ target[u].thread = target[v].thread
        BY <2>3, <2>8, <3>1
      <3> QED BY <3>2 DEF IInv, ParkInv
    <2> QED BY <2>6, <2>7, <2>8 DEF ParkInv
  <1>9. LendInv'
    BY SMTT(60), ThreadAssumption DEF WakeTarget, Wakeable, NoTarget, IInv, TypeOK, LendInv, Holds, HoldLabels
  <1>10. BoostsBalance'
    BY BoostsUnchanged DEF WakeTarget, IInv
  <1> QED BY <1>1, <1>2, <1>3, <1>4, <1>5, <1>6, <1>7, <1>8, <1>9, <1>10 DEF IInv
=============================================================================
