--------------------------- MODULE MutexInvariant ---------------------------
(***************************************************************************)
(* The inductive invariant of Mutex, what its proof needs to know of queues *)
(* and priorities, and the initial state.                                  *)
(***************************************************************************)
EXTENDS Mutex, FiniteSetTheorems, WellFoundedInduction, TLAPS

\* Labels at which a thread is inside the waiters spinlock.
GuardLabels == {"check", "cas", "publishlocked", "enqueue", "publishq", "lend",
                "handoff"}

InQueue(t) == \E i \in 1 .. Len(queue) : queue[i] = t

\* The spinlock is held by exactly the thread whose label says so.
GuardInv == \A t \in Threads : pc[t] \in GuardLabels <=> guard = t

\* A thread is linked from its push until a handoff pops it.
QueueInv ==
    \A t \in Threads :
        InQueue(t) <=> \/ pc[t] \in {"publishq", "lend"}
                       \/ pc[t] \in {"park", "parked"} /\ ~granted[t]

\* No thread is linked twice.
DistinctInv ==
    \A i, j \in 1 .. Len(queue) : queue[i] = queue[j] => i = j

\* A waiter that has linked itself but not yet published the QUEUED bit is
\* alone in the queue exactly while the bit is clear.
BitInv ==
    /\ queued => locked
    /\ (\E t \in Threads : pc[t] = "publishq") => (queued <=> Len(queue) > 1)
    /\ ~(\E t \in Threads : pc[t] = "publishq") => (queued <=> queue # <<>>)

\* What the steps between a load or a failed compare-exchange and the use of
\* its result may rely on.
StaleInv ==
    /\ \A t \in Threads : pc[t] = "cas" => queue = <<>>
    /\ \A t \in Threads : pc[t] \in {"uslow", "handoff"} => queued
    /\ \A t \in Threads : granted[t] => pc[t] \in {"park", "parked", "woken"}

\* The park word of a waiter, and the one wake a granted waiter is owed.
ParkInv ==
    /\ \A t \in Threads :
          /\ pc[t] \in {"publishq", "lend", "selfwake"} => parkState[t] = "waiting"
          /\ pc[t] = "park" => parkState[t] # "parked"
          /\ pc[t] = "parked" => parkState[t] # "waiting"
          /\ pc[t] \in {"park", "parked"} /\ parkState[t] = "idle" => granted[t]
          /\ pc[t] = "woken" => granted[t] /\ parkState[t] = "idle"
    /\ \A u \in Threads : pc[u] = "wake" =>
          /\ target[u].thread \in Threads
          /\ granted[target[u].thread]
          /\ pc[target[u].thread] \in {"park", "parked"}
          /\ parkState[target[u].thread] # "idle"
          /\ parkSeq[target[u].thread] = target[u].seq
    /\ \A u, v \in Threads :
          pc[u] = "wake" /\ pc[v] = "wake" /\ target[u].thread = target[v].thread
             => u = v

\* The published owner, and every boost, names the thread that holds the lock.
LendInv ==
    /\ owner # NoThread => Holds(owner)
    /\ \A t \in Threads : pc[t] \in {"ucas", "uslow", "handoff"} => owner = NoThread
    /\ \A w \in Threads : boosted[w] # NoThread =>
          /\ Holds(boosted[w])
          /\ pc[w] \in {"park", "parked"} /\ ~granted[w]

IInv == /\ TypeOK /\ MutualExclusion /\ GuardInv /\ QueueInv /\ DistinctInv
        /\ BitInv /\ StaleInv /\ ParkInv /\ LendInv /\ BoostsBalance

-----------------------------------------------------------------------------
(* Facts about priorities and about the queue *)

\* A nonempty set of naturals has a least element.
LEMMA NatMin ==
    ASSUME NEW S \in SUBSET Nat, S # {}
    PROVE  \E x \in S : \A y \in S : x <= y
  <1> DEFINE R == {ss \in Nat \X Nat : ss[1] < ss[2]}
  <1>1. IsWellFoundedOn(R, Nat)
    BY NatLessThanWellFounded DEF OpToRel
  <1>2. PICK x \in S : \A y \in S : ~(<<y, x>> \in R)
    BY <1>1, WFMin, Zenon
  <1>3. \A y \in S : x <= y
    <2> TAKE y \in S
    <2>1. x \in Nat /\ y \in Nat /\ ~(<<y, x>> \in R)
      BY <1>2
    <2> QED BY <2>1 DEF R
  <1> QED BY <1>3

\* LowestPriority is the minimum of what the waiters and "before" offer, and
\* it is the only such value.
LEMMA LowestFacts ==
    ASSUME NEW ws \in SUBSET Threads, NEW before \in 0 .. MaxPriority
    PROVE  /\ LowestPriority(ws, before) \in 0 .. MaxPriority
           /\ \/ LowestPriority(ws, before) = before
              \/ \E w \in ws : LowestPriority(ws, before) = Priority[w]
           /\ LowestPriority(ws, before) <= before
           /\ \A w \in ws : LowestPriority(ws, before) <= Priority[w]
  <1> DEFINE S == {before} \cup {Priority[w] : w \in ws}
             L == LowestPriority(ws, before)
  <1>1. S \in SUBSET (0 .. MaxPriority) /\ S # {}
    BY PriorityAssumption
  <1>2. \E x \in S : \A y \in S : x <= y
    <2>1. S \in SUBSET Nat
      BY <1>1 DEF MaxPriority
    <2> QED BY <1>1, <2>1, NatMin
  <1>3. L \in S /\ \A y \in S : L <= y
    BY <1>2 DEF LowestPriority
  <1> QED BY <1>1, <1>3

LEMMA LowestUnique ==
    ASSUME NEW ws \in SUBSET Threads, NEW before \in 0 .. MaxPriority,
           NEW p \in 0 .. MaxPriority,
           p = before \/ \E w \in ws : p = Priority[w],
           p <= before, \A w \in ws : p <= Priority[w]
    PROVE  LowestPriority(ws, before) = p
  <1> DEFINE L == LowestPriority(ws, before)
  <1>1. /\ L \in 0 .. MaxPriority
        /\ L = before \/ \E w \in ws : L = Priority[w]
        /\ L <= before
        /\ \A w \in ws : L <= Priority[w]
    BY LowestFacts
  <1> HIDE DEF L
  <1>2. L <= p /\ p <= L
    BY <1>1
  <1>3. L = p
    BY <1>1, <1>2 DEF MaxPriority
  <1> QED BY <1>3 DEF L

\* Appending links the new waiter and keeps every index.
LEMMA AppendFacts ==
    ASSUME NEW S, NEW q \in Seq(S), NEW x \in S
    PROVE  /\ Append(q, x) \in Seq(S)
           /\ Len(Append(q, x)) = Len(q) + 1
           /\ Append(q, x)[Len(q) + 1] = x
           /\ \A i \in 1 .. Len(q) : Append(q, x)[i] = q[i]
  OBVIOUS

\* Popping the front shifts every index down by one.
LEMMA TailFacts ==
    ASSUME NEW S, NEW q \in Seq(S), q # <<>>
    PROVE  /\ Head(q) = q[1] /\ Head(q) \in S
           /\ Len(q) \in Nat /\ Len(q) >= 1
           /\ Tail(q) \in Seq(S)
           /\ Len(Tail(q)) = Len(q) - 1
           /\ \A i \in 1 .. Len(q) - 1 : Tail(q)[i] = q[i + 1]
  OBVIOUS

-----------------------------------------------------------------------------
(* Proofs *)

\* Steps that leave the boosts alone keep them balanced.
LEMMA BoostsUnchanged ==
    ASSUME BoostsBalance, UNCHANGED <<boosted, boostCount, lent>>
    PROVE  BoostsBalance'
  <1>1. \A u \in Threads : Donors(Threads, u)' = Donors(Threads, u)
    BY DEF Donors
  <1> QED BY <1>1 DEF BoostsBalance

USE DEF word, waiters, lending, parking, locals, Goto

\* The initial state satisfies the inductive invariant.
LEMMA InitInv == Init => IInv
  <1> SUFFICES ASSUME Init PROVE IInv
    OBVIOUS
  <1>1. TypeOK
    <2>1. queue \in Seq(Threads)
      BY DEF Init
    <2>2. target \in [Threads -> [thread : Threads \cup {NoThread}, seq : Nat]]
      BY DEF Init, NoTarget
    <2>3. lent \in [Threads -> 0 .. MaxPriority]
      BY DEF Init, MaxPriority
    <2> QED BY <2>1, <2>2, <2>3 DEF Init, TypeOK, Labels
  <1>2. MutualExclusion /\ GuardInv
    BY ThreadAssumption DEF Init, MutualExclusion, Holds, HoldLabels, GuardInv,
       GuardLabels
  <1>3. QueueInv /\ DistinctInv
    BY DEF Init, QueueInv, InQueue, DistinctInv
  <1>4. BitInv /\ StaleInv /\ ParkInv /\ LendInv
    BY DEF Init, BitInv, StaleInv, ParkInv, LendInv
  <1>5. BoostsBalance
    <2>1. \A u \in Threads : Donors(Threads, u) = {}
      BY ThreadAssumption DEF Init, Donors
    <2>2. LowestPriority({}, MaxPriority) = MaxPriority
      <3>1. MaxPriority \in 0 .. MaxPriority /\ MaxPriority <= MaxPriority
        BY DEF MaxPriority
      <3> QED BY <3>1, LowestUnique
    <2> QED BY <2>1, <2>2, FS_EmptySet DEF Init, BoostsBalance
  <1> QED BY <1>1, <1>2, <1>3, <1>4, <1>5 DEF IInv
=============================================================================
