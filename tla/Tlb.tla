--------------------------------- MODULE Tlb ---------------------------------
(***************************************************************************)
(* Translation-cache shootdown (kernel/src/mem/tlb.rs) under address-space *)
(* switches (AddressRoot).  A job edits leaves of a page table, publishes  *)
(* invalidation records in a ring that overwrites its oldest entries, and  *)
(* either waits until every CPU that matters has replayed them (commit) or *)
(* leaves the frames in quarantine until every CPU has                     *)
(* (publish_async_pages, kernel/src/mem/alloc.rs).  Each load or store of  *)
(* a shared word is one step.                                              *)
(*                                                                         *)
(* Ghosts: the version of every leaf, the versions each CPU has cached,    *)
(* and the version below which the owner believes no CPU uses a leaf.      *)
(***************************************************************************)
EXTENDS AddressRoot, FiniteSetsExt, SequencesExt

CONSTANTS
    Jobs,           \* threads that edit page tables
    Home,           \* the CPU each of them is pinned to (MigrationPin)
    Masked,         \* the jobs that run with interrupts masked
    Async,          \* the jobs that publish without waiting
    UserPages, KernelPages,
    Global,         \* ROOT_GLOBAL
    Capacity,       \* RING_CAPACITY
    Inline,         \* Shootdown::INLINE
    MaxSequence,    \* bound on the records that are published
    AtBoot,         \* the CPUs online from the start
    Switchers,      \* the CPUs that switch address spaces
    Caches          \* the CPUs whose translation caches are followed

Pages == UserPages \cup KernelPages
Leaves == (Roots \X UserPages) \cup ({Global} \X KernelPages)
All == 0            \* the address of a full flush
NotCached == -1

VARIABLES
    up,                             \* bring-up of each CPU
    published, overflow, ring,      \* Engine
    acked,                          \* Engine::acked
    producer,                       \* the job that holds Engine::producer
    ipi,                            \* CPUs with a pending poll callback
    ppc, upto, cursor, tag,         \* a poll: its label, the published sequence it
                                    \* loaded, the record it is at and its root
    jpc, batch, target, look,       \* a job: its label, its records, the sequence
    pending,                        \* of the last one, and its wait loop
    pt, tlb, gone, edited,          \* ghosts
    issued                          \* records batched so far, for the bound

engineVars == <<published, overflow, ring, producer>>
pollVars == <<ppc, upto, cursor, tag>>
jobVars == <<jpc, batch, target, look, pending>>
ghostVars == <<pt, tlb, gone, edited, issued>>
vars == <<rootVars, up, engineVars, acked, ipi, pollVars, jobVars, ghostVars>>

Records == [root : Roots \cup {Global}, page : Pages \cup {All}]
JobLabels == {"idle", "lock", "prepare", "address", "root", "publish", "poll", "send",
              "wait", "quarantine"}
PollLabels == {"off", "begin", "bound", "root", "apply", "recheck", "flush"}
Slot(n) == (n - 1) % Capacity

TypeOK ==
    /\ RootTypeOK
    /\ up \in [Cpus -> {"off", "registered", "online"}]
    /\ published \in 0 .. MaxSequence /\ overflow \in 0 .. MaxSequence
    /\ ring \in [0 .. Capacity - 1 -> Records]
    /\ acked \in [Cpus -> 0 .. MaxSequence]
    /\ producer \in Jobs \cup {None}
    /\ ipi \subseteq Cpus
    /\ ppc \in [Cpus -> PollLabels]
    /\ upto \in [Cpus -> 0 .. MaxSequence]
    /\ cursor \in [Cpus -> 0 .. MaxSequence + 1]
    /\ tag \in [Cpus -> Roots \cup {Global}]
    /\ jpc \in [Jobs -> JobLabels]
    /\ \A j \in Jobs : batch[j] \in Seq(Records)
    /\ target \in [Jobs -> 0 .. MaxSequence]
    /\ look \in [Jobs -> SUBSET Cpus]
    /\ pending \in [Jobs -> BOOLEAN]
    /\ pt \in [Leaves -> Nat] /\ gone \in [Leaves -> Nat]
    /\ tlb \in [Cpus -> [Leaves -> Nat \cup {NotCached}]]
    /\ edited \in [Jobs -> SUBSET (Leaves \X Nat)]
    /\ issued \in 0 .. MaxSequence

Init ==
    /\ RootInit
    /\ up = [c \in Cpus |-> IF c \in AtBoot THEN "online" ELSE "off"]
    /\ published = 0 /\ overflow = 0
    /\ ring = [i \in 0 .. Capacity - 1 |-> [root |-> Global, page |-> All]]
    /\ acked = [c \in Cpus |-> 0]
    /\ producer = None
    /\ ipi = {}
    /\ ppc = [c \in Cpus |-> "off"]
    /\ upto = [c \in Cpus |-> 0]
    /\ cursor = [c \in Cpus |-> 0]
    /\ tag = [c \in Cpus |-> Global]
    /\ jpc = [j \in Jobs |-> "idle"]
    /\ batch = [j \in Jobs |-> <<>>]
    /\ target = [j \in Jobs |-> 0]
    /\ look = [j \in Jobs |-> {}]
    /\ pending = [j \in Jobs |-> FALSE]
    /\ pt = [l \in Leaves |-> 0]
    /\ tlb = [c \in Cpus |-> [l \in Leaves |-> NotCached]]
    /\ gone = [l \in Leaves |-> 0]
    /\ edited = [j \in Jobs |-> {}]
    /\ issued = 0

-----------------------------------------------------------------------------
(* The hardware *)

Online == {c \in Cpus : up[c] = "online"}
Drop(t, L) == [l \in Leaves |-> IF l \in L THEN NotCached ELSE t[l]]
WithPage(p) == {l \in Leaves : l[2] = p}
UserLeaves == Roots \X UserPages

\* A CPU may cache any translation of the root it walks at any time.
Fill(c, l) ==
    /\ c \in Caches /\ up[c] # "off"
    /\ l[1] \in {hw[c], Global}
    /\ tlb[c][l] = NotCached
    /\ tlb' = [tlb EXCEPT ![c][l] = pt[l]]
    /\ UNCHANGED <<rootVars, up, engineVars, acked, ipi, pollVars, jobVars, pt, gone, edited, issued>>

-----------------------------------------------------------------------------
(* poll: replay on CPU c, with interrupts masked *)

StartPoll(c) ==
    /\ ppc' = [ppc EXCEPT ![c] = "begin"]
    /\ UNCHANGED <<upto, cursor, tag>>

\* A CPU does one thing at a time: nothing else runs on it during a poll.
Free(c) == ppc[c] = "off"
Interruptible(c) == \A j \in Masked : Home[j] = c => jpc[j] = "idle"

TakeIpi(c) ==
    /\ Free(c) /\ Interruptible(c)
    /\ c \in ipi
    /\ ipi' = ipi \ {c}
    /\ StartPoll(c)
    /\ UNCHANGED <<rootVars, up, engineVars, acked, jobVars, ghostVars>>

PollBegin(c) ==
    /\ ppc[c] = "begin"
    /\ IF acked[c] >= published
       THEN ppc' = [ppc EXCEPT ![c] = "off"] /\ UNCHANGED upto
       ELSE ppc' = [ppc EXCEPT ![c] = "bound"] /\ upto' = [upto EXCEPT ![c] = published]
    /\ UNCHANGED <<rootVars, up, engineVars, acked, ipi, cursor, tag, jobVars, ghostVars>>

\* apply_range: too far behind the ring?
PollBound(c) ==
    /\ ppc[c] = "bound"
    /\ ppc' = [ppc EXCEPT ![c] = IF acked[c] < overflow THEN "flush" ELSE "root"]
    /\ cursor' = [cursor EXCEPT ![c] = acked[c] + 1]
    /\ UNCHANGED <<rootVars, up, engineVars, acked, ipi, upto, tag, jobVars, ghostVars>>

\* Skip a record of a root this CPU is not running.
PollRoot(c) ==
    /\ ppc[c] = "root"
    /\ LET root == ring[Slot(cursor[c])].root IN
       IF cursor[c] > upto[c] THEN
            ppc' = [ppc EXCEPT ![c] = "recheck"] /\ UNCHANGED <<cursor, tag>>
       ELSE IF root \in {Global, active[c]} THEN
            ppc' = [ppc EXCEPT ![c] = "apply"] /\ tag' = [tag EXCEPT ![c] = root]
            /\ UNCHANGED cursor
       ELSE cursor' = [cursor EXCEPT ![c] = @ + 1] /\ UNCHANGED <<ppc, tag>>
    /\ UNCHANGED <<rootVars, up, engineVars, acked, ipi, upto, jobVars, ghostVars>>

PollApply(c) ==
    /\ ppc[c] = "apply"
    /\ LET page == ring[Slot(cursor[c])].page IN
       tlb' = [tlb EXCEPT ![c] = Drop(@,
                 IF page # All THEN WithPage(page)
                 ELSE IF tag[c] = Global THEN Leaves ELSE UserLeaves)]
    /\ cursor' = [cursor EXCEPT ![c] = @ + 1]
    /\ ppc' = [ppc EXCEPT ![c] = "root"]
    /\ UNCHANGED <<rootVars, up, engineVars, acked, ipi, upto, tag, jobVars, pt, gone, edited, issued>>

Acknowledge(c) ==
    /\ acked' = [acked EXCEPT ![c] = upto[c]]
    /\ ppc' = [ppc EXCEPT ![c] = "off"]
    /\ upto' = [upto EXCEPT ![c] = 0]
    /\ cursor' = [cursor EXCEPT ![c] = 0]
    /\ tag' = [tag EXCEPT ![c] = Global]

\* Mutant: the bound is not checked again.
PollRecheckNone(c) ==
    /\ ppc[c] = "recheck"
    /\ Acknowledge(c)
    /\ UNCHANGED <<rootVars, up, engineVars, ipi, jobVars, ghostVars>>

\* Were records recycled while they were replayed?  If not, acknowledge.
PollRecheck(c) ==
    /\ ppc[c] = "recheck"
    /\ IF acked[c] < overflow
       THEN ppc' = [ppc EXCEPT ![c] = "flush"] /\ UNCHANGED acked
            /\ UNCHANGED <<upto, cursor, tag>>
       ELSE Acknowledge(c)
    /\ UNCHANGED <<rootVars, up, engineVars, ipi, jobVars, ghostVars>>

PollFlush(c) ==
    /\ ppc[c] = "flush"
    /\ tlb' = [tlb EXCEPT ![c] = Drop(@, Leaves)]
    /\ Acknowledge(c)
    /\ UNCHANGED <<rootVars, up, engineVars, ipi, jobVars, pt, gone, edited, issued>>

Poll(c) ==
    \/ PollBegin(c) \/ PollBound(c) \/ PollRoot(c) \/ PollApply(c)
    \/ PollRecheck(c) \/ PollFlush(c)

-----------------------------------------------------------------------------
(* Address-space switches (AddressRoot) and CPU bring-up *)

Switch(c) ==
    /\ c \in Switchers /\ up[c] # "off" /\ Free(c) /\ Interruptible(c)
    /\ \/ \E r \in Roots : SwitchUser(c, r)
       \/ SwitchKernel(c) /\ owner[c] # None
       \/ SwitchIdle(c)
    /\ UNCHANGED <<up, engineVars, acked, ipi, pollVars, jobVars, ghostVars>>

Advertise(c) ==
    /\ Free(c)
    /\ Enter(c) \/ StorePrevious(c) \/ StoreActive(c)
    /\ UNCHANGED <<up, engineVars, acked, ipi, pollVars, jobVars, ghostVars>>

\* Writing CR3 or satp discards every translation that is not global.
InstallRoot(c) ==
    /\ Free(c)
    /\ Install(c) \/ KernelInstall(c)
    /\ tlb' = [tlb EXCEPT ![c] = IF hw'[c] = hw[c] THEN @ ELSE Drop(@, UserLeaves)]
    /\ UNCHANGED <<up, engineVars, acked, ipi, pollVars, jobVars, pt, gone, edited, issued>>

\* Both ways of switching end with a poll.
FinishSwitch(c) ==
    /\ Free(c)
    /\ ClearPrevious(c) \/ KernelStore(c)
    /\ StartPoll(c)
    /\ UNCHANGED <<up, engineVars, acked, ipi, jobVars, ghostVars>>

\* register_cpu, on a CPU that has not run before.
Register(c) ==
    /\ up[c] = "off"
    /\ up' = [up EXCEPT ![c] = "registered"]
    /\ acked' = [acked EXCEPT ![c] = published]
    /\ UNCHANGED <<rootVars, engineVars, ipi, pollVars, jobVars, ghostVars>>

\* mark_current_online comes after the first thread, and its space, were chosen.
MarkOnline(c) ==
    /\ up[c] = "registered"
    /\ Free(c) /\ pc[c] = "run"
    /\ up' = [up EXCEPT ![c] = "online"]
    /\ UNCHANGED <<rootVars, engineVars, acked, ipi, pollVars, jobVars, ghostVars>>

-----------------------------------------------------------------------------
(* A job *)

Goto(j, label) == jpc' = [jpc EXCEPT ![j] = label]

\* The edit is complete: the owner now reuses what the old leaves named.
Done(j) ==
    /\ Goto(j, "idle")
    /\ gone' = [l \in Leaves |-> Max({gone[l]} \cup {e[2] : e \in {x \in edited[j] : x[1] = l}})]
    /\ edited' = [edited EXCEPT ![j] = {}]
    /\ batch' = [batch EXCEPT ![j] = <<>>]
    /\ target' = [target EXCEPT ![j] = 0]
    /\ look' = [look EXCEPT ![j] = {}]
    /\ pending' = [pending EXCEPT ![j] = FALSE]

\* Shootdown::push and commit: more than Inline pages become one full flush.
BatchOf(root, pages) ==
    IF Cardinality(pages) > Inline
    THEN <<[root |-> root, page |-> All]>>
    ELSE SetToSeq({[root |-> root, page |-> p] : p \in pages})

\* Change the leaves of some pages of one space, flush them here, and collect
\* the batch.  User leaves may also be invalidated in every space.  With one CPU
\* online there is nobody to tell.
Edit(j, s, pages, root) ==
    /\ jpc[j] = "idle" /\ up[Home[j]] = "online" /\ Free(Home[j])
    /\ LET L == {s} \X pages
           records == BatchOf(root, pages)
       IN  /\ issued' = issued + Len(records) /\ issued' <= MaxSequence
           /\ pt' = [l \in Leaves |-> IF l \in L THEN pt[l] + 1 ELSE pt[l]]
           /\ tlb' = [tlb EXCEPT ![Home[j]] = Drop(@, UNION {WithPage(p) : p \in pages})]
           /\ IF Cardinality(Online) <= 1
              THEN /\ gone' = [l \in Leaves |-> IF l \in L THEN pt'[l] ELSE gone[l]]
                   /\ UNCHANGED <<jpc, batch, edited>>
              ELSE /\ Goto(j, "lock")
                   /\ batch' = [batch EXCEPT ![j] = records]
                   /\ edited' = [edited EXCEPT ![j] = {<<l, pt'[l]>> : l \in L}]
                   /\ UNCHANGED gone
    /\ UNCHANGED <<rootVars, up, engineVars, acked, ipi, pollVars, target, look, pending>>

Lock(j) ==
    /\ jpc[j] = "lock" /\ Free(Home[j])
    /\ producer = None
    /\ producer' = j
    /\ target' = [target EXCEPT ![j] = published + Len(batch[j])]
    /\ Goto(j, "prepare")
    /\ UNCHANGED <<rootVars, up, published, overflow, ring, acked, ipi, pollVars, batch, look,
                   pending, ghostVars>>

\* prepare_records: announce what is about to be overwritten.
Prepare(j) ==
    /\ jpc[j] = "prepare" /\ Free(Home[j])
    /\ overflow' = Max({0, target[j] - Capacity})
    /\ Goto(j, "address")
    /\ UNCHANGED <<rootVars, up, published, ring, producer, acked, ipi, pollVars, batch,
                   target, look, pending, ghostVars>>

\* publish_record: the address, then the root.  The record being written is the
\* first one left in the batch.
Sequence(j) == target[j] - Len(batch[j]) + 1

WriteAddress(j) ==
    /\ jpc[j] = "address" /\ Free(Home[j])
    /\ ring' = [ring EXCEPT ![Slot(Sequence(j))].page = Head(batch[j]).page]
    /\ Goto(j, "root")
    /\ UNCHANGED <<rootVars, up, published, overflow, producer, acked, ipi, pollVars, batch,
                   target, look, pending, ghostVars>>

WriteRoot(j) ==
    /\ jpc[j] = "root" /\ Free(Home[j])
    /\ ring' = [ring EXCEPT ![Slot(Sequence(j))].root = Head(batch[j]).root]
    /\ IF Len(batch[j]) > 1
       THEN Goto(j, "address") /\ batch' = [batch EXCEPT ![j] = Tail(@)]
       ELSE Goto(j, "publish") /\ UNCHANGED batch
    /\ UNCHANGED <<rootVars, up, published, overflow, producer, acked, ipi, pollVars,
                   target, look, pending, ghostVars>>

Publish(j) ==
    /\ jpc[j] = "publish" /\ Free(Home[j])
    /\ published' = target[j]
    /\ producer' = None
    /\ Goto(j, "poll")
    /\ UNCHANGED <<rootVars, up, overflow, ring, acked, ipi, pollVars, batch, target, look,
                   pending, ghostVars>>

\* A concurrent producer may have published records this CPU needs.
PollHere(j) ==
    /\ jpc[j] = "poll" /\ Free(Home[j])
    /\ StartPoll(Home[j])
    /\ Goto(j, "send")
    /\ UNCHANGED <<rootVars, up, engineVars, acked, ipi, batch, target, look, pending,
                   ghostVars>>

\* The CPUs that get an interrupt, and the ones the wait looks at.
Relevant(root) == {c \in Online : root = Global \/ active[c] = root}

\* Mutant: no interrupt is sent.
SendNone(j) ==
    /\ jpc[j] = "send" /\ Free(Home[j])
    /\ IF j \in Async THEN Goto(j, "quarantine") /\ UNCHANGED look
       ELSE Goto(j, "wait") /\ look' = [look EXCEPT ![j] = Cpus]
    /\ UNCHANGED <<rootVars, up, engineVars, acked, ipi, pollVars, batch, target, pending,
                   ghostVars>>

Send(j) ==
    /\ jpc[j] = "send" /\ Free(Home[j])
    /\ ipi' = ipi \cup (Relevant(Head(batch[j]).root) \ {Home[j]})
    /\ IF j \in Async THEN Goto(j, "quarantine") /\ UNCHANGED look
       ELSE Goto(j, "wait") /\ look' = [look EXCEPT ![j] = Cpus]
    /\ UNCHANGED <<rootVars, up, engineVars, acked, pollVars, batch, target, pending, ghostVars>>

\* wait_for_acknowledgements, one CPU of a round.
WaitLook(j) ==
    /\ jpc[j] = "wait" /\ Free(Home[j])
    /\ look[j] # {}
    /\ \E c \in look[j] :
         /\ look' = [look EXCEPT ![j] = @ \ {c}]
         /\ pending' = [pending EXCEPT ![j] =
               @ \/ (acked[c] < target[j] /\ c \in Relevant(Head(batch[j]).root))]
    /\ UNCHANGED <<rootVars, up, engineVars, acked, ipi, pollVars, jpc, batch, target,
                   ghostVars>>

\* Somebody is behind: poll, so that two jobs do not wait for each other, and
\* look again.
WaitAgain(j) ==
    /\ jpc[j] = "wait" /\ Free(Home[j])
    /\ look[j] = {} /\ pending[j]
    /\ StartPoll(Home[j])
    /\ look' = [look EXCEPT ![j] = Cpus]
    /\ pending' = [pending EXCEPT ![j] = FALSE]
    /\ UNCHANGED <<rootVars, up, engineVars, acked, ipi, jpc, batch, target, ghostVars>>

Return(j) ==
    /\ jpc[j] = "wait" /\ Free(Home[j])
    /\ look[j] = {} /\ ~pending[j]
    /\ Done(j)
    /\ UNCHANGED <<rootVars, up, engineVars, acked, ipi, pollVars, pt, tlb, issued>>

\* collect_retired frees quarantined frames once acknowledged_through, the least
\* acknowledgement of the online CPUs, has reached their sequence.
Collect(j) ==
    /\ jpc[j] = "quarantine" /\ Free(Home[j])
    /\ \A c \in Online : acked[c] >= target[j]
    /\ Done(j)
    /\ UNCHANGED <<rootVars, up, engineVars, acked, ipi, pollVars, pt, tlb, issued>>

-----------------------------------------------------------------------------
Begin(j) ==
    \/ \E s \in Roots, pages \in SUBSET UserPages \ {{}}, root \in Roots \cup {Global} :
            /\ root \in {s, Global} /\ j \notin Async
            /\ Edit(j, s, pages, root)
    \/ \E pages \in SUBSET KernelPages \ {{}} : Edit(j, Global, pages, Global)

Job(j) ==
    \/ Lock(j) \/ Prepare(j) \/ WriteAddress(j) \/ WriteRoot(j) \/ Publish(j)
    \/ PollHere(j) \/ Send(j) \/ WaitLook(j) \/ WaitAgain(j) \/ Return(j) \/ Collect(j)

SwitchStep(c) == Advertise(c) \/ InstallRoot(c) \/ FinishSwitch(c)
BringUp(c) == Register(c) \/ MarkOnline(c)

Next ==
    \/ \E c \in Cpus : Poll(c) \/ TakeIpi(c) \/ Switch(c) \/ SwitchStep(c) \/ BringUp(c)
    \/ \E j \in Jobs : Begin(j) \/ Job(j)
    \/ \E c \in Cpus, l \in Leaves : Fill(c, l)

Spec == Init /\ [][Next]_vars

-----------------------------------------------------------------------------
(* Properties *)

\* CPU c can reach a translation of l from before an edit that is complete: of
\* a kernel page at any time, of a user page while a thread runs on that page's
\* root.  Between the store of the new active root and the load of the register
\* the CPU is in the kernel and uses no user page of the old root.
StaleUse(c, l) ==
    /\ tlb[c][l] \in 0 .. gone[l] - 1
    /\ l[1] = Global \/ (l[1] = hw[c] /\ pc[c] = "run")

\* Once commit has returned, or a quarantined frame was collected, no CPU that
\* was online from the start can use a translation from before the edit.
NoStaleUse == \A c \in AtBoot, l \in Leaves : ~StaleUse(c, l)

\* The same for every online CPU: quarantine_page in kernel/src/mem/alloc.rs
\* says that "no remote TLB can retain an alias in the single-CPU case".
NoStaleUseAnywhere == \A c \in Online, l \in Leaves : ~StaleUse(c, l)

\* commit returns: CPUs that switch spaces and jobs that wait for each other
\* with interrupts masked cannot hold it up.
CommitReturns(j) == jpc[j] = "wait" ~> jpc[j] = "idle"

\* A quarantined frame is collected in the end.
=============================================================================
