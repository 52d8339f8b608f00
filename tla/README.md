# roanix: TLA+ models, model checks and proofs

This directory models the concurrent core of the roanix kernel (`kernel/src`):
the sleeping locks, the events and pipes built on them, the per-CPU scheduler,
address-space switching with translation-cache shootdown, and the life of
processes and signals. Every definition is translated from the Rust source.
`PROJECT.json` maps definitions to source lines and lists the parts of the
kernel, the runs, the mutants, the findings and the hazards.

`tlc -workers 2 -config X.cfg M` checks a run, `tlapm M.tla` the proofs of a module.

## The parts and how they interact

All blocking ends in one protocol: a thread takes a park sequence
(`prepare_park`), makes itself known to whoever will wake it, and parks; the
waker moves the *park word* from `waiting` or `parked` to `idle`, and only the
one that wins a `parked` word hands the thread to a CPU.

| layer | code | how the upper layer sees it |
| --- | --- | --- |
| scheduler | `sys/sched.rs`, `sys/thread.rs` | a park word and its sequence |
| mutex | `sys/sync.rs` | one holder, FIFO handoff (`FifoLock`) |
| events | `sys/event.rs` | a level and a set of sleepers (`LevelEvent`) |
| reader/writer lock, pipes, wait, signals | `sys/sync/rwlock.rs`, `proc/` | |
| roots and shootdown | `mem/mod.rs`, `mem/tlb.rs` | |

`Mutex` and `Event` are checked down to their atomic accesses with the park
words of their threads. `RwLock`, `Pipe` and `Process` then use the mutex and
the events as single steps. `Sched` models the other side of the park word.

## Modules

| module | models | kind |
| --- | --- | --- |
| `FifoLock` | what the mutex promises: one holder, handoff in FIFO order | abstract |
| `Mutex` | `Mutex` of `sys/sync.rs` with priority lending | detailed |
| `MutexInvariant` | inductive invariant of `Mutex`, lemmas on queues and priorities | proofs |
| `MutexLocking`, `MutexUnlocking`, `MutexHandoff` | the actions of `Mutex` keep it | proofs |
| `MutexProofs` | theorems about `Mutex` | proofs |
| `SharedLock` | what a reader/writer lock promises | abstract |
| `RwLock` | `sys/sync/rwlock.rs` | detailed |
| `Once` | `Once` of `sys/sync.rs`, with poisoning | detailed |
| `Event` | `sys/event.rs`: events, `wait_any`, `SequenceEvent` | detailed |
| `LevelEvent` | an event as its clients use it | operators |
| `Pipe` | `proc/pipe.rs` | detailed |
| `Sched` | `sys/sched.rs`, park words of `sys/thread.rs` | detailed |
| `AddressRoot` | `activate_thread_space`, `activate_kernel_space` of `mem/mod.rs` | shared actions |
| `RootRetire` | `retire_address_space_root` over `AddressRoot` | composition |
| `Tlb` | `mem/tlb.rs`, quarantine of `mem/alloc.rs`, over `AddressRoot` | composition |
| `Process` | process tree of `proc/mod.rs` | detailed |
| `Signals` | `proc/signal.rs`, one process | detailed |
| `MCMutex`, `MCLocks`, `MCIpc`, `MCSched`, `MCTlb`, `MCTranslation`, `MCProcess` | small instances | TLC |

An MC module holds several *cases*: the first state chooses one, and the others
stay in their initial state. The cases of a run share their properties.

### Mutex, RwLock, Once

The mutex word is two bits (`LOCKED`, `QUEUED`) changed by compare-exchange; the
waiters queue and what is reached from it is protected by a spinlock. Every
atomic access outside the spinlock is one action, and so is every step under it
that another thread can observe. `pc` says where a thread is in `lock`,
`lock_slow` or `unlock`; `parkState` and `parkSeq` are its park word; `boosted`,
`boostCount` and `lent` the loans of priority. Threads in `Masked` call with
interrupts disabled and spin instead of sleeping.

`RwLock` has one step per access to its word, its mutex and its event; an
initializer of `Once` may return or panic.

### Event, Pipe

`signaled` and `queued` are the state byte of an event. A critical section of the
queue's spinlock is one step except in `register`, whose load and `fetch_or`
race with `signal`. A wait on several events has one registration per event on
its stack, and one winner.

In `Pipe` every critical section of the pipe's mutex is one step, and beginning
to wait on `readable` or `writable` is another, so the level may change between
the two. Bytes are numbered in the order they are given, so loss, duplication
and reordering are visible. A user-memory fault may cut a transfer short.

### Sched

A critical section of one or two per-CPU locks is one step; `pc[c]` says how far
CPU `c` is on its way through `trap_return` or an idle pull, `exec[c]` on whose
kernel stack it really runs, which lags behind `current[c]`. `task[w]` is the
thread a waker has won and not yet queued. Interrupts are explicit: `timer[c]`
(the local timer is armed), `kick[c]` (an IPI or a deferred request is on its
way), `reachable[c]` (the CPU accepts IPIs, later than `online[c]`) and `notice`
(a `ReapNotice` that `trap_return` has yet to drop). The history variable
`missed[c]` remembers that a kick the CPU needed was not sent.

### AddressRoot, RootRetire, Tlb

`hw[c]` is the root the CPU walks; `active[c]` and `previous[c]` are what it
advertises. Each store and the hardware switch is one step, because retirement
and shootdown decide from single loads of them. `Tlb` adds the ring of records,
replay, acknowledgement, the two loads of a commit's scan, quarantine, and the
bring-up of a CPU. Ghost versions of every leaf tell a stale translation.

### Process, Signals

`Process` has one step per critical section of `fork_from`, `exec_current`,
`mark_exited`, `wait_current` and the group and session calls. `late` is a
history variable: children forked by a peer of a thread that had already taken
the process's children in `mark_exited`. The last thread of init may exit; from
then on an exiting process finds no init (`Disown`).

`Signals` has the pending set, masks, the `pending_work` hint, the stop record
and its park sequence, frames, `sigsuspend`, `sigtimedwait`, `signalfd` reads
and `deliver_pending`, taken step by step: interrupts are enabled there, so a
sender may come between any two of them, and the lock in `mark_stopped` may be
contended, which parks the thread once more and drops the stop.

## Runs that pass

**`locks`** (`MCLocks`): *mutex* with four threads of four priorities, one with
interrupts masked; *unmasked* without it; *rwlock* with three threads; *once*
with four callers. Mutual exclusion, `QUEUED` never hides a waiter
(`NoLostWaiter`), loans match the waiters that made them (`BoostsBalance`, for
one mutex: a thread that holds two restores its base priority only with the last
loan), every step is a step of `FifoLock` or invisible to it, a queued thread
gets the lock, `RwLock` implements `SharedLock`, a writer gets in however many
readers come, and a `call_once` ends. The kernel's panic handler halts, so the
poisoned path of `Once` is only reached by a build that unwinds.

**`ipc`** (`MCIpc`): *reuse*, one thread waits twice under two wakers; *crowd*,
two threads under one waker, one of them on a ticket; *pipe*, two readers and
two writers; *reader*, one reader and two writers. No signal is slept through,
a claimed wait is woken once, no registration outlives its wait; the byte stream
is kept; no caller of a pipe sleeps on although it alone was due to be woken;
waits, reads and writes return.

**`scheduler`** (`MCSched`): two CPUs, two threads, one waker. *mixed*: an
interactive and an interrupt thread; *policy*: boosts, pinning and disabled
preemption; *woken*: one thread that parks twice; *turns*: equals on one CPU;
*reaper*: the maintenance thread frees the other. No kernel stack is used by two
CPUs; a thread is in exactly the queue its state says; loads are exact; nothing
freed is referred to (a caller that keeps a raw handle after exit is outside the
contract); disabled preemption is respected and the put-off switch not
forgotten. `NoLostWakeup`: a blocked thread can be woken or its waker is on the
way, and a CPU with queued work has its timer or a kick, but for the exceptions
listed below. Under fairness a woken thread runs and equals take turns.

**`translation`** (`MCTranslation`): two CPUs, two spaces. *retire*, *last*:
retirement against switches; *commit*, *switch*, *full*, *ring*, *batch*:
revocation with an overwritten ring, two spaces, a batch beyond the inline
limit, quarantine with torn records, batches of two; *bringup*: a late CPU;
*masked*: two commits at each other. A CPU runs a thread on its own root, never
walks a freed one, and uses no revoked translation in thread code. While a CPU
switches it may still hold one of the root it leaves, between the store of
`active` and the hardware switch; `commit_batch` does not wait for it, and no
thread code runs there. Retirement returns, and so do masked commits.

**`processes`** (`MCProcess`): *tree*, three processes and three threads;
*groups*, two processes, waits by pid and group; *stops*, one thread stopped,
continued and killed; *handlers*, nested handlers and masks; *shared*, two
threads with one pending set. No process is held twice or reaped alive, none is
left with a dead one except the late forks; exec is alone; a parent is woken
(only *tree* has a parent other than init); a clear hint hides no signal,
`sigsuspend` and `sigtimedwait` do not sleep beside a signal that ends them,
masks come back, a stopped thread is recorded so that it can be continued.

## Runs that end in a counterexample

Each shows a state that a line of the source says cannot be; `findings` in
`PROJECT.json` quotes the line.

| run | what it reaches |
| --- | --- |
| `mutex_inheritance` | a waiter that queues before `publish_owner` lends to nobody and sleeps |
| `quiet_cpu` | a CPU idles beside a ready thread: the kick came before `mark_current_online` |
| `pipe_shared_reader` | of two readers of one end, one resets `readable` after the close, the other sleeps for ever |
| `pipe_short_write` | a short write sleeps beside room: a longer atomic write reset `writable` |
| `tlb_late_cpu` | a CPU comes online with a translation revoked while it was starting |
| `orphan_wait` | a child given to init while it exits wakes its old parent, init sleeps on |
| `stop_kill` | SIGKILL between `take_deliverable` and `mark_stopped`: the thread stops with it pending |

## What the code does that the properties allow

These are exact exceptions, not gaps of the models: the steps are there, and
the property excludes only these states.

- A running thread with `need_resched` set has no timer. Where a pull or a steal
  left the flag set (`sched.rs:1352`, `1130`), its queue waits for its next trap.
- A kick that was not sent to an idle CPU: before it is reachable
  (`quiet_cpu`), or from a `ReapNotice` dropped after the decision
  (`sched.rs:1155`). `missed` records both.
- `fork_current` does not look at `exited`: a child forked by a peer after
  `mark_exited` took the list stays with a dead process, unless a second thread
  ends the process too.
- A read of a signalfd sleeps through every signal outside its set, SIGKILL too.
- `mark_stopped` drops the stop when its lock was contended.
- A short write may sleep beside room while a longer atomic write is blocked too
  (`pipe_short_write`), and a second reader after a close (`pipe_shared_reader`).

## Bounds

- `locks`: four threads let a handoff find waiters boosted and not boosted while
  another thread races for the word; `MaxParks = 2` lets a thread queue again
  after a grant. A park sequence that goes stale between snapshot and wake needs
  more parks: the theorem `WakesAreExact` covers it for any number.
- `ipc`: `MaxParks = 2` reuses registrations, `MaxGeneration = 1` outdates a
  ticket. `Capacity = 3`, `AtomicLimit = 2`, `MaxLength = 3` distinguish atomic,
  partial and refused writes; `MaxBytes` is above the capacity where calls must
  return (*reader*), and equal to it with two readers.
- `scheduler`: two CPUs give every pair of locks, two threads a queue behind a
  running thread; `MaxParks` is 1, and 2 in *woken*, where a thread is woken on
  a CPU that has gone idle since it last ran.
- `translation`: rings of one or two records are overwritten by the second or
  third publication (`MaxSequence`). At these bounds a torn record differs in
  the root or in the page, not in both.
- `processes`: a third process gives orphans, a third thread a peer that forks
  while another ends the process. `Groups` bounds the groups joined or created.
  Three parks are a stop, its continuation and another stop.

Thread symmetry is used in `processes`, which checks no liveness. Deadlock
checking is off in `ipc` and `processes`, whose threads really may stop: a
waiter nobody signals, a pipe whose bytes are spent, a process tree that ended.

## Fairness

Weak fairness means that a call that was started runs on; nobody has to start
one, close an end, or exit. It rests on the scheduler giving a ready thread a
CPU. Beyond that:

- `Sched`: a trap is certain only while the timer is armed or a kick is on its
  way, so an idle CPU without either stays idle. Strong fairness of `TrapSwitch`
  with a tick says that time slices end.
- `RwLock`: strong fairness of passing the gate stands for the FIFO queue of
  the mutex, which `locks` checks by refinement.
- `RootRetire`, `Tlb`: strong fairness of a pending IPI, taken whenever the CPU
  unmasks interrupts, and of the retiring thread, which stays runnable.
- `Mutex`: a queued thread gets the lock only if no masked thread spins on the
  word, so liveness is checked in *unmasked*.

## Proofs

`MutexProofs` proves of `Mutex`, for every finite set of threads, every
priority assignment, every set of masked threads, with and without SMP and for
every `MaxParks`:

- `TypeCorrect`: `[]TypeOK`;
- `MutualExclusionHolds`: one owner, and `LOCKED` says whether there is one;
- `NoWaiterIsLost`: outside the spinlock `QUEUED` is set exactly while a waiter
  is linked, and then there is a holder to hand the lock on;
- `WakesAreExact`: a wake never meets a newer park sequence, and `park_current`
  returns only to a granted waiter;
- `BoostsAreExact`: `boost_count` and the lent priority are those of the waiters
  lending, and only the holder is boosted.

Assumptions (in `Mutex`): the set of threads is finite and does not contain
`NoThread`, priorities are in `0 .. MaxPriority`, `Masked` is a set of threads,
`Smp` is Boolean, `MaxParks` a natural number.

None of the properties is inductive: mutual exclusion rests on the handoff
finding a waiter that has not been granted, hence on the queue and the park
words. `IInv` adds that the spinlock is held by exactly the thread whose label
says so (`GuardInv`), that a thread is linked from its push to its pop
(`QueueInv`) and only once (`DistinctInv`), how `QUEUED` lags behind the queue
while a waiter publishes it (`BitInv`), what remains true between a load and its
use (`StaleInv`), the one wake a granted waiter is owed (`ParkInv`), and whom a
loan may concern (`LendInv`). `MutexLocking`, `MutexUnlocking` and `MutexHandoff`
have one lemma per action, with one step per conjunct; the lemmas of
`MutexInvariant` are about the least lent priority and about `Append` and `Tail`.

Only model-checked: every liveness property, the refinements (`FifoLock`,
`SharedLock`), and everything outside `Mutex`. Fairness and `ENABLED` are beyond
the prover.

## Not modelled

Timers and clocks, epoll, inotify and timerfd, terminals, the physical
allocator, heap and virtual-memory objects, the virtual file system and its file
systems, device nodes, drivers and their work queues, and the kernel log are not
modelled so far. The loader, the on-disk readers,
system-call decoding, boot code and architecture support are sequential or register-level and appear only as the primitives the models use
(interrupts, context switches, IPIs). In the modelled parts the following is left
out: the batch priority range and interactivity scoring of the scheduler; file
descriptors, terminals, nice values and SIGCHLD of processes (`wait_current`
does not look at signals); alternate stacks, frame contents and the targets of
`kill`; CPUs beyond `MAX_TLB_CPUS` and the wrap-around of sequences at 2^64.
