------------------------------- MODULE MCIpc -------------------------------
(***************************************************************************)
(* Events and pipes.  A behaviour is about one case:                       *)
(*   reuse   one thread waits twice on two events, under two wakers;       *)
(*   crowd   two threads wait on events and on a ticket, under one waker;  *)
(*   pipe    two readers and two writers share a pipe;                     *)
(*   reader  one reader and two writers, so that calls return.             *)
(***************************************************************************)
EXTENDS Event

CONSTANTS e1, e2, s1, w1, w2, a1, a2, r1, r2

MCEvents == {e1, e2, s1}
MCSequenceEvents == {s1}
MCWaiters == {w1, w2}
MCWakers == {a1, a2}
MCWaitLists == {<<e1, e2>>, <<e2>>}

VARIABLES
    buffer, readerOpen, writerOpen, readable, writable, nonblocking, length, given,
    taken, call, case

pipeVars == <<buffer, readerOpen, writerOpen, readable, writable, nonblocking, length,
              given, taken, call>>
allVars == <<vars, pipeVars, case>>

Shared == INSTANCE Pipe WITH pc <- call, Readers <- {r1, r2}, Writers <- {w1, w2},
    Capacity <- 3, AtomicLimit <- 2, MaxLength <- 3, MaxBytes <- 3
Single == INSTANCE Pipe WITH pc <- call, Readers <- {r1}, Writers <- {w1, w2},
    Capacity <- 3, AtomicLimit <- 2, MaxLength <- 3, MaxBytes <- 4

MCInit ==
    \/ case \in {"reuse", "crowd", "pipe"} /\ Init /\ Shared!Init
    \/ case = "reader" /\ Init /\ Single!Init

MCNext ==
    /\ case' = case
    /\ \/ case = "reuse" /\ Next /\ pc'[w2] = "idle" /\ UNCHANGED pipeVars
       \/ /\ case = "crowd" /\ Next
          /\ pc'[a2] = "idle" /\ signaled'[e1] = FALSE /\ \A w \in Waiters : parkSeq'[w] <= 1
          /\ UNCHANGED pipeVars
       \/ case = "pipe" /\ Shared!Next /\ UNCHANGED vars
       \/ case = "reader" /\ Single!Next /\ UNCHANGED vars

\* Every started wait, signal, wake, read or write runs to completion; nobody
\* has to make a call or close an end.
MCSpec ==
    /\ MCInit /\ [][MCNext]_allVars
    /\ \A w \in {w1, w2} : WF_vars(case = "crowd" /\ Waiting(w))
    /\ WF_vars(case = "crowd" /\ Waking(a1))
    /\ \A t \in {r1, w1, w2} : WF_pipeVars(case = "reader" /\ Single!Inside(t))

-----------------------------------------------------------------------------
(* Properties *)

\* Event::signal and SequenceEvent::notify are never slept through, and QUEUED
\* never hides a waiter from them.
NoMissedWake == QueuedBitExact /\ NoMissedSignal /\ NoMissedNotify

\* wait_with_registrations: each claimed wait is woken exactly once, for one of
\* its own events, and no registration on its stack outlives it.
WaitsSound == TypeOK /\ ClaimedWakesFresh /\ NoDanglingRegistration /\ WinnerOnReturn

\* PipeEnd::read and write keep the byte stream: nothing is lost, duplicated,
\* overtaken or buffered beyond PIPE_CAPACITY, faults and partial writes included.
PipeStream ==
    /\ case = "pipe" => Shared!StreamInOrder /\ Shared!WithinCapacity
    /\ case = "reader" => Single!StreamInOrder /\ Single!WithinCapacity

\* PipeEnd::read and write do not sleep past the event they wait for: a reader
\* never beside buffered bytes, nor a lone reader beside a closed write end; a
\* writer never beside a closed read end or an empty pipe, nor while its write
\* fits unless a longer atomic write that does not fit is blocked too.
PipeNotStranded ==
    /\ case = "pipe" => Shared!WriterNotStranded /\ Shared!ReaderNotStranded
    /\ case = "reader" => Single!WriterNotStranded /\ Single!ReaderNotStranded

\* A wait on an event that stays signaled, and on an outdated ticket, returns.
WaitReturns == case = "crowd" => WaitEnds(w1, e2) /\ TicketEnds(w1)

\* With one reader, a read returns after the write end was closed and a write
\* after the read end was.
PipeCallReturns == case = "reader" => Single!ReadEnds(r1) /\ Single!WriteEnds(w1)
=============================================================================
