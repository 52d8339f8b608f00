-------------------------------- MODULE Pipe --------------------------------
(***************************************************************************)
(* The anonymous byte pipe of kernel/src/proc/pipe.rs: threads that share  *)
(* the read end, threads that share the write end, and the two level       *)
(* events that put them to sleep.  A critical section of Pipe::state is    *)
(* one step; the events are reset or signaled inside it, but a thread      *)
(* waits on them after it has released the lock.                           *)
(*                                                                         *)
(* Bytes are numbered in the order in which write() accepts them.          *)
(***************************************************************************)
EXTENDS LevelEvent, Integers, Sequences

CONSTANTS
    Readers, Writers,
    Capacity,       \* PIPE_CAPACITY
    AtomicLimit,    \* PIPE_ATOMIC_LIMIT
    MaxLength,      \* bound: bytes asked for by one read or write
    MaxBytes        \* bound: bytes written in all

VARIABLES
    buffer, readerOpen, writerOpen,     \* PipeState
    readable, writable,                 \* the events
    nonblocking,                        \* the ends with PipeEnd::nonblocking
    length,                             \* bytes a thread's call asks for
    given, taken,                       \* bytes accepted and delivered so far
    pc

ends == <<readerOpen, writerOpen, nonblocking>>
vars == <<buffer, ends, readable, writable, length, given, taken, pc>>

Threads == Readers \cup Writers

TypeOK ==
    /\ buffer \in Seq(1 .. MaxBytes)
    /\ readerOpen \in BOOLEAN /\ writerOpen \in BOOLEAN
    /\ readable \in EventOf(Readers) /\ writable \in EventOf(Writers)
    /\ nonblocking \subseteq {"read", "write"}
    /\ length \in [Threads -> 0 .. MaxLength]
    /\ given \in 0 .. MaxBytes /\ taken \in 0 .. MaxBytes
    /\ pc \in [Threads -> {"idle", "lock", "wait", "sleep"}]

\* PipeEnd::pair
Init ==
    /\ buffer = <<>>
    /\ readerOpen = TRUE /\ writerOpen = TRUE
    /\ readable = NewEvent /\ writable = Signal(NewEvent)
    /\ nonblocking = {}
    /\ length = [t \in Threads |-> 0]
    /\ given = 0 /\ taken = 0
    /\ pc = [t \in Threads |-> "idle"]

Goto(t, label) == pc' = [pc EXCEPT ![t] = label]

OpenTo(t) == IF t \in Readers THEN readerOpen ELSE writerOpen

\* A call with a nonempty buffer, on an end the caller keeps open.
Call(t, n) ==
    /\ pc[t] = "idle"
    /\ OpenTo(t)
    /\ t \in Writers => given < MaxBytes
    /\ length' = [length EXCEPT ![t] = n]
    /\ Goto(t, "lock")
    /\ UNCHANGED <<buffer, ends, readable, writable, given, taken>>

Return(t) == Goto(t, "idle") /\ length' = [length EXCEPT ![t] = 0]

Least(m, n) == IF m <= n THEN m ELSE n

-----------------------------------------------------------------------------
(* PipeEnd::read *)

ReadData(r) ==
    LET count == Least(length[r], Len(buffer))
    IN  /\ pc[r] = "lock"
        /\ buffer # <<>>
        /\ buffer' = SubSeq(buffer, count + 1, Len(buffer))
        /\ taken' = taken + count
        /\ readable' = IF count = Len(buffer) THEN Reset(readable) ELSE readable
        /\ writable' = Signal(writable)
        /\ Return(r)
        /\ UNCHANGED <<ends, given>>

\* Mutant: the bytes are drained before the copy is known to succeed.
ReadFaultDrains(r) ==
    /\ pc[r] = "lock" /\ buffer # <<>>
    /\ buffer' = Tail(buffer)
    /\ Return(r)
    /\ UNCHANGED <<ends, readable, writable, given, taken>>

\* The sink faults: nothing is drained.
ReadFault(r) ==
    /\ pc[r] = "lock"
    /\ buffer # <<>>
    /\ Return(r)
    /\ UNCHANGED <<buffer, ends, readable, writable, given, taken>>

\* End of file, or TryAgain on a nonblocking end.
ReadNothing(r) ==
    /\ pc[r] = "lock"
    /\ buffer = <<>>
    /\ ~writerOpen \/ "read" \in nonblocking
    /\ Return(r)
    /\ UNCHANGED <<buffer, ends, readable, writable, given, taken>>

ReadBlock(r) ==
    /\ pc[r] = "lock"
    /\ buffer = <<>> /\ writerOpen /\ "read" \notin nonblocking
    /\ readable' = Reset(readable)
    /\ Goto(r, "wait")
    /\ UNCHANGED <<buffer, ends, writable, length, given, taken>>

\* Mutant: the level is reset only now, after the lock was released.
ReadWaitResets(r) ==
    /\ pc[r] = "wait"
    /\ readable' = Join(Reset(readable), r)
    /\ Goto(r, "sleep")
    /\ UNCHANGED <<buffer, ends, writable, length, given, taken>>

ReadWait(r) ==
    /\ pc[r] = "wait"
    /\ readable' = Join(readable, r)
    /\ Goto(r, "sleep")
    /\ UNCHANGED <<buffer, ends, writable, length, given, taken>>

ReadWake(r) ==
    /\ pc[r] = "sleep"
    /\ ~Asleep(readable, r)
    /\ Goto(r, "lock")
    /\ UNCHANGED <<buffer, ends, readable, writable, length, given, taken>>

-----------------------------------------------------------------------------
(* PipeEnd::write *)

Available == Capacity - Len(buffer)
Fits(w) == Available # 0 /\ (length[w] <= AtomicLimit => Available >= length[w])

\* The bytes that fit are copied; a source fault after the first window cuts
\* the write short.
WriteData(w, fault) ==
    LET room == Least(Available, length[w])
    IN  /\ pc[w] = "lock"
        /\ readerOpen
        /\ Fits(w)
        /\ \E count \in 1 .. room :
              /\ count = room \/ fault
              /\ given + count <= MaxBytes
              /\ buffer' = buffer \o [i \in 1 .. count |-> given + i]
              /\ given' = given + count
              /\ writable' = IF Len(buffer) + count = Capacity THEN Reset(writable)
                             ELSE writable
        /\ readable' = Signal(readable)
        /\ Return(w)
        /\ UNCHANGED <<ends, taken>>

\* BrokenPipe, a fault on the first byte, or TryAgain.
WriteNothing(w) ==
    /\ pc[w] = "lock"
    /\ ~readerOpen \/ Fits(w) \/ "write" \in nonblocking
    /\ Return(w)
    /\ UNCHANGED <<buffer, ends, readable, writable, given, taken>>

WriteBlock(w) ==
    /\ pc[w] = "lock"
    /\ readerOpen /\ ~Fits(w) /\ "write" \notin nonblocking
    /\ writable' = Reset(writable)
    /\ Goto(w, "wait")
    /\ UNCHANGED <<buffer, ends, readable, length, given, taken>>

WriteWait(w) ==
    /\ pc[w] = "wait"
    /\ writable' = Join(writable, w)
    /\ Goto(w, "sleep")
    /\ UNCHANGED <<buffer, ends, readable, length, given, taken>>

WriteWake(w) ==
    /\ pc[w] = "sleep"
    /\ ~Asleep(writable, w)
    /\ Goto(w, "lock")
    /\ UNCHANGED <<buffer, ends, readable, writable, length, given, taken>>

-----------------------------------------------------------------------------
(* Endpoints *)

SetNonblocking(end, value) ==
    /\ nonblocking' = IF value THEN nonblocking \cup {end} ELSE nonblocking \ {end}
    /\ UNCHANGED <<buffer, readerOpen, writerOpen, readable, writable, length, given,
                   taken, pc>>

\* Mutant: a closing end wakes nobody.
CloseWriterSilently ==
    /\ writerOpen /\ \A w \in Writers : pc[w] = "idle"
    /\ writerOpen' = FALSE
    /\ UNCHANGED <<buffer, readerOpen, nonblocking, readable, writable, length, given,
                   taken, pc>>

\* PipeEnd::drop, when the last descriptor of an end goes: nobody is in a call
\* on that end.
CloseReader ==
    /\ readerOpen
    /\ \A r \in Readers : pc[r] = "idle"
    /\ readerOpen' = FALSE
    /\ writable' = Signal(writable)
    /\ UNCHANGED <<buffer, writerOpen, nonblocking, readable, length, given, taken, pc>>

CloseWriter ==
    /\ writerOpen
    /\ \A w \in Writers : pc[w] = "idle"
    /\ writerOpen' = FALSE
    /\ readable' = Signal(readable)
    /\ UNCHANGED <<buffer, readerOpen, nonblocking, writable, length, given, taken, pc>>

Inside(t) ==
    \/ /\ t \in Readers
       /\ \/ ReadData(t) \/ ReadFault(t) \/ ReadNothing(t)
          \/ ReadBlock(t) \/ ReadWait(t) \/ ReadWake(t)
    \/ /\ t \in Writers
       /\ \/ \E fault \in BOOLEAN : WriteData(t, fault)
          \/ WriteNothing(t) \/ WriteBlock(t) \/ WriteWait(t) \/ WriteWake(t)

Next ==
    \/ \E t \in Threads : Inside(t) \/ \E n \in 1 .. MaxLength : Call(t, n)
    \/ \E end \in {"read", "write"}, value \in BOOLEAN : SetNonblocking(end, value)
    \/ CloseReader \/ CloseWriter

Spec == Init /\ [][Next]_vars

\* A thread inside a call goes on; nobody has to make a call or close an end.
FairSpec == Spec /\ \A t \in Threads : WF_vars(Inside(t))

-----------------------------------------------------------------------------
(* Properties *)

\* The buffer holds exactly the accepted bytes that no read has delivered, in
\* order: none is lost, duplicated or overtaken, faults included.
StreamInOrder ==
    /\ Len(buffer) = given - taken
    /\ \A i \in DOMAIN buffer : buffer[i] = taken + i

\* PIPE_CAPACITY is never exceeded, whatever mix of atomic and partial writes.
WithinCapacity == Len(buffer) <= Capacity

\* A writer sleeps only while the read end is open and bytes are buffered, and
\* only while its own write does not fit or another writer, blocked on a longer
\* atomic write that does not fit, has reset the level both of them wait on: so
\* a short write may sleep beside room for it, until the next read.
WriterNotStranded ==
    \A w \in Writers : Asleep(writable, w) =>
        /\ readerOpen /\ buffer # <<>>
        /\ \/ ~Fits(w)
           \/ \E v \in Writers \ {w} : pc[v] \in {"wait", "sleep"} /\ ~Fits(v)

\* "Writes bytes, blocking only while the pipe buffer is full" (write): a writer
\* does not sleep beside room for its write.
NoSleepBesideRoom == \A w \in Writers : Asleep(writable, w) => ~Fits(w)

\* A reader sleeps only beside an empty pipe, and a reader that has the read
\* end to itself only while the write end is open.  Of several, one that resets
\* the level late can sleep beside a closed write end: ReadReturns is about that.
ReaderNotStranded ==
    \A r \in Readers : Asleep(readable, r) =>
        buffer = <<>> /\ (Readers = {r} => writerOpen)

\* "Reads bytes, blocking until data or writer closure is observable."
ReadEnds(r) == (pc[r] # "idle" /\ ~writerOpen) ~> (pc[r] = "idle")
ReadReturns == \A r \in Readers : ReadEnds(r)

\* A write returns once the read end is closed.
WriteEnds(w) == (pc[w] # "idle" /\ ~readerOpen) ~> (pc[w] = "idle")
=============================================================================
