------------------------------ MODULE LevelEvent ------------------------------
(***************************************************************************)
(* What sys::event::Event promises to the primitives built on it: a level  *)
(* that stays signaled until it is reset, and a set of sleeping waiters    *)
(* that a signal empties.  Event.tla models how the code keeps the promise *)
(* that a wait never sleeps through a signal.                              *)
(***************************************************************************)
EXTENDS Naturals

NewEvent == [signaled |-> FALSE, waiters |-> {}]

\* Event::signal sets the level and wakes every waiter.
Signal(e) == [signaled |-> TRUE, waiters |-> {}]

\* Event::reset clears the level; it wakes and disturbs nobody.
Reset(e) == [e EXCEPT !.signaled = FALSE]

\* Event::wait joins the waiters unless the level is already set.
Join(e, t) == IF e.signaled THEN e ELSE [e EXCEPT !.waiters = @ \cup {t}]
Asleep(e, t) == t \in e.waiters

EventOf(Waiters) == [signaled : BOOLEAN, waiters : SUBSET Waiters]
=============================================================================
