------------------------------- MODULE OvsSeq -------------------------------
(***************************************************************************)
(* Sequence numbers (lib/seq.c).  A seq is its value and the threads that  *)
(* wait for it to change; all of its operations run under seq_mutex, so    *)
(* each of them is one step.  A thread that must not block in its next     *)
(* poll_block(), because its latch is set or it asked for an immediate     *)
(* wake-up, is in awake.                                                   *)
(***************************************************************************)
EXTENDS Naturals

VARIABLE awake    \* the threads that will not block in their next poll_block()

seq_create == [value |-> 0, waiters |-> {}]

\* seq_change(): a new value, and no waiter is left.
seq_change(q) == [value |-> q.value + 1, waiters |-> {}]

\* seq_wake_waiters(): the threads whose latch a change sets.
seq_wake_waiters(q) == q.waiters

\* seq_wait(), by thread t, for a change from value v.  If the value is no
\* longer v, the thread is not to block (Changed).
Changed(q, v, t) == IF q.value = v THEN {} ELSE {t}
seq_wait(q, v, t) == IF q.value = v THEN [q EXCEPT !.waiters = @ \cup {t}] ELSE q

\* seq_woke(), at the end of poll_block(): t no longer waits.
seq_woke(q, t) == [q EXCEPT !.waiters = @ \ {t}]
=============================================================================
