----------------------------- MODULE LogCommit -----------------------------
(***************************************************************************)
(* What ovsdb/log.c promises to Raft: records are appended to a log, a     *)
(* commit that is started covers all records written so far, a commit is   *)
(* reported as done only when these records are on disk, and a crash loses *)
(* nothing that is.  A record is its number, so that the log is a count.   *)
(***************************************************************************)
EXTENDS Naturals, Sequences

VARIABLES
    written,   \* records in the log
    durable,   \* records that a crash cannot take away
    pending,   \* for each commit under way, in order, the records it covers
    acked      \* records covered by the commits reported as done

vars == <<written, durable, pending, acked>>

Init == written = 0 /\ durable = 0 /\ pending = <<>> /\ acked = 0

\* ovsdb_log_write().
Append1 == /\ written' = written + 1
           /\ UNCHANGED <<durable, pending, acked>>

\* ovsdb_log_commit_start().
Start == /\ pending' = Append(pending, written)
         /\ UNCHANGED <<written, durable, acked>>

\* The disk takes more records: an fsync, or a replacement of the file.
Sync == /\ durable' \in durable .. written
        /\ UNCHANGED <<written, pending, acked>>

\* The first n commits are reported as done, as seen by
\* ovsdb_log_commit_progress().
Complete(n) == /\ pending[n] <= durable
               /\ acked' = pending[n]
               /\ pending' = SubSeq(pending, n + 1, Len(pending))
               /\ UNCHANGED <<written, durable>>

\* A crash, and the log as it is read after the restart.
Crash == /\ written' \in durable .. written
         /\ durable' = written'
         /\ pending' = <<>>
         /\ UNCHANGED acked

Next == \/ Append1
        \/ Start
        \/ Sync
        \/ \E n \in 1 .. Len(pending) : Complete(n)
        \/ Crash

Spec == Init /\ [][Next]_vars

\* What was reported as done is never lost, whenever the crash comes.
AckedDurable == acked <= durable
=============================================================================
