------------------------------- MODULE AfSync -------------------------------
(***************************************************************************)
(* The log file of ovsdb/log.c and its fsync thread.  The main thread      *)
(* writes records, starts commits, replaces the file, and waits in its     *)
(* loop (raft_run(), raft_wait(), poll_block()) until the commits are      *)
(* done; the thread "log_fsync" waits for requests and syncs the file.     *)
(* They share struct afsync: the tickets cur and next, the two seqs and    *)
(* the file descriptor.  Calls may fail, and the machine may crash.        *)
(*                                                                         *)
(* Between two steps of one thread the other one may take any number of    *)
(* steps; a step is at most one access to shared state.                    *)
(***************************************************************************)
EXTENDS Integers, Sequences, OvsSeq, Bounds

\* The kinds of events that the Budgets bound: "write", "commit", "replace",
\* "fail", "crash".

VARIABLES
    data,       \* the file: a sequence of "rec", a record, and "torn", a part of one
    offset,     \* log->offset, as the number of records before it
    durable,    \* how much of data a crash cannot take away
    state,      \* log->state
    gen,        \* how often the file was replaced: identifies an open file
    cur, next,  \* afsync->cur and ->next
    first,      \* the initial_ticket of this afsync
    fd,         \* afsync->fd: the gen of the file it belongs to, or Stdin
    request, complete,  \* the two seqs
    main,       \* the main thread: its place, the places to return to, its locals
    thread,     \* the fsync thread: its place and its locals
    waiters,    \* raft->waiters: the ticket, and the records it covers
    acked       \* the records covered by the waiters completed so far

file == <<data, offset, durable, state, gen>>
afsync == <<cur, next, first, fd>>
logOnly == <<file, afsync, request, complete, main, thread, waiters, acked>>
logVars == <<logOnly, awake, budget>>

UINT64_MAX == -1    \* no ticket reaches it
Stdin == 0          \* the descriptor that zeroed memory names
NoThread == [pc |-> "none", cur |-> 0, next |-> 0, seq |-> 0, failed |-> FALSE]

MinOf(a, b) == IF a <= b THEN a ELSE b

MainAt(place) == main.pc = place
MainGoto(place) == main' = [main EXCEPT !.pc = place]

---------------------------------------------------------------------------
(* The file.                                                               *)

\* ovsdb_log_truncate(), before the first write and before a write that
\* follows an error: what is behind the last record is removed.
ovsdb_log_truncate == IF state = "WRITE" THEN data ELSE SubSeq(data, 1, offset)

\* ovsdb_log_write(): in one go, or with a failure of ftruncate() or fwrite();
\* the attempt to remove a partly written record may fail, too.
Write ==
    /\ MainAt("ops")
    /\ Spend("write")
    /\ durable' = MinOf(durable, Len(ovsdb_log_truncate))
    /\ data' = Append(ovsdb_log_truncate, "rec")
    /\ offset' = offset + 1
    /\ state' = "WRITE"
    /\ UNCHANGED <<gen, afsync, request, complete, main, thread, waiters, acked, awake>>

WriteFails ==
    /\ MainAt("ops")
    /\ Spend("fail")
    /\ \/ data' = ovsdb_log_truncate
       \/ data' = Append(ovsdb_log_truncate, "torn")
       \/ state # "WRITE" /\ data' = data
    /\ durable' = MinOf(durable, Len(data'))
    /\ state' = "WRITE_ERROR"
    /\ UNCHANGED <<offset, gen, afsync, request, complete, main, thread, waiters, acked, awake>>

---------------------------------------------------------------------------
(* Commits, in the main thread.                                            *)

\* afsync_create(): the thread runs before fd has its value.
afsync_create(ticket, then) ==
    /\ cur' = ticket
    /\ next' = ticket
    /\ first' = ticket
    /\ fd' = Stdin
    /\ request' = seq_create
    /\ complete' = seq_create
    /\ thread' = [NoThread EXCEPT !.pc = "request"]
    /\ main' = [main EXCEPT !.pc = "fd", !.then = then]

StoreFd ==
    /\ MainAt("fd")
    /\ fd' = gen
    /\ MainGoto(main.then)
    /\ UNCHANGED <<file, cur, next, first, request, complete, thread, waiters, acked, awake, budget>>

\* ovsdb_log_commit_start(), which creates the afsync when it is first called.
CommitStart ==
    /\ MainAt("ops")
    /\ Spend("commit")
    /\ IF thread.pc = "none" THEN afsync_create(0, "add")
       ELSE MainGoto("add") /\ UNCHANGED <<afsync, request, complete, thread>>
    /\ UNCHANGED <<file, waiters, acked, awake>>

CommitAdd ==
    /\ MainAt("add")
    /\ next' = next + 1
    /\ main' = [main EXCEPT !.pc = "notify", !.ticket = next + 1]
    /\ UNCHANGED <<file, cur, first, fd, request, complete, thread, waiters, acked, awake, budget>>

\* The request, and the waiter of raft_waiter_create() with its ticket.
CommitNotify ==
    /\ MainAt("notify")
    /\ request' = seq_change(request)
    /\ awake' = awake \cup seq_wake_waiters(request)
    /\ waiters' = Append(waiters, [ticket |-> main.ticket, upto |-> offset])
    /\ MainGoto("ops")
    /\ UNCHANGED <<file, afsync, complete, thread, acked, budget>>

\* raft_waiters_run(), with ovsdb_log_commit_progress(): the waiters in front
\* whose ticket is not past cur are completed.
Done == CHOOSE n \in 0 .. Len(waiters) :
            /\ \A i \in 1 .. n : waiters[i].ticket <= cur
            /\ n < Len(waiters) => waiters[n + 1].ticket > cur
WaitersRun ==
    /\ MainAt("run")
    /\ waiters' = SubSeq(waiters, Done + 1, Len(waiters))
    /\ acked' = IF Done = 0 THEN acked ELSE waiters[Done].upto
    /\ MainGoto("ops")
    /\ UNCHANGED <<file, afsync, request, complete, thread, awake, budget>>

\* raft_waiters_wait() with ovsdb_log_commit_wait(), in three steps.
WaitRead ==
    /\ MainAt("ops")
    /\ main' = IF waiters = <<>> THEN [main EXCEPT !.pc = "poll"]
               ELSE [main EXCEPT !.pc = "progress", !.seq = complete.value]
    /\ UNCHANGED <<file, afsync, request, complete, thread, waiters, acked, awake, budget>>

WaitProgress ==
    /\ MainAt("progress")
    /\ IF cur < Head(waiters).ticket
       THEN MainGoto("seqwait") /\ UNCHANGED awake
       ELSE MainGoto("poll") /\ awake' = awake \cup {"main"}
    /\ UNCHANGED <<file, afsync, request, complete, thread, waiters, acked, budget>>

WaitSeq ==
    /\ MainAt("seqwait")
    /\ complete' = seq_wait(complete, main.seq, "main")
    /\ awake' = awake \cup Changed(complete, main.seq, "main")
    /\ MainGoto("poll")
    /\ UNCHANGED <<file, afsync, request, thread, waiters, acked, budget>>

\* poll_block(): it returns because of the commits, or because of one of the
\* connections and timers of the server.
Woke == /\ MainGoto("run")
        /\ complete' = seq_woke(complete, "main")
        /\ awake' = awake \ {"main"}
        /\ UNCHANGED <<file, afsync, request, thread, waiters, acked, budget>>
PollWoken == MainAt("poll") /\ "main" \in awake /\ Woke
PollOther == MainAt("poll") /\ "main" \notin awake /\ Woke

---------------------------------------------------------------------------
(* Replacement of the file.                                                *)

\* ovsdb_log_replace_commit(): the new file, synced by ovsdb_log_commit_block(),
\* takes the place of the old one, which is closed.  It says the same as the
\* records before.  If a step fails the new file is removed, and nothing changes.
ReplaceCommit ==
    /\ MainAt("ops")
    /\ Spend("replace")
    /\ data' = [i \in 1 .. offset |-> "rec"]
    /\ durable' = offset
    /\ state' = "WRITE"
    /\ gen' = gen + 1
    /\ MainGoto(IF thread.pc = "none" THEN "ops" ELSE "destroy")
    /\ UNCHANGED <<offset, afsync, request, complete, thread, waiters, acked, awake>>

\* afsync_destroy().
DestroyStore ==
    /\ MainAt("destroy")
    /\ main' = [main EXCEPT !.pc = "stop", !.ticket = next]
    /\ next' = UINT64_MAX
    /\ UNCHANGED <<file, cur, first, fd, request, complete, thread, waiters, acked, awake, budget>>

\* Mutant: the thread is not told to look at next.
StopsSilently ==
    /\ MainAt("stop")
    /\ MainGoto("join")
    /\ UNCHANGED <<file, afsync, request, complete, thread, waiters, acked, awake, budget>>

DestroyNotify ==
    /\ MainAt("stop")
    /\ request' = seq_change(request)
    /\ awake' = awake \cup seq_wake_waiters(request)
    /\ MainGoto("join")
    /\ UNCHANGED <<file, afsync, complete, thread, waiters, acked, budget>>

\* Mutant: the tickets for the new file begin at 0 again.
RestartsTickets ==
    /\ MainAt("join")
    /\ thread.pc = "done"
    /\ afsync_create(0, "ops")
    /\ awake' = awake \ {"thread"}
    /\ UNCHANGED <<file, waiters, acked, budget>>

\* xpthread_join(), and the afsync_create() for the new file.
DestroyJoin ==
    /\ MainAt("join")
    /\ thread.pc = "done"
    /\ afsync_create(main.ticket + 1, "ops")
    /\ awake' = awake \ {"thread"}
    /\ UNCHANGED <<file, waiters, acked, budget>>

---------------------------------------------------------------------------
(* afsync_thread().                                                        *)

ThreadAt(place) == thread.pc = place
ThreadGoto(place) == thread' = [thread EXCEPT !.pc = place]
ThreadOnly == UNCHANGED <<main, waiters, acked>>

ThreadRequest ==
    /\ ThreadAt("request")
    /\ thread' = [thread EXCEPT !.pc = "next", !.seq = request.value]
    /\ ThreadOnly
    /\ UNCHANGED <<file, afsync, request, complete, awake, budget>>

ThreadNext ==
    /\ ThreadAt("next")
    /\ thread' = [thread EXCEPT !.next = next,
                                !.pc = IF next = UINT64_MAX THEN "done"
                                       ELSE IF thread.cur = next THEN "wait" ELSE "fsync"]
    /\ ThreadOnly
    /\ UNCHANGED <<file, afsync, request, complete, awake, budget>>

\* fsync().  Nothing orders the store to fd before this read of it unless next
\* was seen to grow, so the thread may still read the zero it was created with.
\* Whatever a call on another file than the current one returns, it syncs
\* nothing that matters.
FdRead == IF thread.next = first THEN {Stdin, fd} ELSE {fd}
ThreadFsync ==
    /\ ThreadAt("fsync")
    /\ thread' = [thread EXCEPT !.pc = "store", !.cur = thread.next, !.failed = FALSE]
    /\ \E f \in FdRead : durable' = IF f = gen THEN Len(data) ELSE durable
    /\ ThreadOnly
    /\ UNCHANGED <<data, offset, state, gen, afsync, request, complete, awake, budget>>

\* A failure is only logged.
ThreadFsyncFails ==
    /\ ThreadAt("fsync")
    /\ thread' = [thread EXCEPT !.pc = "wait", !.failed = TRUE]
    /\ \/ \E f \in FdRead : f # gen /\ UNCHANGED budget
       \/ Spend("fail")
    /\ ThreadOnly
    /\ UNCHANGED <<file, afsync, request, complete, awake>>

\* Mutant: the requests that came during the fsync count as synced by it.
StoresLatest ==
    /\ ThreadAt("store")
    /\ cur' = IF next = UINT64_MAX THEN thread.cur ELSE next
    /\ ThreadGoto("change")
    /\ ThreadOnly
    /\ UNCHANGED <<file, next, first, fd, request, complete, awake, budget>>

ThreadStore ==
    /\ ThreadAt("store")
    /\ cur' = thread.cur
    /\ ThreadGoto("change")
    /\ ThreadOnly
    /\ UNCHANGED <<file, next, first, fd, request, complete, awake, budget>>

ThreadChange ==
    /\ ThreadAt("change")
    /\ complete' = seq_change(complete)
    /\ awake' = awake \cup seq_wake_waiters(complete)
    /\ ThreadGoto("wait")
    /\ ThreadOnly
    /\ UNCHANGED <<file, afsync, request, budget>>

\* Mutant: the thread waits for a change from the value that request has now.
WaitsLate ==
    /\ ThreadAt("wait")
    /\ request' = seq_wait(request, request.value, "thread")
    /\ ThreadGoto("poll")
    /\ ThreadOnly
    /\ UNCHANGED <<file, afsync, complete, awake, budget>>

ThreadWait ==
    /\ ThreadAt("wait")
    /\ request' = seq_wait(request, thread.seq, "thread")
    /\ awake' = awake \cup Changed(request, thread.seq, "thread")
    /\ ThreadGoto("poll")
    /\ ThreadOnly
    /\ UNCHANGED <<file, afsync, complete, budget>>

ThreadPoll ==
    /\ ThreadAt("poll")
    /\ "thread" \in awake
    /\ request' = seq_woke(request, "thread")
    /\ awake' = awake \ {"thread"}
    /\ ThreadGoto("request")
    /\ ThreadOnly
    /\ UNCHANGED <<file, afsync, complete, budget>>

---------------------------------------------------------------------------

NoMain == [pc |-> "ops", then |-> "ops", ticket |-> 0, seq |-> 0]

NewProcess ==
    /\ gen' = 1
    /\ cur' = 0 /\ next' = 0 /\ first' = 0 /\ fd' = Stdin
    /\ request' = seq_create /\ complete' = seq_create
    /\ main' = NoMain
    /\ thread' = NoThread
    /\ waiters' = <<>>
    /\ awake' = {}

\* The records that ovsdb_log_read() finds in d before an error or the end.
Readable(d) == CHOOSE n \in 0 .. Len(d) : /\ \A i \in 1 .. n : d[i] = "rec"
                                          /\ n < Len(d) => d[n + 1] # "rec"

\* The machine crashes, perhaps in the middle of a write, and the file is read
\* again by raft_read_log(), which takes an error for the end.
Crash ==
    /\ Spend("crash")
    /\ \E k \in durable .. Len(data), tail \in {<<>>, <<"torn">>} :
          data' = SubSeq(data, 1, k) \o tail
    /\ offset' = Readable(data')
    /\ durable' = Len(data')
    /\ state' = IF offset' < Len(data') THEN "READ_ERROR" ELSE "READ"
    /\ NewProcess
    /\ UNCHANGED acked

LogInit ==
    /\ data = <<>> /\ offset = 0 /\ durable = 0 /\ state = "READ" /\ gen = 1
    /\ cur = 0 /\ next = 0 /\ first = 0 /\ fd = Stdin
    /\ request = seq_create /\ complete = seq_create
    /\ main = NoMain
    /\ thread = NoThread
    /\ waiters = <<>> /\ acked = 0 /\ awake = {} /\ budget \in Budgets

\* What the main thread does once it has begun, and what it is asked to do.
MainStep == \/ StoreFd \/ CommitAdd \/ CommitNotify
            \/ WaitersRun \/ WaitRead \/ WaitProgress \/ WaitSeq \/ PollWoken
            \/ DestroyStore \/ DestroyNotify \/ DestroyJoin
MainOps == Write \/ WriteFails \/ CommitStart \/ ReplaceCommit \/ PollOther
ThreadStep == \/ ThreadRequest \/ ThreadNext \/ ThreadFsync \/ ThreadFsyncFails
              \/ ThreadStore \/ ThreadChange \/ ThreadWait \/ ThreadPoll

LogNext == MainStep \/ MainOps \/ ThreadStep \/ Crash

LogSpec == LogInit /\ [][LogNext]_logVars

\* The scheduler runs every thread that can run.
LogFairness == WF_logVars(MainStep) /\ WF_logVars(ThreadStep)

---------------------------------------------------------------------------
(* Properties.                                                             *)

Cell == {"rec", "torn"}
Ticket == Nat \cup {UINT64_MAX}
MainPlace == {"ops", "fd", "add", "notify", "run", "progress", "seqwait", "poll", "destroy", "stop",
              "join"}
ThreadPlace == {"none", "request", "next", "fsync", "store", "change", "wait", "poll", "done"}
SeqState == [value : Nat, waiters : SUBSET {"main", "thread"}]

LogTypeOK ==
    /\ data \in Seq(Cell) /\ offset \in Nat /\ durable \in Nat
    /\ cur \in Nat /\ first \in Nat /\ next \in Ticket
    /\ request \in SeqState /\ complete \in SeqState
    /\ main \in [pc : MainPlace, then : {"ops", "add"}, ticket : Nat, seq : Nat]
    /\ thread \in [pc : ThreadPlace, cur : Nat, next : Ticket, seq : Nat, failed : BOOLEAN]
    /\ waiters \in Seq([ticket : Nat, upto : Nat]) /\ acked \in Nat

\* The records before offset can be read again, and what may be behind them cannot.
FileSound ==
    /\ offset <= Len(data) /\ durable <= Len(data)
    /\ \A i \in 1 .. offset : data[i] = "rec"
    /\ state = "WRITE" => Len(data) = offset
    /\ Len(data) > offset => data[offset + 1] = "torn"

\* All that a commit with a ticket up to t covers is on disk, also for a commit
\* whose ticket the thread may see before the waiter exists.
Covered(t) == /\ \A i \in DOMAIN waiters : waiters[i].ticket <= t => waiters[i].upto <= durable
              /\ (MainAt("notify") /\ main.ticket <= t) => offset <= durable

\* The last ticket given out, and the time when fd is that of a closed file.
LastTicket == IF next = UINT64_MAX THEN main.ticket ELSE next
Stopping == main.pc \in {"destroy", "stop", "join"}

\* Why commits are reported rightly: what each ticket covers, in terms of where the
\* two threads are.  The thread may sync a wrong descriptor only when all that its
\* ticket covers is on disk already.
TicketsSound ==
    /\ acked <= durable /\ acked <= offset
    /\ \A i \in DOMAIN waiters : waiters[i].upto <= offset /\ waiters[i].ticket <= LastTicket
    /\ next = UINT64_MAX <=> main.pc \in {"stop", "join"}
    /\ first <= LastTicket /\ cur <= LastTicket
    /\ Covered(first) /\ Covered(cur)
    /\ main.pc = "notify" => main.ticket = next
    /\ main.pc = "fd" => next = first
    /\ Stopping => offset <= durable
    /\ thread.pc = "fsync" => first <= thread.next /\ thread.next <= LastTicket
    /\ thread.pc = "store" => thread.cur <= LastTicket /\ Covered(thread.cur)
    /\ thread.pc = "none" => waiters = <<>> /\ main.pc \in {"ops", "poll", "run"}
    /\ thread.pc = "none" \/ fd = gen \/ Stopping \/ main.pc = "fd"

\* The inductive invariant of the file, the tickets and the two threads of log.c.
LogInv == LogTypeOK /\ FileSound /\ TicketsSound

Upto == [i \in DOMAIN waiters |-> waiters[i].upto]

L == INSTANCE LogCommit WITH written <- offset, durable <- MinOf(durable, offset),
                             pending <- Upto
\* log.c, with its thread, its tickets and its error paths, does what Raft
\* relies on: a commit that ovsdb_log_commit_progress() reports as done is on
\* disk, also across replacements of the file, and is read again after a crash.
CommitRefinement == L!Spec

\* Every commit is reported as done, and the main thread wakes up to see it,
\* unless an fsync failed and no later commit made the thread try again
\* (afsync_thread() logs the error and waits for the next request).
CommitsComplete == <>[](thread.failed) \/ []<>(waiters = <<>>)

\* xpthread_join() in afsync_destroy() does not hang: wherever the thread is
\* when next becomes UINT64_MAX, it comes to see it.
ReplaceEnds == MainAt("join") ~> ~MainAt("join")
=============================================================================
