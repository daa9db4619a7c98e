------------------------------- MODULE Raft -------------------------------
(***************************************************************************)
(* The Raft implementation of OVSDB (ovsdb/raft.c) for a cluster of fixed  *)
(* membership: elections, log replication, commitment, snapshots, the      *)
(* deferral of RPCs until what they announce is on disk (the "waiters"),   *)
(* crashes and restarts from the log file, and lossy FIFO connections.     *)
(*                                                                         *)
(* The operators named raft_... are the C functions of the same name: they *)
(* take the "struct raft" of one server, r, and return it as the function  *)
(* leaves it.  An action is one call from the main loop of one server      *)
(* (raft_run()), with everything that call does.                           *)
(*                                                                         *)
(* Time is abstracted: between two steps any amount of it may pass, so the *)
(* election and ping timers may be found expired or not at any moment.     *)
(***************************************************************************)
EXTENDS Integers, Sequences, FiniteSets

CONSTANTS
    Server,      \* the servers of the cluster (SIDs)
    Zero,        \* UUID_ZERO
    Value,       \* the data a client may put in a log entry
    NoData,      \* an entry without data
    MaxLogEnd,   \* bound: no log grows past this log_end
    MaxChannel,  \* bound: RPCs in flight on one connection; more than that are lost
    Budgets      \* bounds: how often each kind of event may happen, one of these

\* The kinds of events that the Budgets bound.  "term" is not spent: no term grows
\* past it.
Event == {"election", "command", "ping", "transfer", "read", "snapshot", "disconnect",
          "overtake", "crash", "term"}

ASSUME ServerAssumption == IsFiniteSet(Server) /\ Server # {} /\ Zero \notin Server
ASSUME DataAssumption == NoData \notin Value
ASSUME BoundAssumption == /\ MaxLogEnd \in Nat /\ MaxChannel \in Nat
                          /\ Budgets \subseteq [Event -> Nat]

VARIABLES
    raft,    \* raft[s]: the struct raft of server s, the unsynced tail of its
             \* log file and its outgoing connections included
    disk,    \* disk[s]: what a restart of s reads from the synced part of the file
    budget   \* what is left of one of the Budgets

vars == <<raft, disk, budget>>

N == Cardinality(Server)
Sid == Server \cup {Zero}
MinOf(a, b) == IF a <= b THEN a ELSE b
MaxOf(a, b) == IF a >= b THEN a ELSE b

\* The cluster was built in term 1 by a server (snapshot at index 1, no-op at 2)
\* that added the N others, one entry each, and then left (entry N + 3); all of
\* them took a snapshot of that.
FirstIndex == N + 4

---------------------------------------------------------------------------
(* The log in memory.                                                      *)

LogEnd(r) == r.log_start + Len(r.entries)
Entry(r, i) == r.entries[i - r.log_start + 1]
raft_get_term(r, i) == IF i = r.log_start - 1 THEN r.snap.term ELSE Entry(r, i).term
LastTerm(r) == raft_get_term(r, LogEnd(r) - 1)

(* The log file: records are appended to it, and become durable one by one. *)

StateRec(t, v) == [type |-> "STATE", term |-> t, vote |-> v]
EntryRec(i, e) == [type |-> "ENTRY", term |-> e.term, index |-> i, data |-> e.data]
CommitRec(i) == [type |-> "COMMIT", term |-> 0, index |-> i]

\* The conditions under which raft_apply_record() accepts record rec when a
\* restart has read d so far; otherwise raft_open() fails.
Acceptable(d, rec) ==
    LET end == d.log_start + Len(d.entries)
        prev == IF d.entries = <<>> \/ rec.index = d.log_start THEN d.snap.term
                ELSE d.entries[rec.index - d.log_start].term
    IN  CASE rec.type = "STATE" -> /\ rec.vote # Zero => rec.term >= d.term
                                   /\ (rec.term = d.term /\ rec.vote # Zero) => d.vote \in {Zero, rec.vote}
          [] rec.type = "ENTRY" -> /\ rec.index >= d.commit_index
                                   /\ rec.index >= d.log_start
                                   /\ rec.index <= end
                                   /\ rec.term >= prev
          [] rec.type = "COMMIT" -> /\ rec.index >= d.commit_index
                                    /\ rec.index < end

\* Mutant: the vote of an older term stays when a record raises the term.
KeepsOldVote(d, rec) ==
    LET ok == Acceptable(d, rec)
        d1 == [d EXCEPT !.term = MaxOf(@, rec.term), !.readable = @ /\ ok]
    IN  CASE rec.type = "STATE" -> IF rec.vote = Zero THEN d1 ELSE [d1 EXCEPT !.vote = rec.vote]
          [] rec.type = "ENTRY" ->
                IF ~ok THEN d1
                ELSE [d1 EXCEPT !.entries = Append(SubSeq(@, 1, rec.index - d.log_start),
                                                   [term |-> rec.term, data |-> rec.data])]
          [] rec.type = "COMMIT" -> IF ok THEN [d1 EXCEPT !.commit_index = rec.index] ELSE d1

\* A file with a record that is not acceptable cannot be opened any more; what
\* later records say of terms and votes is still followed, for the properties.
raft_apply_record(d, rec) ==
    LET ok == Acceptable(d, rec)
        d1 == [d EXCEPT !.term = MaxOf(@, rec.term), !.vote = IF rec.term > d.term THEN Zero ELSE @,
                        !.readable = @ /\ ok]
    IN  CASE rec.type = "STATE" -> IF rec.vote = Zero THEN d1 ELSE [d1 EXCEPT !.vote = rec.vote]
          [] rec.type = "ENTRY" ->
                IF ~ok THEN d1
                ELSE [d1 EXCEPT !.entries = Append(SubSeq(@, 1, rec.index - d.log_start),
                                                   [term |-> rec.term, data |-> rec.data])]
          [] rec.type = "COMMIT" -> IF ok THEN [d1 EXCEPT !.commit_index = rec.index] ELSE d1

\* raft_write_snapshot(): the file that ovsdb_log_replace_commit() puts, synced,
\* in the place of the old one.
raft_write_snapshot(r) ==
    [term |-> r.term, vote |-> r.vote, log_start |-> r.log_start, snap |-> r.snap,
     entries |-> r.entries, commit_index |-> r.commit_index, readable |-> TRUE]

---------------------------------------------------------------------------
(* Waiters and sending.  A RAFT_W_RPC waiter has ticket 0, so it completes *)
(* together with the waiter it was queued behind: the model keeps it in    *)
(* the rpcs of that waiter.                                                *)

NoRpcs == [d \in Server |-> <<>>]

raft_rpc_get_min_sync_index(m) ==
    CASE m.type = "APPEND_REPLY" -> m.log_end - 1
      [] m.type = "VOTE_REQUEST" -> m.last_log_index
      [] m.type \in {"INSTALL_SNAPSHOT_REQUEST", "INSTALL_SNAPSHOT_REPLY"} -> m.last_index
      [] OTHER -> 0

\* Mutant: a vote may be announced before it is on disk.
UnsyncedVotes(r, m) == m.type # "VOTE_REPLY" => /\ m.term <= r.synced_term
                                                /\ raft_rpc_get_min_sync_index(m) <= r.log_synced

raft_is_rpc_synced(r, m) ==
    /\ m.term <= r.synced_term
    /\ raft_rpc_get_min_sync_index(m) <= r.log_synced
    /\ m.type = "VOTE_REPLY" => m.vote = r.synced_vote

\* What a connection that carries q carries after the RPCs ms were sent on it.
Carry(q, ms) == SubSeq(q \o ms, 1, MinOf(MaxChannel, Len(q) + Len(ms)))

Complain(r, what) == [r EXCEPT !.complaints = @ \cup {what}]

\* raft_send() of the RPC f[d] to every d in DOMAIN f.  One step sends the same
\* kind of RPC to all of them, and either all or none are synced.  An RPC that
\* is deferred behind no waiter at all is one that raft_waiter_complete_rpc()
\* finds not ready to send.
raft_send_each(r, f) ==
    IF \A d \in DOMAIN f : raft_is_rpc_synced(r, f[d])
    THEN [r EXCEPT !.conns = [d \in Server |-> IF d \in DOMAIN f THEN Carry(r.conns[d], <<f[d]>>)
                                               ELSE r.conns[d]]]
    ELSE IF r.waiters = <<>> THEN Complain(r, "deferred")
    ELSE [r EXCEPT !.waiters[Len(r.waiters)].rpcs =
             [d \in Server |-> IF d \in DOMAIN f THEN Append(@[d], f[d]) ELSE @[d]]]

raft_send(r, dst, m) == raft_send_each(r, [d \in {dst} |-> m])

\* raft_waiter_complete_rpc() for the RPCs queued behind one waiter: they have
\* one term, that of raft->term when they were queued.  If one of them is not
\* ready the model loses all of them, as the connections also might.
raft_waiter_complete_rpc(r, q) ==
    IF \A d \in Server : \A i \in DOMAIN q[d] : q[d][i].term < r.term
    THEN r
    ELSE IF \A d \in Server : \A i \in DOMAIN q[d] :
                q[d][i].term >= r.term /\ raft_is_rpc_synced(r, q[d][i])
    THEN [r EXCEPT !.conns = [d \in Server |-> Carry(r.conns[d], q[d])]]
    ELSE Complain(r, "deferred")

\* raft_set_term(): a RAFT_REC_TERM or RAFT_REC_VOTE record and its waiter.
raft_set_term(r, t, v) ==
    [r EXCEPT !.term = t, !.vote = v,
              !.file = Append(@, StateRec(t, v)),
              !.waiters = Append(@, [type |-> "TERM", ticket |-> Len(r.file) + 1, index |-> 0,
                                     term |-> t, vote |-> v, rpcs |-> NoRpcs])]

\* raft_write_entry() for each of the entries es, and one RAFT_W_ENTRY waiter.
raft_write_entries(r, es) ==
    [r EXCEPT !.entries = @ \o es,
              !.file = @ \o [k \in DOMAIN es |-> EntryRec(LogEnd(r) + k - 1, es[k])],
              !.waiters = Append(@, [type |-> "ENTRY", ticket |-> Len(r.file) + Len(es),
                                     index |-> LogEnd(r) + Len(es) - 1,
                                     term |-> r.term, vote |-> Zero, rpcs |-> NoRpcs])]

---------------------------------------------------------------------------
(* The leader's side of replication.                                       *)

Peers(r) == Server \ {r.sid}

append_request(r, p, n) ==
    LET next == r.next_index[p]
    IN  [type |-> "APPEND_REQUEST", term |-> r.term, prev_log_index |-> next - 1,
         prev_log_term |-> IF next - 1 >= r.log_start THEN Entry(r, next - 1).term ELSE r.snap.term,
         leader_commit |-> r.commit_index,
         entries |-> IF n = 0 THEN <<>>
                     ELSE SubSeq(r.entries, next - r.log_start + 1, next - r.log_start + n)]

\* raft_send_append_request() asserts that its caller is leader.
raft_send_append_request(r, p, n) ==
    IF r.role = "LEADER" THEN raft_send(r, p, append_request(r, p, n)) ELSE Complain(r, "assert")

\* With next_index 0, next_index - 1 wraps around and reads before raft->entries.
raft_send_heartbeats(r) ==
    IF \E p \in Peers(r) : r.next_index[p] = 0 THEN Complain(r, "wrap")
    ELSE raft_send_each(r, [p \in Peers(r) |-> append_request(r, p, 0)])

raft_update_commit_index(r, new) ==
    IF new <= r.commit_index THEN r
    ELSE [r EXCEPT !.commit_index = new, !.file = Append(@, CommitRec(new))]

\* Mutant: entries of earlier terms are committed by counting as well.
CommitsOldTerms(r) ==
    {i \in MaxOf(r.commit_index + 1, r.log_start) .. LogEnd(r) - 1 :
        Cardinality({p \in Server : r.match_index[p] >= i}) > N \div 2}

\* The indexes of the current term that a majority of match_index has reached.
Committable(r) ==
    {i \in MaxOf(r.commit_index + 1, r.log_start) .. LogEnd(r) - 1 :
        /\ Entry(r, i).term = r.term
        /\ Cardinality({p \in Server : r.match_index[p] >= i}) > N \div 2}

raft_consider_updating_commit_index(r) ==
    IF Committable(r) = {} THEN r
    ELSE LET new == CHOOSE i \in Committable(r) : \A j \in Committable(r) : j <= i
         IN  raft_send_heartbeats(raft_update_commit_index(r, new))

raft_update_match_index(r, p, i) ==
    IF i > r.match_index[p]
    THEN raft_consider_updating_commit_index([r EXCEPT !.match_index[p] = i])
    ELSE r

\* raft_command_initiate(): append an entry, and send it to the peers that have
\* all the entries before it.
raft_command_initiate(r, data) ==
    LET index == LogEnd(r)
        r1 == raft_write_entries(r, <<[term |-> r.term, data |-> data]>>)
        upToDate == {p \in Peers(r) : r.next_index[p] = index}
        r2 == raft_send_each(r1, [p \in upToDate |-> append_request(r1, p, 1)])
    IN  [r2 EXCEPT !.next_index = [p \in Server |-> IF p \in upToDate THEN index + 1 ELSE @[p]]]

raft_send_install_snapshot_request(r, p) ==
    IF p \in r.snapping THEN r
    ELSE [raft_send(r, p, [type |-> "INSTALL_SNAPSHOT_REQUEST", term |-> r.term,
                           last_index |-> r.log_start - 1, last_term |-> r.snap.term,
                           data |-> r.snap.data])
          EXCEPT !.snapping = @ \cup {p}]

---------------------------------------------------------------------------
(* Roles and elections.                                                    *)

\* raft_become_leader(): raft_server_init_leader() for every server, our own
\* match_index, and the no-op entry of the term.
raft_become_leader(r) ==
    LET r1 == [r EXCEPT !.role = "LEADER", !.leader_sid = r.sid,
                        !.next_index = [p \in Server |-> LogEnd(r)],
                        !.match_index = [p \in Server |-> 0],
                        !.replied = {}, !.snapping = {}]
    IN  raft_command_initiate(raft_update_match_index(r1, r.sid, LogEnd(r) - 1), NoData)

\* Mutant: a follower goes on with the leader of the last term.
KeepsLeader(r) == [r EXCEPT !.role = "FOLLOWER"]

raft_become_follower(r) == [r EXCEPT !.leader_sid = Zero, !.role = "FOLLOWER"]

\* Mutant: half of the servers, rounded down, elect a leader.
HalfElects(r, p, v) ==
    LET r1 == IF r.svote[p] = Zero THEN r ELSE Complain(r, "vote")
        r2 == [r1 EXCEPT !.svote[p] = v, !.n_votes = IF v = r.sid THEN @ + 1 ELSE @]
    IN  IF r.svote[p] = v THEN r
        ELSE IF v = r.sid /\ r2.n_votes >= N \div 2 THEN raft_become_leader(r2)
        ELSE r2

raft_accept_vote(r, p, v) ==
    LET r1 == IF r.svote[p] = Zero THEN r ELSE Complain(r, "vote")
        r2 == [r1 EXCEPT !.svote[p] = v, !.n_votes = IF v = r.sid THEN @ + 1 ELSE @]
    IN  IF r.svote[p] = v THEN r
        ELSE IF v = r.sid /\ r2.n_votes > N \div 2 THEN raft_become_leader(r2)
        ELSE r2

\* Mutant: the votes of the last election are counted again.
KeepsVotes(r, transfer) ==
    LET r1 == [raft_set_term(r, r.term + 1, r.sid)
               EXCEPT !.leader_sid = Zero, !.role = "CANDIDATE", !.svote = [p \in Server |-> Zero]]
        rq == [type |-> "VOTE_REQUEST", term |-> r1.term, last_log_index |-> LogEnd(r1) - 1,
               last_log_term |-> LastTerm(r1), leadership_transfer |-> transfer]
    IN  raft_accept_vote(raft_send_each(r1, [p \in Peers(r) |-> rq]), r.sid, r.sid)

raft_start_election(r, transfer) ==
    LET r1 == [raft_set_term(r, r.term + 1, r.sid)
               EXCEPT !.leader_sid = Zero, !.role = "CANDIDATE", !.n_votes = 0,
                      !.svote = [p \in Server |-> Zero]]
        rq == [type |-> "VOTE_REQUEST", term |-> r1.term, last_log_index |-> LogEnd(r1) - 1,
               last_log_term |-> LastTerm(r1), leadership_transfer |-> transfer]
    IN  raft_accept_vote(raft_send_each(r1, [p \in Peers(r) |-> rq]), r.sid, r.sid)

\* raft_receive_term__() for a term that is not stale.
raft_receive_term(r, t) ==
    IF t > r.term THEN raft_become_follower(raft_set_term(r, t, Zero)) ELSE r

\* The vote request is at least as up to date as our log.
UpToDate(r, m) == \/ m.last_log_term > LastTerm(r)
                  \/ m.last_log_term = LastTerm(r) /\ m.last_log_index >= LogEnd(r) - 1

\* Mutant: a vote is given to whoever asks last.
VotesAgain(r, src, m) ==
    LET r1 == raft_set_term(r, r.term, src)
    IN  IF ~UpToDate(r, m) THEN r
        ELSE raft_send(r1, src, [type |-> "VOTE_REPLY", term |-> r1.term, vote |-> r1.vote])

\* raft_handle_vote_request(): whoever has voted says for whom; the vote is for
\* raft->term, whatever the term of the request.
raft_handle_vote_request(r, src, m) ==
    LET r1 == IF r.vote = Zero THEN raft_set_term(r, r.term, src) ELSE r
    IN  IF r.vote = Zero /\ ~UpToDate(r, m) THEN r
        ELSE raft_send(r1, src, [type |-> "VOTE_REPLY", term |-> r1.term, vote |-> r1.vote])

raft_handle_vote_reply(r, src, m) ==
    IF r.role = "CANDIDATE" THEN raft_accept_vote(r, src, m.vote) ELSE r

---------------------------------------------------------------------------
(* The follower's side of replication.                                     *)

\* Mutant: the leader's commit index is taken even past the end of our log.
CommitsAhead(r, dst, m, result) ==
    LET n == Len(m.entries)
        r1 == IF result = "OK" THEN raft_update_commit_index(r, m.leader_commit) ELSE r
    IN  raft_send(r1, dst, [type |-> "APPEND_REPLY", term |-> r1.term, log_end |-> LogEnd(r1),
                            prev_log_index |-> m.prev_log_index, n_entries |-> n,
                            result |-> result])

raft_send_append_reply(r, dst, m, result) ==
    LET n == Len(m.entries)
        r1 == IF result = "OK" /\ m.leader_commit > r.commit_index
              THEN raft_update_commit_index(r, MinOf(m.leader_commit, m.prev_log_index + n))
              ELSE r
    IN  raft_send(r1, dst, [type |-> "APPEND_REPLY", term |-> r1.term, log_end |-> LogEnd(r1),
                            prev_log_index |-> m.prev_log_index, n_entries |-> n,
                            result |-> result])

\* Mutant: an entry at the index is enough, whatever its term.
MatchesIndex(r, i, t) == i >= r.log_start - 1 /\ i < LogEnd(r)

match_index_and_term(r, i, t) ==
    /\ i >= r.log_start - 1
    /\ i < LogEnd(r)
    /\ raft_get_term(r, i) = t

\* raft_truncate(), in memory only.
raft_truncate(r, new_end) == [r EXCEPT !.entries = SubSeq(@, 1, new_end - r.log_start)]

\* Mutants: the log is cut after the previous entry even without a conflict;
\* an entry of another term counts as the entry itself.
AlwaysTruncates(r, src, m, prev, prev_term, es) ==
    LET r1 == IF prev + 1 < LogEnd(r) THEN raft_truncate(r, prev + 1) ELSE r
    IN  IF ~match_index_and_term(r, prev, prev_term)
        THEN raft_send_append_reply(r, src, m, "INCONSISTENCY")
        ELSE raft_send_append_reply(IF es = <<>> THEN r ELSE raft_write_entries(r1, es), src, m, "OK")
KeepsConflict(r, src, m, prev, prev_term, es) ==
    LET have == LogEnd(r) - prev - 1
    IN  IF ~match_index_and_term(r, prev, prev_term)
        THEN raft_send_append_reply(r, src, m, "INCONSISTENCY")
        ELSE raft_send_append_reply(IF have >= Len(es) THEN r
                                    ELSE raft_write_entries(r, SubSeq(es, have + 1, Len(es))),
                                    src, m, "OK")

\* raft_handle_append_entries() for the entries es that follow index prev.
raft_handle_append_entries(r, src, m, prev, prev_term, es) ==
    LET fresh == {k \in DOMAIN es : \/ prev + k >= LogEnd(r)
                                    \/ Entry(r, prev + k).term # es[k].term}
        first == CHOOSE k \in fresh : \A j \in fresh : k <= j
        r1 == IF prev + first < LogEnd(r) THEN raft_truncate(r, prev + first) ELSE r
        r2 == raft_write_entries(r1, SubSeq(es, first, Len(es)))
    IN  IF ~match_index_and_term(r, prev, prev_term)
        THEN raft_send_append_reply(r, src, m, "INCONSISTENCY")
        ELSE raft_send_append_reply(IF fresh = {} THEN r ELSE r2, src, m, "OK")

raft_update_leader(r, src) ==
    LET r1 == IF r.leader_sid \in {Zero, src} THEN r ELSE Complain(r, "changed")
    IN  [r1 EXCEPT !.leader_sid = src,
                   !.role = IF @ = "CANDIDATE" THEN "FOLLOWER" ELSE @]

\* raft_handle_append_request(), with the odd cases in which the request starts
\* before our snapshot.
raft_handle_append_request(r, src, m) ==
    LET n == Len(m.entries)
        nth == m.prev_log_index + n
        r1 == raft_update_leader(r, src)
        ofs == r.log_start - (m.prev_log_index + 1)
    IN  IF r.role = "LEADER"
        THEN raft_send_append_reply(Complain(r, "usurped"), src, m, "INCONSISTENCY")
        ELSE IF m.prev_log_index + 1 >= r.log_start
        THEN raft_handle_append_entries(r1, src, m, m.prev_log_index, m.prev_log_term, m.entries)
        ELSE IF nth < r.log_start - 1
        THEN raft_send_append_reply(r1, src, m, "OK")
        ELSE IF nth = r.log_start - 1
        THEN raft_send_append_reply(r1, src, m,
                 IF r.snap.term = (IF n > 0 THEN m.entries[n].term ELSE m.prev_log_term)
                 THEN "OK" ELSE "INCONSISTENCY")
        ELSE raft_handle_append_entries(r1, src, m, r.log_start - 1, m.entries[ofs].term,
                                        SubSeq(m.entries, ofs + 1, n))

\* raft_handle_append_reply(): the leader's view of the follower, then whatever
\* the follower still misses.
raft_handle_append_reply(r, src, m) ==
    LET min_index == m.prev_log_index + m.n_entries + 1
        next == r.next_index[src]
        r1 == [r EXCEPT !.replied = @ \cup {src},
                        !.next_index[src] = IF m.result = "OK" THEN MaxOf(next, min_index)
                                            ELSE IF next > 0 THEN MinOf(next - 1, m.log_end)
                                            ELSE 0]
        r2 == IF m.result = "OK" THEN raft_update_match_index(r1, src, min_index - 1) ELSE r1
    IN  IF r.role # "LEADER" THEN r
        ELSE IF r2.next_index[src] < r2.log_start
        THEN raft_send_install_snapshot_request(r2, src)
        ELSE IF r2.next_index[src] < LogEnd(r2)
        THEN raft_send_append_request(r2, src, LogEnd(r2) - r2.next_index[src])
        ELSE r2

---------------------------------------------------------------------------
(* Snapshots.                                                              *)

\* Mutant: what was still to be written to the old file goes to the new one.
KeepsFile(r) ==
    [r EXCEPT !.waiters = [i \in DOMAIN r.waiters |-> [r.waiters[i] EXCEPT !.ticket = 0]],
              !.log_synced = LogEnd(r) - 1]

\* ovsdb_log_replace_commit(): every ticket given out so far is complete.
ReplaceLog(r) ==
    [r EXCEPT !.file = <<>>,
              !.waiters = [i \in DOMAIN r.waiters |-> [r.waiters[i] EXCEPT !.ticket = 0]],
              !.log_synced = LogEnd(r) - 1]

\* raft_handle_install_snapshot_request__() takes a snapshot only if it starts
\* past the end of our log.
Installs(r, m) == m.last_index + 1 >= LogEnd(r)

\* Mutant: last_applied is left where the old log had it.
ForgetsApplied(r, src, m) ==
    LET new == m.last_index + 1
        r1 == [r EXCEPT !.log_start = new, !.entries = <<>>, !.commit_index = new - 1,
                        !.snap = [term |-> m.last_term, data |-> m.data]]
    IN  raft_send(IF Installs(r, m) THEN ReplaceLog(r1) ELSE r, src,
                  [type |-> "INSTALL_SNAPSHOT_REPLY", term |-> r.term,
                   last_index |-> m.last_index, last_term |-> m.last_term])

raft_handle_install_snapshot_request(r, src, m) ==
    LET new == m.last_index + 1
        r1 == [r EXCEPT !.log_start = new, !.entries = <<>>, !.commit_index = new - 1,
                        !.last_applied = IF @ < new - 1 THEN new - 2 ELSE @,
                        !.snap = [term |-> m.last_term, data |-> m.data]]
    IN  raft_send(IF Installs(r, m) THEN ReplaceLog(r1) ELSE r, src,
                  [type |-> "INSTALL_SNAPSHOT_REPLY", term |-> r.term,
                   last_index |-> m.last_index, last_term |-> m.last_term])

raft_handle_install_snapshot_reply(r, src, m) ==
    LET r1 == [r EXCEPT !.snapping = @ \ {src}]
        r2 == [r1 EXCEPT !.next_index[src] = r.log_start]
    IN  IF m.last_index # r.log_start - 1 \/ m.last_term # r.snap.term
        THEN raft_send_install_snapshot_request(r1, src)
        ELSE raft_send_append_request(r2, src, LogEnd(r) - r.log_start)

\* Mutant: entries without data are kept in the database.
KeepsNoData(r, i) ==
    LET applied == SubSeq(r.entries, 1, i - r.log_start + 1)
    IN  r.snap.data \o [k \in DOMAIN applied |-> applied[k].data]

\* The data of the entries up to index i: what the client's database holds when
\* it has read that far.
DataUpTo(r, i) ==
    LET applied == SubSeq(r.entries, 1, i - r.log_start + 1)
    IN  r.snap.data \o SelectSeq([k \in DOMAIN applied |-> applied[k].data], LAMBDA x : x # NoData)

raft_store_snapshot(r) ==
    LET new == r.last_applied + 1
    IN  ReplaceLog([r EXCEPT !.snap = [term |-> raft_get_term(r, new - 1),
                                       data |-> DataUpTo(r, new - 1)],
                             !.entries = SubSeq(@, new - r.log_start + 1, Len(@)),
                             !.log_start = new])

\* raft_get_next_entry(): the snapshot if the client has not read it, otherwise
\* up to and including the next committed entry that has data.
raft_get_next_entry(r) ==
    LET unread == {i \in r.last_applied + 1 .. r.commit_index : Entry(r, i).data # NoData}
    IN  [r EXCEPT !.last_applied =
            IF r.log_start = @ + 2 THEN @ + 1
            ELSE IF unread = {} THEN r.commit_index
            ELSE CHOOSE i \in unread : \A j \in unread : i <= j]

---------------------------------------------------------------------------
(* Waiters and restarts.                                                   *)

\* raft_waiter_complete() of the waiter at the head of the list, and of the RPC
\* waiters behind it.
raft_waiter_complete(r) ==
    LET w == Head(r.waiters)
        r1 == [r EXCEPT !.waiters = Tail(@)]
        r2 == IF r.role = "LEADER" THEN raft_update_match_index(r1, r.sid, w.index) ELSE r1
    IN  raft_waiter_complete_rpc(
            IF w.type = "ENTRY" THEN [r2 EXCEPT !.log_synced = w.index]
            ELSE [r1 EXCEPT !.synced_term = w.term, !.synced_vote = w.vote],
            w.rpcs)

\* One more record of the file is on disk.
Synced1(r) ==
    [r EXCEPT !.file = Tail(@),
              !.waiters = [i \in DOMAIN r.waiters |->
                              [r.waiters[i] EXCEPT !.ticket = IF @ > 0 THEN @ - 1 ELSE 0]]]

\* raft_open() of a file that holds d.
Opened(s, d) ==
    [sid |-> s, term |-> d.term, vote |-> d.vote, synced_term |-> d.term, synced_vote |-> d.vote,
     entries |-> d.entries, log_start |-> d.log_start, snap |-> d.snap,
     log_synced |-> d.log_start + Len(d.entries) - 1,
     role |-> "FOLLOWER", commit_index |-> d.commit_index, last_applied |-> d.log_start - 2,
     leader_sid |-> Zero, n_votes |-> 0, svote |-> [p \in Server |-> Zero],
     next_index |-> [p \in Server |-> 0], match_index |-> [p \in Server |-> 0],
     replied |-> {}, snapping |-> {}, waiters |-> <<>>, file |-> <<>>,
     conns |-> [p \in Server |-> <<>>], complaints |-> {}]

\* Mutant: a restart takes all entries in the file for committed.
OpensCommitted(s, d) == [Opened(s, d) EXCEPT !.commit_index = LogEnd(d) - 1]

raft_open(s, d) == IF N = 1 THEN raft_start_election(Opened(s, d), FALSE) ELSE Opened(s, d)

---------------------------------------------------------------------------
(* The actions.                                                            *)

Within(r) == r.term <= budget["term"] /\ LogEnd(r) <= MaxLogEnd

Spend(e) == /\ budget[e] > 0
            /\ budget' = [budget EXCEPT ![e] = @ - 1]

\* Server s goes to state r on its own.
Local(s, r) == /\ Within(r)
               /\ raft' = [raft EXCEPT ![s] = r]

\* The RPC at the head of the connection from s to d, and its reception by d,
\* which goes to state r.
HasRpc(s, d, type) == /\ s # d
                      /\ raft[s].conns[d] # <<>>
                      /\ Head(raft[s].conns[d]).type = type
Rpc(s, d) == Head(raft[s].conns[d])
Receive(s, d, r) == /\ Within(r)
                    /\ raft' = [raft EXCEPT ![s].conns[d] = Tail(@), ![d] = r]

\* An expired election timer, in raft_run().
LeaderTimeout(s) ==
    LET r == raft[s]
        heard == Cardinality(r.replied) >= N \div 2
    IN  /\ r.role = "LEADER"
        /\ \/ /\ heard
              /\ Local(s, [r EXCEPT !.replied = {}])
              /\ UNCHANGED budget
           \/ /\ ~heard
              /\ Local(s, raft_start_election(raft_become_follower(r), FALSE))
              /\ Spend("election")
        /\ UNCHANGED disk

ElectionTimeout(s) == /\ raft[s].role # "LEADER"
                      /\ Local(s, raft_start_election(raft[s], FALSE))
                      /\ Spend("election")
                      /\ UNCHANGED disk

\* An expired ping timer at a leader.
Ping(s) == /\ raft[s].role = "LEADER"
           /\ Local(s, raft_send_heartbeats(raft[s]))
           /\ Spend("ping")
           /\ UNCHANGED disk

\* raft_command_execute() at the leader.
Command(s, v) == /\ raft[s].role = "LEADER"
                 /\ Local(s, raft_command_initiate(raft[s], v))
                 /\ Spend("command")
                 /\ UNCHANGED disk

\* raft_transfer_leadership(): the request goes out without raft_send()'s check.
TransferLeadership(s, d) ==
    /\ raft[s].role = "LEADER"
    /\ d # s
    /\ Local(s, [raft[s] EXCEPT !.conns[d] =
                    Carry(@, <<[type |-> "BECOME_LEADER", term |-> raft[s].term]>>)])
    /\ Spend("transfer")
    /\ UNCHANGED disk

\* raft_handle_rpc(), one action per type of RPC.  Only vote requests escape
\* the term check, when raft_should_suppress_disruptive_server() says so: always
\* at a leader, at a follower if it heard from a leader less than an election
\* timer ago, and never if the request comes from a leadership transfer.
Suppressions(r, m) ==
    IF m.leadership_transfer \/ r.role = "CANDIDATE" THEN {FALSE}
    ELSE IF r.role = "LEADER" THEN {TRUE}
    ELSE BOOLEAN

HandleVoteRequest(s, d) ==
    /\ HasRpc(s, d, "VOTE_REQUEST")
    /\ \E suppress \in Suppressions(raft[d], Rpc(s, d)) :
          /\ suppress \/ Rpc(s, d).term >= raft[d].term
          /\ Receive(s, d, raft_handle_vote_request(
                               IF suppress THEN raft[d] ELSE raft_receive_term(raft[d], Rpc(s, d).term),
                               s, Rpc(s, d)))
    /\ UNCHANGED <<disk, budget>>

HandleVoteReply(s, d) ==
    /\ HasRpc(s, d, "VOTE_REPLY")
    /\ Rpc(s, d).term >= raft[d].term
    /\ Receive(s, d, raft_handle_vote_reply(raft_receive_term(raft[d], Rpc(s, d).term),
                                            s, Rpc(s, d)))
    /\ UNCHANGED <<disk, budget>>

HandleAppendRequest(s, d) ==
    /\ HasRpc(s, d, "APPEND_REQUEST")
    /\ Rpc(s, d).term >= raft[d].term
    /\ Receive(s, d, raft_handle_append_request(raft_receive_term(raft[d], Rpc(s, d).term),
                                                s, Rpc(s, d)))
    /\ UNCHANGED <<disk, budget>>

HandleAppendReply(s, d) ==
    /\ HasRpc(s, d, "APPEND_REPLY")
    /\ Rpc(s, d).term >= raft[d].term
    /\ Receive(s, d, raft_handle_append_reply(raft_receive_term(raft[d], Rpc(s, d).term),
                                              s, Rpc(s, d)))
    /\ UNCHANGED <<disk, budget>>

HandleInstallSnapshotRequest(s, d) ==
    /\ HasRpc(s, d, "INSTALL_SNAPSHOT_REQUEST")
    /\ Rpc(s, d).term >= raft[d].term
    /\ LET r0 == raft_receive_term(raft[d], Rpc(s, d).term)
           r == raft_handle_install_snapshot_request(r0, s, Rpc(s, d))
       IN  /\ Receive(s, d, r)
           /\ disk' = IF Installs(r0, Rpc(s, d)) THEN [disk EXCEPT ![d] = raft_write_snapshot(r)]
                      ELSE disk
    /\ UNCHANGED budget

HandleInstallSnapshotReply(s, d) ==
    /\ HasRpc(s, d, "INSTALL_SNAPSHOT_REPLY")
    /\ Rpc(s, d).term >= raft[d].term
    /\ Receive(s, d, raft_handle_install_snapshot_reply(raft_receive_term(raft[d], Rpc(s, d).term),
                                                        s, Rpc(s, d)))
    /\ UNCHANGED <<disk, budget>>

HandleBecomeLeader(s, d) ==
    /\ HasRpc(s, d, "BECOME_LEADER")
    /\ Rpc(s, d).term >= raft[d].term
    /\ LET r == raft_receive_term(raft[d], Rpc(s, d).term)
       IN  Receive(s, d, IF r.role = "FOLLOWER" THEN raft_start_election(r, TRUE) ELSE r)
    /\ UNCHANGED <<disk, budget>>

\* An RPC of a stale term is dropped; an append request is also refused.
RejectStale(s, d) ==
    /\ s # d
    /\ raft[s].conns[d] # <<>>
    /\ Rpc(s, d).term < raft[d].term
    /\ Rpc(s, d).type = "VOTE_REQUEST" => FALSE \in Suppressions(raft[d], Rpc(s, d))
    /\ Receive(s, d, IF Rpc(s, d).type = "APPEND_REQUEST"
                     THEN raft_send_append_reply(raft[d], s, Rpc(s, d), "INCONSISTENCY")
                     ELSE raft[d])
    /\ UNCHANGED <<disk, budget>>

\* The fsync thread: the next record of the file of s is on disk.
LogSync(s) ==
    /\ raft[s].file # <<>>
    /\ Local(s, Synced1(raft[s]))
    /\ disk' = [disk EXCEPT ![s] = raft_apply_record(@, Head(raft[s].file))]
    /\ UNCHANGED budget

\* raft_waiters_run() with a waiter whose records are all on disk.
WaitersRun(s) == /\ raft[s].waiters # <<>>
                 /\ Head(raft[s].waiters).ticket = 0
                 /\ Local(s, raft_waiter_complete(raft[s]))
                 /\ UNCHANGED <<disk, budget>>

\* The client reads on, with raft_next_entry().
NextEntry(s) == /\ raft[s].last_applied < raft[s].commit_index
                /\ Local(s, raft_get_next_entry(raft[s]))
                /\ Spend("read")
                /\ UNCHANGED disk

StoreSnapshot(s) == /\ raft[s].last_applied >= raft[s].log_start
                    /\ Local(s, raft_store_snapshot(raft[s]))
                    /\ disk' = [disk EXCEPT ![s] = raft_write_snapshot(raft_store_snapshot(raft[s]))]
                    /\ Spend("snapshot")

\* The connection from s to d breaks and is reopened, with the loss of what it
\* carried; both ends notice (raft_conn_run()).
Disconnect(s, d) ==
    /\ s # d
    /\ raft' = [raft EXCEPT ![s].conns[d] = <<>>, ![s].snapping = @ \ {d}, ![d].snapping = @ \ {s}]
    /\ Spend("disconnect")
    /\ UNCHANGED disk

\* A new connection from s to d delivers what it carries before the oldest RPC
\* of the one it replaces.
Overtake(s, d) ==
    /\ Len(raft[s].conns[d]) > 1
    /\ raft' = [raft EXCEPT ![s].conns[d] = Append(Tail(@), Head(@))]
    /\ Spend("overtake")
    /\ UNCHANGED disk

\* Server s crashes with the unsynced tail of its file lost, and restarts if it
\* can read the rest; what was on its way to it is lost.
Crash(s) ==
    /\ disk[s].readable
    /\ raft' = [x \in Server |-> IF x = s THEN [raft_open(s, disk[s]) EXCEPT !.conns = raft[s].conns]
                                 ELSE [raft[x] EXCEPT !.conns[s] = <<>>, !.snapping = @ \ {s}]]
    /\ Within(raft'[s])
    /\ Spend("crash")
    /\ UNCHANGED disk

InitDisk ==
    [term |-> 1, vote |-> Zero, log_start |-> FirstIndex, snap |-> [term |-> 1, data |-> <<>>],
     entries |-> <<>>, commit_index |-> FirstIndex - 1, readable |-> TRUE]

Init == /\ disk = [s \in Server |-> InitDisk]
        /\ raft = [s \in Server |-> raft_open(s, InitDisk)]
        /\ budget \in Budgets

Next == \/ \E s \in Server : \/ LeaderTimeout(s)
                             \/ ElectionTimeout(s)
                             \/ Ping(s)
                             \/ \E v \in Value : Command(s, v)
                             \/ LogSync(s)
                             \/ WaitersRun(s)
                             \/ NextEntry(s)
                             \/ StoreSnapshot(s)
                             \/ Crash(s)
        \/ \E s, d \in Server : \/ TransferLeadership(s, d)
                                \/ HandleVoteRequest(s, d)
                                \/ HandleVoteReply(s, d)
                                \/ HandleAppendRequest(s, d)
                                \/ HandleAppendReply(s, d)
                                \/ HandleInstallSnapshotRequest(s, d)
                                \/ HandleInstallSnapshotReply(s, d)
                                \/ HandleBecomeLeader(s, d)
                                \/ RejectStale(s, d)
                                \/ Disconnect(s, d)
                                \/ Overtake(s, d)

Spec == Init /\ [][Next]_vars
---------------------------------------------------------------------------
(* Types.                                                                  *)

Data == Value \cup {NoData}
LogEntry == [term : Nat, data : Data]
Snapshot == [term : Nat, data : Seq(Value)]
Record == [type : {"STATE"}, term : Nat, vote : Sid]
          \cup [type : {"ENTRY"}, term : Nat, index : Nat, data : Data]
          \cup [type : {"COMMIT"}, term : {0}, index : Nat]
RPC == [type : {"VOTE_REQUEST"}, term : Nat, last_log_index : Nat, last_log_term : Nat,
        leadership_transfer : BOOLEAN]
       \cup [type : {"VOTE_REPLY"}, term : Nat, vote : Sid]
       \cup [type : {"APPEND_REQUEST"}, term : Nat, prev_log_index : Nat, prev_log_term : Nat,
             leader_commit : Nat, entries : Seq(LogEntry)]
       \cup [type : {"APPEND_REPLY"}, term : Nat, log_end : Nat, prev_log_index : Nat,
             n_entries : Nat, result : {"OK", "INCONSISTENCY"}]
       \cup [type : {"INSTALL_SNAPSHOT_REQUEST"}, term : Nat, last_index : Nat, last_term : Nat,
             data : Seq(Value)]
       \cup [type : {"INSTALL_SNAPSHOT_REPLY"}, term : Nat, last_index : Nat, last_term : Nat]
       \cup [type : {"BECOME_LEADER"}, term : Nat]
Waiter == [type : {"TERM", "ENTRY"}, ticket : Nat, index : Nat, term : Nat, vote : Sid,
           rpcs : [Server -> Seq(RPC)]]
Complaint == {"deferred", "vote", "changed", "usurped", "assert", "wrap"}

RaftType ==
    [sid : Server, term : Nat, vote : Sid, synced_term : Nat, synced_vote : Sid,
     entries : Seq(LogEntry), log_start : Nat, snap : Snapshot, log_synced : Nat,
     role : {"FOLLOWER", "CANDIDATE", "LEADER"}, commit_index : Nat, last_applied : Nat,
     leader_sid : Sid, n_votes : Nat, svote : [Server -> Sid], next_index : [Server -> Nat],
     match_index : [Server -> Nat], replied : SUBSET Server, snapping : SUBSET Server,
     waiters : Seq(Waiter), file : Seq(Record), conns : [Server -> Seq(RPC)],
     complaints : SUBSET Complaint]
DiskType ==
    [term : Nat, vote : Sid, log_start : Nat, snap : Snapshot, entries : Seq(LogEntry),
     commit_index : Nat, readable : BOOLEAN]

\* Every field of struct raft, of the file and of the RPCs keeps its type.
TypeOK == /\ raft \in [Server -> RaftType]
          /\ disk \in [Server -> DiskType]
          /\ budget \in [Event -> Nat]

---------------------------------------------------------------------------
(* Properties.                                                             *)

\* The servers that have r's log up to index i, as far as r and x can compare:
\* x has not lost an entry that r has, or has it inside its snapshot.
Holds(x, r, i) == /\ i < LogEnd(x)
                  /\ (i >= x.log_start - 1 /\ i >= r.log_start - 1)
                        => raft_get_term(x, i) = raft_get_term(r, i)

IsPrefixOf(a, b) == Len(a) <= Len(b) /\ a = SubSeq(b, 1, Len(a))

\* Two servers are never leaders of the same term: raft_accept_vote() counts
\* votes that raft_handle_vote_request__() gives once a term and that survive
\* crashes.
ElectionSafety ==
    \A s, d \in Server :
        (raft[s].role = "LEADER" /\ raft[d].role = "LEADER" /\ raft[s].term = raft[d].term) => s = d

\* The errors of raft_update_leader(), "this server is leader but server %s
\* claims to be" and "leader for term %d changed from %s to %s", never appear.
OneLeaderHeard == \A s \in Server : raft[s].complaints \cap {"usurped", "changed"} = {}

\* The warning of raft_accept_vote(), "server %s changed its vote from %s to %s",
\* never appears, though a voter may crash and restart between two replies.
VotesKept == \A s \in Server : "vote" \notin raft[s].complaints

\* No RPC that raft_send() deferred is found unready by
\* raft_waiter_complete_rpc() ("This is a bug ...").
DeferredReady == \A s \in Server : "deferred" \notin raft[s].complaints

\* raft_send_append_request()'s assertion that the role is RAFT_LEADER holds,
\* also when the reply to an old snapshot triggers it.
LeaderAsserts == \A s \in Server : "assert" \notin raft[s].complaints

\* next_index is always "Index of next log entry to send this server": it never
\* reaches 0, which raft_send_append_request() would decrement.
NextIndexValid == \A s \in Server : "wrap" \notin raft[s].complaints

\* A vote that a VOTE_REPLY announces is on the voter's disk: no restart can
\* make the voter vote again in that term.
DurableVote(s, t, v) == \/ disk[s].term > t
                        \/ disk[s].term = t /\ disk[s].vote = v
AnnouncedVotesDurable ==
    \A s, d \in Server : \A i \in DOMAIN raft[s].conns[d] :
        raft[s].conns[d][i].type = "VOTE_REPLY"
            => DurableVote(s, raft[s].conns[d][i].term, raft[s].conns[d][i].vote)

\* A candidate counts every voter once, and only in the term of the vote.
VotesCounted ==
    \A s \in Server : raft[s].role # "FOLLOWER" =>
        raft[s].n_votes = Cardinality({p \in Server : raft[s].svote[p] = s})

\* If two logs have an entry of one term at one index, they have the same
\* entries there and before, however often raft_handle_append_entries() cut them.
LogMatching ==
    \A s, d \in Server :
        \A i \in raft[s].log_start .. LogEnd(raft[s]) - 1 :
            (/\ i >= raft[d].log_start
             /\ i < LogEnd(raft[d])
             /\ Entry(raft[s], i).term = Entry(raft[d], i).term)
            => \A j \in MaxOf(raft[s].log_start, raft[d].log_start) .. i :
                  Entry(raft[s], j) = Entry(raft[d], j)

\* Server c would be elected if all servers restarted now and it stood first: a
\* majority finds its log up to date (raft_handle_vote_request__()).
Electable(c) ==
    LET m == [last_log_term |-> LastTerm(disk[c]), last_log_index |-> LogEnd(disk[c]) - 1]
    IN  Cardinality({d \in Server : UpToDate(disk[d], m)}) > N \div 2

\* What any server has seen committed, every leader of its term or a later one has,
\* and so has every server that could become leader if all crashed now: only
\* entries of a leader's own term are committed by counting
\* (raft_consider_updating_commit_index()), and a vote needs an up-to-date log.
\* It rests on AcksDurable and is checked for as long as that holds.
LeaderCompleteness ==
    \A l \in Server :
        /\ raft[l].role = "LEADER"
              => \A s \in Server : raft[l].term >= raft[s].term
                                      => Holds(raft[l], raft[s], raft[s].commit_index)
        /\ Electable(l) => \A s \in Server : Holds(disk[l], raft[s], raft[s].commit_index)

\* What the client of a server can read: the committed part of its log.
Visible(r) == DataUpTo(r, MinOf(r.commit_index, LogEnd(r) - 1))

\* What the clients of two servers can read (raft_next_entry()) never diverges:
\* the data of one, its snapshot included, is a prefix of the data of the other.
StateMachineSafety ==
    \A s, d \in Server :
        (s # d /\ raft[s].commit_index <= raft[d].commit_index)
            => IsPrefixOf(Visible(raft[s]), Visible(raft[d]))

\* "Invariant: log_start - 2 <= last_applied <= commit_index < log_end."
IndexOrder ==
    \A s \in Server : /\ raft[s].log_start - 2 <= raft[s].last_applied
                      /\ raft[s].last_applied <= raft[s].commit_index
                      /\ raft[s].commit_index < LogEnd(raft[s])

\* Whatever part of the file is lost in a crash, raft_open() can read the rest:
\* raft_apply_record() accepts every record in the order they were written.
LogReadable == \A s \in Server : disk[s].readable

\* "Must be updated on stable storage before responding to RPCs" (log): the
\* entries that an APPEND_REPLY acknowledges to the leader of its term are on
\* the disk of the server that sent it.
AcksDurable ==
    \A s, d \in Server : \A i \in DOMAIN raft[s].conns[d] :
        LET m == raft[s].conns[d][i]
        IN  (/\ m.type = "APPEND_REPLY"
             /\ m.result = "OK"
             /\ raft[d].role = "LEADER"
             /\ raft[d].term = m.term)
            => Holds(disk[s], raft[d], m.prev_log_index + m.n_entries)

\* A leader never believes (match_index) that a follower of its term has an
\* entry that the follower lacks.
MatchIndexSound ==
    \A l, p \in Server :
        (raft[l].role = "LEADER" /\ raft[p].term <= raft[l].term)
            => Holds(raft[p], raft[l], raft[l].match_index[p])

\* A step never takes back what is on disk: the term of a server does not
\* decrease, and its vote in a term does not change (raft_write_state() followed
\* by a crash, a restart and raft_apply_record(); raft_write_snapshot()).
DurableStateKept ==
    [][\A s \in Server :
          /\ disk'[s].term >= disk[s].term
          /\ (disk'[s].term = disk[s].term /\ disk[s].vote # Zero) => disk'[s].vote = disk[s].vote
      ]_vars

\* What a server lets its client read changes only by getting longer, whatever a
\* new leader cuts off and whatever moves into a snapshot; a restart, which may
\* know less to be committed (the COMMIT record is not waited for), goes back to an
\* earlier point of the same history.
CommittedKept ==
    [][\A s \in {x \in Server : raft'[x] # raft[x]} :
          IF raft'[s].commit_index >= raft[s].commit_index
          THEN IsPrefixOf(Visible(raft[s]), Visible(raft'[s]))
          ELSE IsPrefixOf(Visible(raft'[s]), Visible(raft[s]))]_vars
=============================================================================
