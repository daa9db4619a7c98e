----------------------------- MODULE RaftHeard -----------------------------
(***************************************************************************)
(* Why no server ever hears of two leaders of a term: the inductive        *)
(* invariant behind OneLeaderHeard.  A server that is heard to be leader,  *)
(* because an APPEND_REQUEST of its is on the way or has been taken by     *)
(* raft_update_leader(), may have been deposed, or have crashed, long ago, *)
(* so the invariant must not speak of its role: what is left of a leader   *)
(* is a majority whose votes in its term cannot change any more.           *)
(***************************************************************************)
EXTENDS RaftVotes

\* The terms in which a server claims to be leader with the RPCs it has queued
\* (f is a function from destinations), has sent, and has deferred behind its
\* waiters.
Claims(f) ==
    UNION {{m.term : m \in {x \in Elems(f[d]) : x.type = "APPEND_REQUEST"}} : d \in Server}
Told(r) == Claims(r.conns)
Deferred(r) == UNION {Claims(w.rpcs) : w \in Elems(r.waiters)}

\* What one server and its disk know of leaders: only a leader takes itself for
\* one, a candidate can only find its vote for itself on disk, and what is
\* deferred goes out only in the term of the leader that deferred it.
LeaderSound(r, d) ==
    /\ r.leader_sid \in Sid
    /\ r.role # "LEADER" => r.leader_sid # r.sid
    /\ r.role # "FOLLOWER" =>
           /\ d.term = r.term => d.vote = r.sid
           /\ \A rec \in Elems(r.file) : (IsState(rec) /\ rec.term = r.term) => rec.vote = r.sid
    /\ \A t \in Deferred(r) : t < r.term \/ (t = r.term /\ r.role = "LEADER")

\* Voter p has voted for l in term t or cannot vote in it any more, and nobody
\* knows it to have voted for another.
Closed(p, t, l) == /\ DurableVote(p, t, l)
                   /\ \A a \in Announced(p) : a[1] = t => a[2] = l
Elected(t, l) == Cardinality({p \in Server : Closed(p, t, l)}) > N \div 2

\* The terms in which l is heard to be leader.
Heard(l) == Told(raft[l])
            \cup {raft[s].term : s \in {x \in Server \ {l} : raft[x].leader_sid = l}}

\* The inductive invariant: every server that is heard to be leader was elected,
\* by votes that last, and there is one in each term, so that neither error of
\* raft_handle_append_request() and raft_update_leader() is ever logged.
HeardInv ==
    /\ \A s \in Server : LeaderSound(raft[s], disk[s])
    /\ \A l \in Server : \A t \in Heard(l) : Elected(t, l)
    /\ \A l \in Server : \A t \in Heard(l) : \A k \in Server : t \in Heard(k) => l = k
    /\ OneLeaderHeard
=============================================================================
