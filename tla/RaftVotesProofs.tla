-------------------------- MODULE RaftVotesProofs --------------------------
(***************************************************************************)
(* VoteInv is an invariant of Raft, for every number of servers and every  *)
(* bound, and with it at most one leader is elected in a term.             *)
(***************************************************************************)
EXTENDS RaftElectionProofs

\* A leaf that names no prover is tried with Zenon and then with SMT.
USE ZenonT(30), SMTT(120), ZenonT(120)

\* Server s may go to state q with disk e: it keeps its invariant, its disk never
\* goes back, and every vote it announces is on its disk or was known before.
Moves(s, q, e) ==
    /\ q.sid = s
    /\ Good(q, e)
    /\ Reaches(disk[s].term, disk[s].vote, e.term, e.vote)
    /\ \A a \in Replies(q) : a \in Replies(raft[s]) \/ (a = <<e.term, e.vote>> /\ e.vote # Zero)
    /\ \A p \in Server \ {s} : Counted(q, p) \subseteq Announced(p)
    /\ "vote" \in q.complaints => "vote" \in raft[s].complaints

Step == /\ DOMAIN raft' = Server
        /\ DOMAIN disk' = Server
        /\ \A s \in Server : Moves(s, raft'[s], disk'[s])

\* What VoteInv says of one server.
LEMMA ServerGood ==
    ASSUME VoteInv, NEW s \in Server
    PROVE  /\ raft[s].sid = s /\ Good(raft[s], disk[s])
           /\ DOMAIN raft = Server /\ DOMAIN disk = Server
           /\ raft[s].term \in Nat /\ disk[s].term \in Nat
           /\ DOMAIN raft[s] = Fields /\ DOMAIN raft[s].conns = Server
           /\ \A e \in Server : /\ IsSeq(raft[s].conns[e])
                                /\ \A m \in Elems(raft[s].conns[e]) : SoundRpc(m)
  <1>1. /\ raft[s].sid = s /\ Good(raft[s], disk[s])
        /\ DOMAIN raft = Server /\ DOMAIN disk = Server
    BY DEF VoteInv
  <1> QED BY <1>1 DEF Good, VoteTypes, DiskSound, IndexTypes, SoundQueues

\* A vote that another server has counted is announced.
LEMMA CountedAnnounced ==
    ASSUME NEW s \in Server, NEW p \in Server, p # s
    PROVE  Counted(raft[s], p) \subseteq Announced(p)
  BY DEF Announced

\* A server that keeps its invariant moves as a step requires.
LEMMA KeepsMoves ==
    ASSUME VoteInv, NEW s \in Server, NEW q, NEW e, Keeps(raft[s], q, e),
           Reaches(disk[s].term, disk[s].vote, e.term, e.vote)
    PROVE  Moves(s, q, e)
  <1>1. raft[s].sid = s
    BY ServerGood
  <1> QED BY <1>1, CountedAnnounced DEF Keeps, Moves

\* The state on a disk that does not change.
LEMMA DiskReaches ==
    ASSUME NEW d
    PROVE  Reaches(d.term, d.vote, d.term, d.vote)
  BY DEF Reaches

\* A server that does nothing.
LEMMA StaysMoves ==
    ASSUME VoteInv, NEW s \in Server
    PROVE  Moves(s, raft[s], disk[s])
  BY ServerGood, KeepsRefl, KeepsMoves, DiskReaches

\* A vote that is announced after such a step was so before, or is on disk.
LEMMA NewAnnounced ==
    ASSUME Step, NEW p \in Server, NEW c \in Announced(p)'
    PROVE  \/ c \in Announced(p)
           \/ c = <<disk'[p].term, disk'[p].vote>> /\ disk'[p].vote # Zero
  <1>1. CASE c \in Replies(raft'[p])
    BY <1>1 DEF Step, Moves, Announced
  <1>2. CASE \E x \in Server \ {p} : c \in Counted(raft'[x], p)
    BY <1>2 DEF Step, Moves
  <1> QED BY <1>1, <1>2 DEF Announced

\* Steps of this kind keep the invariant: a vote that is announced after the step
\* was announced before it or is the one on disk.
LEMMA StepInv ==
    ASSUME VoteInv, Step
    PROVE  VoteInv'
  <1>1. \A s \in Server : raft'[s].sid = s /\ Good(raft'[s], disk'[s])
    BY DEF Step, Moves
  <1>2. VotesAgree'
    <2> SUFFICES ASSUME NEW p \in Server, NEW a \in Announced(p)', NEW b \in Announced(p)'
                 PROVE  /\ a[1] = b[1] => a[2] = b[2]
                        /\ a[2] # Zero
                        /\ DurableVote(p, a[1], a[2])'
      BY DEF VotesAgree
    <2> DEFINE d == disk[p]
               e == disk'[p]
    <2>1. \A c \in Announced(p)' :
              c \in Announced(p) \/ (c = <<e.term, e.vote>> /\ e.vote # Zero)
      BY NewAnnounced
    <2>2. /\ Reaches(d.term, d.vote, e.term, e.vote) /\ d.term \in Nat /\ e.term \in Nat
      BY ServerGood DEF Step, Moves, Good, DiskSound
    <2>3. \A c, f \in Announced(p) : /\ c[1] = f[1] => c[2] = f[2]
                                     /\ c[2] # Zero
                                     /\ d.term > c[1] \/ (d.term = c[1] /\ d.vote = c[2])
      BY DEF VoteInv, VotesAgree, DurableVote
    <2>4. \A c \in Announced(p) : c[1] \in Nat
      <3>1. ASSUME NEW c \in Replies(raft[p]) PROVE c[1] \in Nat
        <4>1. PICK x \in Server : \E m \in Elems(raft[p].conns[x]) :
                  m.type = "VOTE_REPLY" /\ c = <<m.term, m.vote>>
          BY <3>1, InReplies, SMTT(60)
        <4> QED BY <4>1, ServerGood, SMTT(60) DEF SoundRpc
      <3>2. ASSUME NEW x \in Server \ {p}, NEW c \in Counted(raft[x], p) PROVE c[1] \in Nat
        BY <3>2, ServerGood, SMTT(60) DEF Counted
      <3> QED BY <3>1, <3>2 DEF Announced
    <2>5. \A c \in Announced(p) : e.term > c[1] \/ (e.term = c[1] /\ e.vote = c[2])
      <3> HIDE DEF d, e
      <3> QED BY <2>2, <2>3, <2>4, SMTT(60) DEF Reaches
    <2>6. DurableVote(p, a[1], a[2])' <=> e.term > a[1] \/ (e.term = a[1] /\ e.vote = a[2])
      BY DEF DurableVote
    <2>7. a \in Announced(p) \/ (a = <<e.term, e.vote>> /\ e.vote # Zero)
      BY <2>1
    <2>8. b \in Announced(p) \/ (b = <<e.term, e.vote>> /\ e.vote # Zero)
      BY <2>1
    <2> HIDE DEF d, e
    <2>9. a[2] # Zero /\ (e.term > a[1] \/ (e.term = a[1] /\ e.vote = a[2]))
      BY <2>3, <2>5, <2>7, SMTT(60)
    <2>10. a[1] = b[1] => a[2] = b[2]
      BY <2>2, <2>3, <2>4, <2>5, <2>7, <2>8, SMTT(60)
    <2> QED BY <2>6, <2>9, <2>10
  <1> QED BY <1>1, <1>2 DEF Step, VoteInv

\* The disk of s goes to e.
DiskStep(s, e) == /\ DOMAIN disk' = Server
                  /\ disk'[s] = e
                  /\ \A x \in Server \ {s} : disk'[x] = disk[x]

\* One server changes on its own.
LEMMA LocalStep ==
    ASSUME VoteInv, NEW s \in Server, NEW q, NEW e, Moves(s, q, e),
           raft' = [raft EXCEPT ![s] = q], DiskStep(s, e)
    PROVE  Step
  <1>1. DOMAIN raft' = Server /\ DOMAIN disk' = Server /\ raft'[s] = q /\ disk'[s] = e
    BY ServerGood DEF DiskStep
  <1>2. \A x \in Server \ {s} : raft'[x] = raft[x] /\ disk'[x] = disk[x]
    BY ServerGood DEF DiskStep
  <1>3. \A x \in Server : Moves(x, raft'[x], disk'[x])
    BY <1>1, <1>2, StaysMoves
  <1> QED BY <1>1, <1>3 DEF Step

\* One server changes on its own, its disk does not.
LEMMA LocalKeeps ==
    ASSUME VoteInv, NEW s \in Server, NEW q, Keeps(raft[s], q, disk[s]),
           raft' = [raft EXCEPT ![s] = q], disk' = disk
    PROVE  Step
  <1>1. DiskStep(s, disk[s])
    BY ServerGood DEF DiskStep
  <1>2. Moves(s, q, disk[s])
    BY KeepsMoves, DiskReaches
  <1> QED BY <1>1, <1>2, LocalStep

\* What a server has on a connection becomes less, or is reordered, or grows by
\* an RPC that is no vote; the peers that a snapshot is being sent to may change.
LEMMA ConnKeeps ==
    ASSUME NEW r, NEW d, Good(r, d), NEW p \in Server, NEW c, IsSeq(c),
           \A m \in Elems(c) : \/ m \in Elems(r.conns[p])
                               \/ SoundRpc(m) /\ m.type # "VOTE_REPLY",
           NEW S, NEW q,
           q \in {[r EXCEPT !.conns[p] = c], [r EXCEPT !.conns[p] = c, !.snapping = S]}
    PROVE  Keeps(r, q, d)
  <1> DEFINE cs == [r.conns EXCEPT ![p] = c]
  <1>0. DOMAIN r = Fields /\ DOMAIN r.conns = Server /\ \A e \in Server : IsSeq(r.conns[e])
    BY DEF Good, IndexTypes, SoundQueues
  <1>1. DOMAIN cs = Server /\ cs[p] = c /\ \A e \in Server \ {p} : cs[e] = r.conns[e]
    BY <1>0
  <1>2. q \in {[r EXCEPT !.conns = cs], [r EXCEPT !.conns = cs, !.snapping = S]}
    BY DEF cs
  <1> HIDE DEF cs
  <1>3. /\ SameIndexes(r, q) /\ SameElection(r, q) /\ SameLog(r, q) /\ q.waiters = r.waiters
        /\ q.complaints = r.complaints /\ q.conns = cs
    BY <1>0, <1>2, ZenonT(60) DEF Fields, SameIndexes, SameElection, SameLog
  <1>4. \A e \in Server : /\ IsSeq(q.conns[e])
                          /\ \A m \in Elems(q.conns[e]) :
                                \/ m \in Elems(r.conns[e])
                                \/ SoundRpc(m) /\ m.type # "VOTE_REPLY"
    BY <1>0, <1>1, <1>3
  <1> QED BY <1>1, <1>3, <1>4, KeepsConns DEF SameComplaint

\* Server d receives the first RPC from s.
LEMMA ReceiveStep ==
    ASSUME VoteInv, NEW s \in Server, NEW d \in Server, s # d, raft[s].conns[d] # <<>>,
           NEW q, NEW e, Moves(d, q, e),
           Receive(s, d, q), DiskStep(d, e)
    PROVE  Step
  <1> DEFINE c == Tail(raft[s].conns[d])
             r == [raft[s] EXCEPT !.conns[d] = c]
  <1>0. DOMAIN raft = Server /\ DOMAIN disk = Server
    BY ServerGood
  <1>1. raft' = [raft EXCEPT ![s] = r, ![d] = q]
    BY <1>0 DEF Receive
  <1>2. IsSeq(c) /\ Elems(c) \subseteq Elems(raft[s].conns[d])
    BY ServerGood, TailElems
  <1> HIDE DEF c
  <1>3. Good(raft[s], disk[s])
    BY ServerGood
  <1>4. Keeps(raft[s], r, disk[s])
    BY <1>2, <1>3, ConnKeeps
  <1> HIDE DEF r
  <1>5. Moves(s, r, disk[s])
    BY <1>4, KeepsMoves, DiskReaches
  <1>6. /\ DOMAIN raft' = Server /\ DOMAIN disk' = Server
        /\ raft'[s] = r /\ raft'[d] = q /\ disk'[s] = disk[s] /\ disk'[d] = e
        /\ \A x \in Server \ {s, d} : raft'[x] = raft[x] /\ disk'[x] = disk[x]
    BY <1>0, <1>1 DEF DiskStep
  <1>7. \A x \in Server : Moves(x, raft'[x], disk'[x])
    BY <1>5, <1>6, StaysMoves
  <1> QED BY <1>6, <1>7 DEF Step

\* A server receives an RPC, its disk does not change.
LEMMA ReceiveKeeps ==
    ASSUME VoteInv, NEW s \in Server, NEW d \in Server, s # d, raft[s].conns[d] # <<>>,
           NEW q, Keeps(raft[d], q, disk[d]), Receive(s, d, q), disk' = disk
    PROVE  Step
  <1>1. DiskStep(d, disk[d])
    BY ServerGood DEF DiskStep
  <1>2. Moves(d, q, disk[d])
    BY KeepsMoves, DiskReaches
  <1> QED BY <1>1, <1>2, ReceiveStep

\* The RPC that is received, and the term it brings.
LEMMA RpcSound ==
    ASSUME VoteInv, NEW s \in Server, NEW d \in Server, raft[s].conns[d] # <<>>
    PROVE  SoundRpc(Rpc(s, d)) /\ Rpc(s, d).term \in Nat /\ Rpc(s, d) \in Elems(raft[s].conns[d])
  BY ServerGood, TailElems, SMTT(60) DEF Rpc, SoundRpc

\* What raft_handle_rpc() does with the term of an RPC that is not stale.
LEMMA RpcTermKeeps ==
    ASSUME VoteInv, NEW s \in Server, NEW d \in Server, raft[s].conns[d] # <<>>,
           Rpc(s, d).term >= raft[d].term, NEW r, r = raft_receive_term(raft[d], Rpc(s, d).term)
    PROVE  /\ Keeps(raft[d], r, disk[d]) /\ Good(r, disk[d]) /\ r.term = Rpc(s, d).term
           /\ r.conns = raft[d].conns
  <1>1. Keeps(raft[d], r, disk[d]) /\ r.term = Rpc(s, d).term /\ r.conns = raft[d].conns
    BY ServerGood, RpcSound, ReceiveTermKeeps, SMTT(60)
  <1> QED BY <1>1 DEF Keeps

---------------------------------------------------------------------------
(* The actions.                                                            *)

\* The election timer of raft_run(), at a leader and elsewhere.
LEMMA TimeoutSteps ==
    ASSUME VoteInv, NEW s \in Server, LeaderTimeout(s) \/ ElectionTimeout(s)
    PROVE  Step
  <1> DEFINE r == raft[s]
             r1 == raft_become_follower(r)
  <1>0. Good(r, disk[s])
    BY ServerGood
  <1>1. Keeps(r, r1, disk[s])
    BY <1>0, BecomeFollowerKeeps
  <1>2. PICK q : /\ q \in {[r EXCEPT !.replied = {}], raft_start_election(r1, FALSE),
                           raft_start_election(r, FALSE)}
                 /\ raft' = [raft EXCEPT ![s] = q] /\ disk' = disk
    BY DEF LeaderTimeout, ElectionTimeout, Local
  <1> HIDE DEF r, r1
  <1>3. Good(r1, disk[s])
    BY <1>1 DEF Keeps
  <1>4. CASE q = [r EXCEPT !.replied = {}]
    <2>1. Keeps(r, q, disk[s])
      BY <1>0, <1>4, PeerSetsKeep
    <2> QED BY <1>2, <2>1, LocalKeeps DEF r
  <1>5. CASE q = raft_start_election(r1, FALSE)
    <2>1. Keeps(r1, q, disk[s])
      BY <1>3, <1>5, StartElectionKeeps
    <2>2. Keeps(r, q, disk[s])
      BY <1>1, <2>1, KeepsTrans
    <2> QED BY <1>2, <2>2, LocalKeeps DEF r
  <1>6. CASE q = raft_start_election(r, FALSE)
    <2>1. Keeps(r, q, disk[s])
      BY <1>0, <1>6, StartElectionKeeps
    <2> QED BY <1>2, <2>1, LocalKeeps DEF r
  <1> QED BY <1>2, <1>4, <1>5, <1>6

\* Heartbeats, commands, completed waiters and reads of the client.
LEMMA LeaderSteps ==
    ASSUME VoteInv, NEW s \in Server,
           Ping(s) \/ (\E v \in Value : Command(s, v)) \/ WaitersRun(s) \/ NextEntry(s)
    PROVE  Step
  <1>0. Good(raft[s], disk[s])
    BY ServerGood
  <1>1. CASE Ping(s)
    BY <1>0, <1>1, SendHeartbeatsKeeps, LocalKeeps DEF Ping, Local
  <1>2. ASSUME NEW v \in Value, Command(s, v) PROVE Step
    BY <1>0, <1>2, CommandInitiateKeeps, LocalKeeps DEF Command, Local, Data
  <1>3. CASE WaitersRun(s)
    BY <1>0, <1>3, WaiterCompleteKeeps, LocalKeeps DEF WaitersRun, Local
  <1>4. CASE NextEntry(s)
    BY <1>0, <1>4, NextEntryKeeps, LocalKeeps DEF NextEntry, Local
  <1> QED BY <1>1, <1>2, <1>3, <1>4

\* The fsync thread and raft_store_snapshot(), which change the disk.
LEMMA DiskSteps ==
    ASSUME VoteInv, NEW s \in Server, LogSync(s) \/ StoreSnapshot(s)
    PROVE  Step
  <1>0. Good(raft[s], disk[s]) /\ DOMAIN disk = Server
    BY ServerGood
  <1>1. CASE LogSync(s)
    <2> DEFINE q == Synced1(raft[s])
               e == raft_apply_record(disk[s], Head(raft[s].file))
    <2>1. raft[s].file # <<>> /\ raft' = [raft EXCEPT ![s] = q] /\ DiskStep(s, e)
      BY <1>0, <1>1 DEF LogSync, Local, DiskStep
    <2>2. Keeps(raft[s], q, e) /\ Reaches(disk[s].term, disk[s].vote, e.term, e.vote)
      BY <1>0, <2>1, SyncedKeeps
    <2> HIDE DEF q, e
    <2> QED BY <2>1, <2>2, KeepsMoves, LocalStep
  <1>2. CASE StoreSnapshot(s)
    <2> DEFINE q == raft_store_snapshot(raft[s])
               e == raft_write_snapshot(q)
    <2>1. /\ raft[s].last_applied >= raft[s].log_start
          /\ raft' = [raft EXCEPT ![s] = q] /\ DiskStep(s, e)
      BY <1>0, <1>2 DEF StoreSnapshot, Local, DiskStep
    <2>2. Keeps(raft[s], q, e) /\ Reaches(disk[s].term, disk[s].vote, e.term, e.vote)
      BY <1>0, <2>1, StoreSnapshotKeeps
    <2> HIDE DEF q, e
    <2> QED BY <2>1, <2>2, KeepsMoves, LocalStep
  <1> QED BY <1>1, <1>2

\* raft_handle_vote_request(), suppressed or not.
LEMMA VoteRequestStep ==
    ASSUME VoteInv, NEW s \in Server, NEW d \in Server, HandleVoteRequest(s, d)
    PROVE  Step
  <1> DEFINE m == Rpc(s, d)
             r1 == raft_receive_term(raft[d], m.term)
  <1>0. Good(raft[d], disk[d]) /\ s # d /\ raft[s].conns[d] # <<>> /\ disk' = disk
    BY ServerGood DEF HandleVoteRequest, HasRpc
  <1>1. PICK r : /\ r = raft[d] \/ (m.term >= raft[d].term /\ r = r1)
                 /\ Receive(s, d, raft_handle_vote_request(r, s, m))
    BY DEF HandleVoteRequest
  <1>2. Keeps(raft[d], r, disk[d])
    BY <1>0, <1>1, KeepsRefl, RpcTermKeeps
  <1> HIDE DEF m, r1
  <1>3. Keeps(r, raft_handle_vote_request(r, s, m), disk[d])
    BY <1>2, HandleVoteRequestKeeps DEF Keeps
  <1>4. Keeps(raft[d], raft_handle_vote_request(r, s, m), disk[d])
    BY <1>2, <1>3, KeepsTrans
  <1> QED BY <1>0, <1>1, <1>4, ReceiveKeeps

\* A vote reply announces its vote, and a vote counted before was the same.
LEMMA VoteReplyAgrees ==
    ASSUME VoteInv, NEW s \in Server, NEW d \in Server, s # d, raft[s].conns[d] # <<>>,
           NEW m, m = Rpc(s, d), m.type = "VOTE_REPLY", m.term >= raft[d].term,
           NEW r, r = raft_receive_term(raft[d], m.term)
    PROVE  /\ <<m.term, m.vote>> \in Announced(s)
           /\ r.role = "CANDIDATE" => r.svote[s] \in {Zero, m.vote}
  <1>1. Keeps(raft[d], r, disk[d]) /\ r.term = m.term
    BY RpcTermKeeps
  <1>2. m \in Elems(raft[s].conns[d]) /\ raft[d].sid = d
    BY RpcSound, ServerGood
  <1>3. <<m.term, m.vote>> \in Announced(s)
    <2>1. <<m.term, m.vote>> \in Replies(raft[s])
      BY <1>2, InReplies
    <2> QED BY <2>1 DEF Announced
  <1>4. Counted(r, s) \subseteq Announced(s)
    BY <1>1, <1>2, CountedAnnounced DEF Keeps
  <1>5. ASSUME r.role = "CANDIDATE", r.svote[s] # Zero PROVE r.svote[s] = m.vote
    <2> DEFINE a == <<r.term, r.svote[s]>>
               b == <<m.term, m.vote>>
    <2>1. a \in Counted(r, s)
      BY <1>5 DEF Counted
    <2>2. a[1] = b[1] => a[2] = b[2]
      <3> HIDE DEF a, b
      <3> QED BY <1>3, <1>4, <2>1 DEF VoteInv, VotesAgree, b
    <2> QED BY <1>1, <2>2
  <1> QED BY <1>3, <1>5

\* The vote that is counted was announced by a reply.
LEMMA VoteReplyStep ==
    ASSUME VoteInv, NEW s \in Server, NEW d \in Server, HandleVoteReply(s, d)
    PROVE  Step
  <1> DEFINE m == Rpc(s, d)
             r == raft_receive_term(raft[d], m.term)
             q == raft_handle_vote_reply(r, s, m)
  <1>0. /\ s # d /\ raft[s].conns[d] # <<>> /\ disk' = disk /\ m.type = "VOTE_REPLY"
        /\ m.term >= raft[d].term /\ Receive(s, d, q)
    BY DEF HandleVoteReply, HasRpc, Rpc
  <1>1. /\ Keeps(raft[d], r, disk[d]) /\ Good(r, disk[d]) /\ r.term = m.term
    BY <1>0, RpcTermKeeps
  <1>2. SoundRpc(m) /\ m \in Elems(raft[s].conns[d])
    BY <1>0, RpcSound
  <1>3. m.vote \in Server /\ raft[d].sid = d /\ DOMAIN disk = Server
    BY <1>0, <1>2, ServerGood DEF SoundRpc
  <1> HIDE DEF m, r
  <1>4. <<m.term, m.vote>> \in Announced(s) /\ (r.role = "CANDIDATE" => r.svote[s] \in {Zero, m.vote})
    BY <1>0, VoteReplyAgrees DEF m, r
  <1>5. \A p \in Server \ {d} : Counted(r, p) \subseteq Announced(p)
    BY <1>1, <1>3, CountedAnnounced DEF Keeps
  <1>7. Tallies(r, q, disk[d], s, m.vote)
    BY <1>1, <1>3, <1>4, HandleVoteReplyTallies
  <1> HIDE DEF q
  <1>8. \A p \in Server \ {d} : Counted(q, p) \subseteq Announced(p)
    BY <1>1, <1>3, <1>4, <1>5, <1>7 DEF Tallies, Keeps
  <1>9. Moves(d, q, disk[d])
    BY <1>1, <1>3, <1>7, <1>8, DiskReaches DEF Tallies, Keeps, Moves
  <1>10. DiskStep(d, disk[d])
    BY <1>0, <1>3 DEF DiskStep
  <1> QED BY <1>0, <1>9, <1>10, ReceiveStep

\* The other RPCs that do not change the disk.
LEMMA AppendSteps ==
    ASSUME VoteInv, NEW s \in Server, NEW d \in Server,
           HandleAppendRequest(s, d) \/ HandleAppendReply(s, d)
               \/ HandleInstallSnapshotReply(s, d) \/ HandleBecomeLeader(s, d)
    PROVE  Step
  <1> DEFINE m == Rpc(s, d)
             r == raft_receive_term(raft[d], m.term)
  <1>0. /\ s # d /\ raft[s].conns[d] # <<>> /\ disk' = disk
        /\ m.term >= raft[d].term
    BY DEF HandleAppendRequest, HandleAppendReply, HandleInstallSnapshotReply, HandleBecomeLeader,
           HasRpc
  <1>1. /\ Keeps(raft[d], r, disk[d]) /\ Good(r, disk[d]) /\ r.term = m.term
    BY <1>0, RpcTermKeeps
  <1>2. SoundRpc(m)
    BY <1>0, RpcSound
  <1>3. ASSUME NEW q, Keeps(r, q, disk[d]), Receive(s, d, q) PROVE Step
    <2>1. Keeps(raft[d], q, disk[d])
      BY <1>1, <1>3, KeepsTrans
    <2> QED BY <1>0, <1>3, <2>1, ReceiveKeeps
  <1>4. CASE HandleAppendRequest(s, d)
    <2>1. m.type = "APPEND_REQUEST" /\ Receive(s, d, raft_handle_append_request(r, s, m))
      BY <1>4 DEF HandleAppendRequest, HasRpc, Rpc
    <2> HIDE DEF m, r
    <2> QED BY <1>1, <1>2, <1>3, <2>1, HandleAppendRequestKeeps
  <1>5. CASE HandleAppendReply(s, d)
    <2>1. m.type = "APPEND_REPLY" /\ Receive(s, d, raft_handle_append_reply(r, s, m))
      BY <1>5 DEF HandleAppendReply, HasRpc, Rpc
    <2> HIDE DEF m, r
    <2> QED BY <1>1, <1>2, <1>3, <2>1, HandleAppendReplyKeeps
  <1>6. CASE HandleInstallSnapshotReply(s, d)
    <2>1. Receive(s, d, raft_handle_install_snapshot_reply(r, s, m))
      BY <1>6 DEF HandleInstallSnapshotReply
    <2> HIDE DEF m, r
    <2> QED BY <1>1, <1>3, <2>1, HandleInstallSnapshotReplyKeeps
  <1>7. CASE HandleBecomeLeader(s, d)
    <2>1. Receive(s, d, IF r.role = "FOLLOWER" THEN raft_start_election(r, TRUE) ELSE r)
      BY <1>7 DEF HandleBecomeLeader
    <2> HIDE DEF m, r
    <2> QED BY <1>1, <1>3, <2>1, StartElectionKeeps, KeepsRefl
  <1> QED BY <1>4, <1>5, <1>6, <1>7

\* raft_handle_install_snapshot_request() and the file it writes.
LEMMA InstallSnapshotStep ==
    ASSUME VoteInv, NEW s \in Server, NEW d \in Server, HandleInstallSnapshotRequest(s, d)
    PROVE  Step
  <1> DEFINE m == Rpc(s, d)
             r == raft_receive_term(raft[d], m.term)
             q == raft_handle_install_snapshot_request(r, s, m)
             e == IF Installs(r, m) THEN raft_write_snapshot(q) ELSE disk[d]
  <1>0. /\ s # d /\ raft[s].conns[d] # <<>> /\ m.type = "INSTALL_SNAPSHOT_REQUEST"
        /\ m.term >= raft[d].term /\ Receive(s, d, q)
        /\ disk' = IF Installs(r, m) THEN [disk EXCEPT ![d] = raft_write_snapshot(q)] ELSE disk
    BY DEF HandleInstallSnapshotRequest, HasRpc, Rpc
  <1>1. /\ Keeps(raft[d], r, disk[d]) /\ Good(r, disk[d]) /\ r.conns = raft[d].conns
    BY <1>0, RpcTermKeeps
  <1>2. SoundRpc(m)
    BY <1>0, RpcSound
  <1>3. raft[d].sid = d /\ DOMAIN disk = Server /\ Good(raft[d], disk[d])
    BY ServerGood
  <1> HIDE DEF m, r
  <1>4. Keeps(r, q, e) /\ Reaches(disk[d].term, disk[d].vote, e.term, e.vote)
    BY <1>0, <1>1, <1>2, InstallSnapshotKeeps
  <1>5. DiskStep(d, e)
    BY <1>0, <1>3 DEF DiskStep
  <1> HIDE DEF q, e
  <1>6. Moves(d, q, e)
    <2>1. q.sid = d /\ Good(q, e) /\ \A p \in Server \ {d} : Counted(q, p) \subseteq Announced(p)
      BY <1>1, <1>3, <1>4, CountedAnnounced DEF Keeps
    <2>2. Replies(r) = Replies(raft[d])
      BY <1>1, SameReplies
    <2> QED BY <1>1, <1>4, <2>1, <2>2 DEF Keeps, Moves
  <1> QED BY <1>0, <1>5, <1>6, ReceiveStep

\* raft_handle_rpc() of a stale RPC.
LEMMA RejectStep ==
    ASSUME VoteInv, NEW s \in Server, NEW d \in Server, RejectStale(s, d)
    PROVE  Step
  <1> DEFINE m == Rpc(s, d)
             q == IF m.type = "APPEND_REQUEST"
                  THEN raft_send_append_reply(raft[d], s, m, "INCONSISTENCY") ELSE raft[d]
  <1>0. s # d /\ raft[s].conns[d] # <<>> /\ disk' = disk /\ Receive(s, d, q)
    BY DEF RejectStale
  <1>1. SoundRpc(m) /\ Good(raft[d], disk[d])
    BY <1>0, RpcSound, ServerGood
  <1> HIDE DEF m
  <1>2. Keeps(raft[d], q, disk[d])
    BY <1>1, SendAppendReplyKeeps, KeepsRefl
  <1> HIDE DEF q
  <1> QED BY <1>0, <1>2, ReceiveKeeps

\* Steps of the network that deliver nothing.
LEMMA TransferStep ==
    ASSUME VoteInv, NEW s \in Server, NEW d \in Server, TransferLeadership(s, d)
    PROVE  Step
  <1> DEFINE m == [type |-> "BECOME_LEADER", term |-> raft[s].term]
             c == Carry(raft[s].conns[d], <<m>>)
             q == [raft[s] EXCEPT !.conns[d] = c]
  <1>0. /\ Good(raft[s], disk[s]) /\ raft[s].term \in Nat /\ IsSeq(raft[s].conns[d])
        /\ DOMAIN raft[s] = Fields /\ DOMAIN raft[s].conns = Server
    BY ServerGood
  <1>1. raft' = [raft EXCEPT ![s] = q] /\ disk' = disk
    BY <1>0 DEF TransferLeadership, Local, Fields
  <1>2. SoundRpc(m) /\ m.type # "VOTE_REPLY"
    BY <1>0 DEF SoundRpc
  <1> HIDE DEF m
  <1>3. IsSeq(c) /\ Elems(c) \subseteq Elems(raft[s].conns[d]) \cup {m}
    BY <1>0, SingletonElems, CarryElems
  <1> HIDE DEF c
  <1>4. \A x \in Elems(c) : \/ x \in Elems(raft[s].conns[d])
                            \/ SoundRpc(x) /\ x.type # "VOTE_REPLY"
    BY <1>2, <1>3
  <1>5. Keeps(raft[s], q, disk[s])
    BY <1>0, <1>3, <1>4, ConnKeeps
  <1> QED BY <1>1, <1>5, LocalKeeps

\* A connection that reorders what it carries.
LEMMA OvertakeStep ==
    ASSUME VoteInv, NEW s \in Server, NEW d \in Server, Overtake(s, d)
    PROVE  Step
  <1> DEFINE o == raft[s].conns[d]
             c == Append(Tail(o), Head(o))
             q == [raft[s] EXCEPT !.conns[d] = c]
  <1>0. Good(raft[s], disk[s]) /\ IsSeq(o) /\ DOMAIN raft = Server
    BY ServerGood
  <1>1. raft' = [raft EXCEPT ![s] = q] /\ disk' = disk /\ Len(o) > 1
    BY <1>0 DEF Overtake
  <1>2. o # <<>>
    BY <1>1, SMTT(60)
  <1> HIDE DEF o
  <1>3. IsSeq(Tail(o)) /\ Elems(Tail(o)) \subseteq Elems(o) /\ Head(o) \in Elems(o)
    BY <1>0, <1>2, TailElems
  <1>4. IsSeq(c) /\ Elems(c) \subseteq Elems(Tail(o)) \cup {Head(o)}
    BY <1>3, AppendElems
  <1> HIDE DEF c
  <1>5. Keeps(raft[s], q, disk[s])
    BY <1>0, <1>3, <1>4, ConnKeeps DEF o
  <1> QED BY <1>1, <1>5, LocalKeeps

\* A connection that breaks.
LEMMA DisconnectStep ==
    ASSUME VoteInv, NEW s \in Server, NEW d \in Server, Disconnect(s, d)
    PROVE  Step
  <1> DEFINE S == raft[s].snapping \ {d}
             D == raft[d].snapping \ {s}
             r == [raft[s] EXCEPT !.conns[d] = <<>>, !.snapping = S]
             q == [raft[d] EXCEPT !.snapping = D]
  <1>0. /\ Good(raft[s], disk[s]) /\ Good(raft[d], disk[d])
        /\ DOMAIN raft = Server /\ DOMAIN disk = Server
        /\ DOMAIN raft[s] = Fields /\ DOMAIN raft[d] = Fields
    BY ServerGood
  <1>1. raft' = [raft EXCEPT ![s] = r, ![d] = q] /\ disk' = disk /\ s # d
    BY <1>0 DEF Disconnect, Fields
  <1> HIDE DEF S, D
  <1>2. Keeps(raft[s], r, disk[s])
    BY <1>0, EmptyConn, ConnKeeps
  <1>3. Keeps(raft[d], q, disk[d])
    BY <1>0, PeerSetsKeep
  <1> HIDE DEF r, q
  <1>4. Moves(s, r, disk[s]) /\ Moves(d, q, disk[d])
    BY <1>2, <1>3, KeepsMoves, DiskReaches
  <1>5. /\ DOMAIN raft' = Server /\ DOMAIN disk' = Server /\ raft'[s] = r /\ raft'[d] = q
        /\ \A x \in Server \ {s, d} : raft'[x] = raft[x]
    BY <1>0, <1>1
  <1>6. \A x \in Server : Moves(x, raft'[x], disk'[x])
    BY <1>1, <1>4, <1>5, StaysMoves
  <1> QED BY <1>5, <1>6 DEF Step

\* A restart: whatever the file had lost, the votes that are known are kept.
LEMMA CrashStep ==
    ASSUME VoteInv, NEW s \in Server, Crash(s)
    PROVE  Step
  <1> DEFINE o == raft_open(s, disk[s])
             q == [o EXCEPT !.conns = raft[s].conns]
             r(x) == [raft[x] EXCEPT !.conns[s] = <<>>, !.snapping = @ \ {s}]
  <1>0. /\ Good(raft[s], disk[s]) /\ DOMAIN disk = Server
    BY ServerGood
  <1>1. /\ raft' = [x \in Server |-> IF x = s THEN q ELSE r(x)]
        /\ disk' = disk
    BY DEF Crash
  <1>2. DiskSound(disk[s]) /\ SoundQueues(raft[s].conns)
    BY <1>0 DEF Good
  <1>3. /\ Good(o, disk[s]) /\ o.sid = s
        /\ \A p \in Server \ {s} : Counted(o, p) = {}
        /\ "vote" \notin o.complaints
    BY <1>2, OpenGood
  <1> HIDE DEF o
  <1>4. DOMAIN o = Fields
    BY <1>3 DEF Good, IndexTypes
  <1>5. /\ SameIndexes(o, q) /\ SameElection(o, q) /\ SameLog(o, q) /\ q.waiters = o.waiters
        /\ q.complaints = o.complaints /\ q.conns = raft[s].conns
    BY <1>4 DEF Fields, SameIndexes, SameElection, SameLog
  <1> HIDE DEF q
  <1>6. IndexTypes(q) /\ VoteTypes(q) /\ LogSound(q) /\ TallySound(q)
    BY <1>3, <1>5 DEF Good, IndexTypes, SameIndexes, VoteTypes, SameElection, SameLog, LogSound,
                      TallySound
  <1>7. FileSound(q, disk[s]) /\ WaitersSound(q, disk[s])
    BY <1>3, <1>5 DEF Good, SameElection, SameLog, FileSound, WaitersSound
  <1>8. Good(q, disk[s])
    BY <1>2, <1>5, <1>6, <1>7 DEF Good
  <1>9. \A p \in Server \ {s} : Counted(q, p) = {}
    BY <1>3, <1>5, SameCounted, SMTT(60)
  <1>10. Moves(s, q, disk[s])
    BY <1>3, <1>5, <1>8, <1>9, SameReplies, DiskReaches DEF Moves, SameElection
  <1>11. ASSUME NEW x \in Server PROVE Moves(x, r(x), disk[x])
    <2> DEFINE S == raft[x].snapping \ {s}
    <2>1. r(x) = [raft[x] EXCEPT !.conns[s] = <<>>, !.snapping = S]
      BY ServerGood DEF Fields
    <2> HIDE DEF S
    <2>2. Keeps(raft[x], r(x), disk[x])
      BY <2>1, ServerGood, EmptyConn, ConnKeeps
    <2> HIDE DEF r
    <2> QED BY <2>2, KeepsMoves, DiskReaches
  <1> HIDE DEF r
  <1>12. \A x \in Server : raft'[x] = IF x = s THEN q ELSE r(x)
    BY <1>1
  <1>13. \A x \in Server : Moves(x, raft'[x], disk'[x])
    BY <1>1, <1>10, <1>11, <1>12
  <1> QED BY <1>0, <1>1, <1>13 DEF Step

\* Every step is one of this kind.
LEMMA NextStep ==
    ASSUME VoteInv, [Next]_vars
    PROVE  Step
  <1>1. CASE UNCHANGED vars
    BY <1>1, ServerGood, ServerAssumption, StaysMoves DEF vars, Step
  <1>2. ASSUME NEW s \in Server,
               \/ LeaderTimeout(s) \/ ElectionTimeout(s) \/ Ping(s)
               \/ (\E v \in Value : Command(s, v)) \/ LogSync(s) \/ WaitersRun(s)
               \/ NextEntry(s) \/ StoreSnapshot(s) \/ Crash(s)
        PROVE  Step
    BY <1>2, TimeoutSteps, LeaderSteps, DiskSteps, CrashStep
  <1>3. ASSUME NEW s \in Server, NEW d \in Server,
               \/ TransferLeadership(s, d) \/ HandleVoteRequest(s, d) \/ HandleVoteReply(s, d)
               \/ HandleAppendRequest(s, d) \/ HandleAppendReply(s, d)
               \/ HandleInstallSnapshotRequest(s, d) \/ HandleInstallSnapshotReply(s, d)
               \/ HandleBecomeLeader(s, d) \/ RejectStale(s, d) \/ Disconnect(s, d)
               \/ Overtake(s, d)
        PROVE  Step
    BY <1>3, TransferStep, VoteRequestStep, VoteReplyStep, AppendSteps, InstallSnapshotStep,
       RejectStep, DisconnectStep, OvertakeStep
  <1> QED BY <1>1, <1>2, <1>3 DEF Next

---------------------------------------------------------------------------
(* The theorems.                                                           *)

INSTANCE FiniteSetTheorems

\* The cardinality of the voters that raft_accept_vote() counts.
LEMMA NumberedIs ==
    ASSUME NEW S, NEW n \in Nat, Numbered(S, n)
    PROVE  Cardinality(S) = n
  <1>1. ExistsBijection(1 .. n, S)
    BY DEF Numbered, ExistsBijection, Bijection, Injection, Surjection, IsInjective
  <1> QED BY <1>1, FS_CountingElements

\* All servers open the file of a new cluster.
LEMMA InitInv ==
    ASSUME Init
    PROVE  VoteInv
  <1>0. DiskSound(InitDisk)
    <2>1. N \in Nat
      BY ServerAssumption, FS_CardinalityType DEF N
    <2>2. FirstIndex \in Int
      BY <2>1, SMTT(60) DEF FirstIndex
    <2> HIDE DEF N, FirstIndex
    <2> QED BY <2>2, SMTT(60) DEF InitDisk, DiskSound, DiskFields, LogSound, Sid
  <1>1. \A s \in Server : raft[s] = raft_open(s, InitDisk) /\ disk[s] = InitDisk
    BY DEF Init
  <1>2. InitDisk.vote = Zero
    BY DEF InitDisk
  <1>3. \A s \in Server : /\ Good(raft[s], disk[s]) /\ raft[s].sid = s
                          /\ Replies(raft[s]) = {}
                          /\ \A p \in Server \ {s} : Counted(raft[s], p) = {}
    BY <1>0, <1>1, <1>2, OpenGood, SMTT(60)
  <1>4. \A p \in Server : Announced(p) = {}
    BY <1>3 DEF Announced
  <1>5. DOMAIN raft = Server /\ DOMAIN disk = Server
    BY DEF Init
  <1> QED BY <1>3, <1>4, <1>5 DEF VoteInv, VotesAgree

\* The inductive invariant holds in every reachable state, for any number of
\* servers, any bounds and any number of crashes: what raft_send_at() defers,
\* what is synced and what raft_open() restores always agree about votes.
THEOREM VoteInvariant == Spec => []VoteInv
  <1>1. Init => VoteInv
    BY InitInv
  <1>2. VoteInv /\ [Next]_vars => VoteInv'
    BY NextStep, StepInv
  <1> QED BY <1>1, <1>2, PTL DEF Spec

\* Two majorities share a server.
LEMMA Majorities ==
    ASSUME NEW S, NEW D, S \subseteq Server, D \subseteq Server,
           Cardinality(S) > N \div 2, Cardinality(D) > N \div 2
    PROVE  \E p \in Server : p \in S /\ p \in D
  <1>1. IsFiniteSet(Server) /\ N \in Nat
    BY ServerAssumption, FS_CardinalityType DEF N
  <1>2. IsFiniteSet(S) /\ IsFiniteSet(D)
    BY <1>1, FS_Subset
  <1>3. Cardinality(S) \in Nat /\ Cardinality(D) \in Nat
    BY <1>2, FS_CardinalityType
  <1>4. Cardinality(S) + Cardinality(D) > Cardinality(Server)
    <2>1. N < 2 * (N \div 2) + 2 /\ N \div 2 \in Nat
      BY <1>1, SMTT(60)
    <2>2. Cardinality(S) + Cardinality(D) > N
      BY <1>1, <1>3, <2>1, SMTT(60)
    <2> QED BY <2>2 DEF N
  <1>5. S \cap D # {}
    BY <1>1, <1>4, FS_MajoritiesIntersect
  <1> QED BY <1>5

\* The voters of a leader.
LEMMA LeaderVoters ==
    ASSUME VoteInv, NEW s \in Server, raft[s].role = "LEADER",
           NEW S, S = {p \in Server : raft[s].svote[p] = s}
    PROVE  /\ Cardinality(S) > N \div 2 /\ raft[s].vote = s
           /\ \A p \in S \ {s} : <<raft[s].term, s>> \in Announced(p)
  <1>1. raft[s].sid = s /\ TallySound(raft[s]) /\ raft[s].n_votes \in Nat
    BY ServerGood DEF Good, VoteTypes
  <1>2. S = {p \in Server : raft[s].svote[p] = raft[s].sid}
    BY <1>1
  <1>3. Cardinality(S) > N \div 2 /\ raft[s].vote = s
    BY <1>1, <1>2, NumberedIs DEF TallySound
  <1>4. s # Zero
    BY ServerAssumption
  <1>5. \A p \in S \ {s} : <<raft[s].term, s>> \in Announced(p)
    BY <1>4 DEF Announced, Counted
  <1> QED BY <1>3, <1>5

\* Two majorities share a voter, who has voted once.
LEMMA VoteInvElects ==
    ASSUME VoteInv
    PROVE  ElectionSafety
  <1> SUFFICES ASSUME NEW s \in Server, NEW d \in Server, raft[s].role = "LEADER",
                      raft[d].role = "LEADER", raft[s].term = raft[d].term, s # d
               PROVE  FALSE
    BY DEF ElectionSafety
  <1> DEFINE t == raft[s].term
             S == {p \in Server : raft[s].svote[p] = s}
             D == {p \in Server : raft[d].svote[p] = d}
  <1>1. Cardinality(S) > N \div 2 /\ raft[s].vote = s
    BY LeaderVoters
  <1>2. Cardinality(D) > N \div 2 /\ raft[d].vote = d
    BY LeaderVoters
  <1>3. \A p \in S \ {s} : <<t, s>> \in Announced(p)
    BY LeaderVoters
  <1>4. \A p \in D \ {d} : <<t, d>> \in Announced(p)
    BY LeaderVoters
  <1>5. S \subseteq Server /\ D \subseteq Server
    OBVIOUS
  <1> HIDE DEF S, D
  <1>6. PICK p \in Server : p \in S /\ p \in D
    BY <1>1, <1>2, <1>5, Majorities
  <1>7. Zero \notin Server
    BY ServerAssumption
  <1>8. p # s => <<t, s>> \in Announced(p)
    BY <1>3, <1>6
  <1>9. p # d => <<t, d>> \in Announced(p)
    BY <1>4, <1>6
  <1>10. ASSUME NEW x \in Server, NEW v \in Server, <<t, v>> \in Announced(x),
                raft[x].term = t, raft[x].vote = x
         PROVE  v = x
    <2>1. DurableVote(x, t, v)
      <3>1. \A a \in Announced(x) : DurableVote(x, a[1], a[2])
        BY DEF VoteInv, VotesAgree
      <3> QED BY <1>10, <3>1
    <2>2. Reaches(disk[x].term, disk[x].vote, t, x) /\ disk[x].term \in Nat /\ t \in Nat
      BY <1>10, ServerGood DEF Good, FileSound
    <2> QED BY <1>7, <2>1, <2>2, SMTT(60) DEF DurableVote, Reaches
  <1>11. CASE p = s
    BY <1>1, <1>9, <1>10, <1>11
  <1>12. CASE p = d
    BY <1>2, <1>8, <1>10, <1>12
  <1>13. CASE p # s /\ p # d
    <2>1. \A a, b \in Announced(p) : a[1] = b[1] => a[2] = b[2]
      BY DEF VoteInv, VotesAgree
    <2> QED BY <1>8, <1>9, <1>13, <2>1
  <1> QED BY <1>11, <1>12, <1>13

\* At most one leader a term: two majorities of svote have a voter in common,
\* whose two votes were announced, hence durable and equal.
THEOREM ElectionSafetyHolds == Spec => []ElectionSafety
  BY VoteInvariant, VoteInvElects, PTL

\* No VOTE_REPLY is on its way whose vote a crash of the voter could undo:
\* raft_is_rpc_synced() and raft_waiter_complete() hold replies back long enough.
THEOREM AnnouncedVotesDurableHolds == Spec => []AnnouncedVotesDurable
  <1>1. ASSUME VoteInv PROVE AnnouncedVotesDurable
    <2> SUFFICES ASSUME NEW s \in Server, NEW d \in Server, NEW i \in DOMAIN raft[s].conns[d],
                        raft[s].conns[d][i].type = "VOTE_REPLY"
                 PROVE  DurableVote(s, raft[s].conns[d][i].term, raft[s].conns[d][i].vote)
      BY DEF AnnouncedVotesDurable
    <2> DEFINE m == raft[s].conns[d][i]
               a == <<m.term, m.vote>>
    <2>1. m \in Elems(raft[s].conns[d])
      BY DEF Elems
    <2> HIDE DEF m
    <2>2. a \in Replies(raft[s])
      BY <2>1, InReplies DEF m
    <2>3. a \in Announced(s)
      BY <2>2 DEF Announced
    <2>4. \A b \in Announced(s) : DurableVote(s, b[1], b[2])
      BY <1>1 DEF VoteInv, VotesAgree
    <2>5. DurableVote(s, m.term, m.vote)
      BY <2>3, <2>4
    <2> QED BY <2>5 DEF m
  <1> QED BY <1>1, VoteInvariant, PTL

\* raft_accept_vote() counts each voter once, and only votes of this term.
THEOREM VotesCountedHolds == Spec => []VotesCounted
  <1>1. ASSUME VoteInv PROVE VotesCounted
    <2>1. \A s \in Server : raft[s].sid = s /\ TallySound(raft[s]) /\ raft[s].n_votes \in Nat
      BY <1>1, ServerGood DEF Good, VoteTypes
    <2> SUFFICES ASSUME NEW s \in Server, raft[s].role # "FOLLOWER"
                 PROVE  raft[s].n_votes = Cardinality({p \in Server : raft[s].svote[p] = s})
      BY DEF VotesCounted
    <2>2. {p \in Server : raft[s].svote[p] = s} = {p \in Server : raft[s].svote[p] = raft[s].sid}
      BY <2>1
    <2>3. raft[s].n_votes = Cardinality({p \in Server : raft[s].svote[p] = raft[s].sid})
      BY <2>1, NumberedIs DEF TallySound
    <2> QED BY <2>2, <2>3
  <1> QED BY <1>1, VoteInvariant, PTL

\* raft_accept_vote() never has to warn that a server "changed its vote".
THEOREM VotesKeptHolds == Spec => []VotesKept
  <1>1. Init => VotesKept
    <2> SUFFICES ASSUME Init PROVE VotesKept
      OBVIOUS
    <2>1. VoteInv
      BY InitInv
    <2>2. \A s \in Server : raft[s] = raft_open(s, disk[s]) /\ DiskSound(disk[s])
      BY <2>1, ServerGood DEF Init, Good
    <2> QED BY <2>2, OpenGood DEF VotesKept
  <1>2. VoteInv /\ VotesKept /\ [Next]_vars => VotesKept'
    BY NextStep DEF Step, Moves, VotesKept
  <1> QED BY <1>1, <1>2, VoteInvariant, PTL DEF Spec

\* The term and vote on disk only ever move forward: syncs, snapshots and
\* restarts never take back a vote.
THEOREM DurableStateKeptHolds == Spec => DurableStateKept
  <1> DEFINE Forward == \A s \in Server :
                 /\ disk'[s].term >= disk[s].term
                 /\ (disk'[s].term = disk[s].term /\ disk[s].vote # Zero)
                        => disk'[s].vote = disk[s].vote
  <1>1. VoteInv /\ [Next]_vars => [Forward]_vars
    <2> SUFFICES ASSUME VoteInv, [Next]_vars, NEW s \in Server
                 PROVE  /\ disk'[s].term >= disk[s].term
                        /\ (disk'[s].term = disk[s].term /\ disk[s].vote # Zero)
                               => disk'[s].vote = disk[s].vote
      OBVIOUS
    <2>1. Reaches(disk[s].term, disk[s].vote, disk'[s].term, disk'[s].vote)
      BY NextStep DEF Step, Moves
    <2>2. disk[s].term \in Nat /\ disk'[s].term \in Nat
      BY NextStep, ServerGood DEF Step, Moves, Good, DiskSound
    <2> QED BY <2>1, <2>2, SMTT(60) DEF Reaches
  <1>2. Spec => [][Forward]_vars
    BY <1>1, VoteInvariant, PTL DEF Spec
  <1> QED BY <1>2 DEF DurableStateKept
=============================================================================
