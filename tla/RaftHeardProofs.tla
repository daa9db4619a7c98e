-------------------------- MODULE RaftHeardProofs --------------------------
(***************************************************************************)
(* HeardInv is an invariant of Raft, for every number of servers and every *)
(* bound, and with it no server hears of two leaders of a term.            *)
(***************************************************************************)
EXTENDS RaftVotesProofs, RaftServeProofs

\* A leaf that names no prover is tried with Zenon and then with SMT.
USE ZenonT(30), SMTT(120), ZenonT(120)

---------------------------------------------------------------------------
(* What an election leaves behind.                                         *)

\* A majority stays one when it grows.
LEMMA MajorityGrows ==
    ASSUME NEW S, NEW D, S \subseteq D, D \subseteq Server, Cardinality(S) > N \div 2
    PROVE  Cardinality(D) > N \div 2
  <1>1. IsFiniteSet(D) /\ N \in Nat
    BY ServerAssumption, FS_CardinalityType, FS_Subset DEF N
  <1>2. Cardinality(S) <= Cardinality(D) /\ IsFiniteSet(S)
    BY <1>1, FS_Subset
  <1>3. Cardinality(S) \in Nat /\ Cardinality(D) \in Nat /\ N \div 2 \in Int
    BY <1>1, <1>2, FS_CardinalityType, SMTT(60)
  <1> QED BY <1>2, <1>3, SMTT(60)

\* What is known of the votes of one server.
LEMMA VotesKnown ==
    ASSUME VoteInv, NEW p \in Server
    PROVE  /\ \A a, b \in Announced(p) : a[1] = b[1] => a[2] = b[2]
           /\ \A a \in Announced(p) : DurableVote(p, a[1], a[2])
  <1>1. \A a, b \in Announced(p) : /\ a[1] = b[1] => a[2] = b[2]
                                   /\ DurableVote(p, a[1], a[2])
    BY DEF VoteInv, VotesAgree
  <1> QED BY <1>1

\* The terms of one server, on disk and in memory.
LEMMA TermsOrdered ==
    ASSUME VoteInv, NEW s \in Server
    PROVE  /\ raft[s].term \in Nat /\ disk[s].term \in Nat /\ raft[s].synced_term \in Nat
           /\ Reaches(raft[s].synced_term, raft[s].synced_vote, disk[s].term, disk[s].vote)
           /\ Reaches(disk[s].term, disk[s].vote, raft[s].term, raft[s].vote)
  BY ServerGood DEF Good, VoteTypes, FileSound

LeadersSound == \A s \in Server : LeaderSound(raft[s], disk[s])

LedElected == \A s \in Server : \A t \in Voice(raft[s]) : Elected(t, s)
ElectedLed == \A s, l \in Server : (raft[s].role = "LEADER" /\ Elected(raft[s].term, l)) => s = l

\* A leader that may announce itself has been elected for good: its own vote is
\* on disk, and those of the others were announced.
LEMMA LeaderElected == VoteInv /\ LeadersSound => LedElected
  <1> SUFFICES ASSUME VoteInv, LeadersSound, NEW s \in Server, raft[s].role = "LEADER",
                      raft[s].term <= raft[s].synced_term
               PROVE  Elected(raft[s].term, s)
    BY DEF LedElected, Voice
  <1> DEFINE t == raft[s].term
             S == {p \in Server : raft[s].svote[p] = s}
  <1>1. /\ Cardinality(S) > N \div 2 /\ raft[s].vote = s
        /\ \A p \in S \ {s} : <<t, s>> \in Announced(p)
    BY LeaderVoters
  <1>2. disk[s].term = t
    BY TermsOrdered, SMTT(60) DEF Reaches
  <1>3. disk[s].vote = s
    <2>1. LeaderSound(raft[s], disk[s]) /\ raft[s].sid = s
      BY ServerGood DEF LeadersSound
    <2> QED BY <1>2, <2>1 DEF LeaderSound
  <1>4. Closed(s, t, s)
    <2>1. DurableVote(s, t, s)
      BY <1>2, <1>3 DEF DurableVote
    <2>2. ASSUME NEW a \in Announced(s), a[1] = t PROVE a[2] = s
      <3>1. DurableVote(s, a[1], a[2]) /\ t \in Nat
        BY VotesKnown, TermsOrdered
      <3> QED BY <1>2, <1>3, <2>2, <3>1, SMTT(60) DEF DurableVote
    <2> QED BY <2>1, <2>2 DEF Closed
  <1>5. ASSUME NEW p \in S \ {s} PROVE Closed(p, t, s)
    <2> DEFINE b == <<t, s>>
    <2>1. b \in Announced(p) /\ p \in Server /\ b[1] = t /\ b[2] = s
      BY <1>1
    <2> HIDE DEF b
    <2>2. DurableVote(p, t, s) /\ \A a \in Announced(p) : a[1] = t => a[2] = s
      BY <2>1, VotesKnown, SMTT(60)
    <2> QED BY <2>2 DEF Closed
  <1>6. S \subseteq {p \in Server : Closed(p, t, s)}
    BY <1>4, <1>5
  <1> HIDE DEF S, t
  <1>7. Cardinality({p \in Server : Closed(p, t, s)}) > N \div 2
    BY <1>1, <1>6, MajorityGrows
  <1> QED BY <1>7 DEF Elected, t

\* Nobody else leads in the term of an election.
LEMMA ElectedLeader == VoteInv => ElectedLed
  <1> SUFFICES ASSUME VoteInv, NEW s \in Server, NEW l \in Server, raft[s].role = "LEADER",
                      Elected(raft[s].term, l)
               PROVE  s = l
    BY DEF ElectedLed
  <1> DEFINE t == raft[s].term
             S == {p \in Server : raft[s].svote[p] = s}
             D == {p \in Server : Closed(p, t, l)}
  <1>1. /\ Cardinality(S) > N \div 2 /\ raft[s].vote = s
        /\ \A p \in S \ {s} : <<t, s>> \in Announced(p)
    BY LeaderVoters
  <1>2. Cardinality(D) > N \div 2
    BY DEF Elected
  <1>3. S \subseteq Server /\ D \subseteq Server
    OBVIOUS
  <1>4. PICK p \in Server : p \in S /\ p \in D
    <2> HIDE DEF S, D
    <2> QED BY <1>1, <1>2, <1>3, Majorities
  <1>5. Closed(p, t, l)
    BY <1>4
  <1>6. CASE p = s
    <2>1. DurableVote(s, t, l)
      BY <1>5, <1>6 DEF Closed
    <2>2. l # Zero
      BY ServerAssumption
    <2> QED BY <1>1, <2>1, <2>2, TermsOrdered, SMTT(60) DEF DurableVote, Reaches
  <1>7. CASE p # s
    <2> DEFINE b == <<t, s>>
    <2>1. b \in Announced(p) /\ b[1] = t /\ b[2] = s
      BY <1>1, <1>4, <1>7
    <2> HIDE DEF b
    <2> QED BY <1>5, <2>1 DEF Closed
  <1> QED BY <1>6, <1>7

\* The same for one server.
LEMMA ElectedLeads ==
    ASSUME VoteInv, NEW s \in Server, NEW l \in Server, raft[s].role = "LEADER",
           Elected(raft[s].term, l)
    PROVE  s = l
  BY ElectedLeader DEF ElectedLed

\* After a step, too.
LEMMA LaterElected == VoteInv' /\ LeadersSound' => LedElected'
  BY LeaderElected, PTL
LEMMA LaterLeader == VoteInv' => ElectedLed'
  BY ElectedLeader, PTL

\* A vote that cannot change does not change in a step.
LEMMA ClosedKept ==
    ASSUME VoteInv, Step, NEW p \in Server, NEW t \in Nat, NEW l \in Server, Closed(p, t, l)
    PROVE  Closed(p, t, l)'
  <1> DEFINE d == disk[p]
             e == disk'[p]
  <1>1. /\ Reaches(d.term, d.vote, e.term, e.vote) /\ d.term \in Nat /\ e.term \in Nat
        /\ l # Zero
    BY ServerGood, ServerAssumption DEF Step, Moves, Good, DiskSound
  <1>2. d.term > t \/ (d.term = t /\ d.vote = l)
    BY DEF Closed, DurableVote
  <1>3. e.term > t \/ (e.term = t /\ e.vote = l)
    <2> HIDE DEF d, e
    <2> QED BY <1>1, <1>2, SMTT(60) DEF Reaches
  <1>4. ASSUME NEW a \in Announced(p)', a[1] = t PROVE a[2] = l
    <2>1. a \in Announced(p) \/ a = <<e.term, e.vote>>
      BY <1>4, NewAnnounced
    <2>2. CASE a \in Announced(p)
      BY <1>4, <2>2 DEF Closed
    <2>3. CASE a = <<e.term, e.vote>>
      <3> HIDE DEF d, e
      <3> QED BY <1>1, <1>3, <1>4, <2>3, SMTT(60)
    <2> QED BY <2>1, <2>2, <2>3
  <1>5. DurableVote(p, t, l)'
    BY <1>3 DEF DurableVote
  <1> QED BY <1>4, <1>5 DEF Closed

\* An election lasts.
LEMMA ElectedKept ==
    ASSUME VoteInv, Step, NEW t \in Nat, NEW l \in Server, Elected(t, l)
    PROVE  Elected(t, l)'
  <1> DEFINE S == {p \in Server : Closed(p, t, l)}
             D == {p \in Server : Closed(p, t, l)'}
  <1>1. S \subseteq D /\ D \subseteq Server
    BY ClosedKept
  <1>2. Cardinality(S) > N \div 2
    BY DEF Elected
  <1>3. Elected(t, l)' <=> Cardinality(D) > N \div 2
    BY DEF Elected
  <1> HIDE DEF S, D
  <1> QED BY <1>1, <1>2, <1>3, MajorityGrows

\* What comes after raft_receive_term__().
LEMMA ReceiveTermThen ==
    ASSUME NEW r, NEW d, Good(r, d), LeaderSound(r, d), NEW t \in Nat, t >= r.term,
           NEW q, NEW e, NEW L, Heeds(raft_receive_term(r, t), q, e, L)
    PROVE  Heeds(r, q, e, L)
  <1> DEFINE x == raft_receive_term(r, t)
  <1>1. Heeds(r, x, d, {}) /\ (x = r \/ (x.role = "FOLLOWER" /\ x.leader_sid = Zero))
    BY ReceiveTermHeeds
  <1>2. Heeds(x, q, e, L)
    OBVIOUS
  <1> HIDE DEF x
  <1>3. CASE x = r
    BY <1>2, <1>3
  <1>4. CASE x.role = "FOLLOWER"
    <2>1. Heeds(r, x, d, L)
      BY <1>1, HeedsMore, SMTT(60)
    <2>2. Voice(x) = {}
      BY <1>4 DEF Voice
    <2> QED BY <1>2, <2>1, <2>2, HeedsTrans
  <1> QED BY <1>1, <1>3, <1>4

---------------------------------------------------------------------------
(* Steps of the cluster.                                                   *)

\* Server s may go to state q with disk e: it takes for leader only a server that
\* has told it to be leader in this term.
Tellers(q) == {l \in Server : q.term \in Told(raft[l])}
Follows(s, q, e) == Heeds(raft[s], q, e, Tellers(q))

HeardStep == \A s \in Server : Follows(s, raft'[s], disk'[s])

\* What HeardInv says of one server.
LEMMA ServerSound ==
    ASSUME HeardInv, NEW s \in Server
    PROVE  LeaderSound(raft[s], disk[s])
  BY DEF HeardInv

\* A server that needs nobody to tell it.
LEMMA HeedsFollows ==
    ASSUME NEW s \in Server, NEW q, NEW e, Heeds(raft[s], q, e, {})
    PROVE  Follows(s, q, e)
  BY HeedsMore, SMTT(60) DEF Follows

\* A server that keeps its office.
LEMMA ServesFollows ==
    ASSUME HeardInv, NEW s \in Server, NEW q, Serves(raft[s], q)
    PROVE  Follows(s, q, disk[s])
  BY ServerSound, ServesStays, HeedsFollows

\* A server that does nothing.
LEMMA StaysFollows ==
    ASSUME HeardInv, NEW s \in Server
    PROVE  Follows(s, raft[s], disk[s])
  BY ServesRefl, ServesFollows

\* One server changes on its own.
LEMMA LocalFollows ==
    ASSUME VoteInv, HeardInv, NEW s \in Server, NEW q, NEW e, Follows(s, q, e),
           raft' = [raft EXCEPT ![s] = q], DiskStep(s, e)
    PROVE  HeardStep
  <1>1. raft'[s] = q /\ disk'[s] = e
    BY ServerGood DEF DiskStep
  <1>2. \A x \in Server \ {s} : raft'[x] = raft[x] /\ disk'[x] = disk[x]
    BY ServerGood DEF DiskStep
  <1>3. \A x \in Server : Follows(x, raft'[x], disk'[x])
    BY <1>1, <1>2, StaysFollows
  <1> QED BY <1>3 DEF HeardStep

\* One server changes on its own, its disk does not.
LEMMA LocalHeeds ==
    ASSUME VoteInv, HeardInv, NEW s \in Server, NEW q, Heeds(raft[s], q, disk[s], {}),
           raft' = [raft EXCEPT ![s] = q], disk' = disk
    PROVE  HeardStep
  <1>1. DiskStep(s, disk[s])
    BY ServerGood DEF DiskStep
  <1>2. Follows(s, q, disk[s])
    BY HeedsFollows
  <1> QED BY <1>1, <1>2, LocalFollows

\* The same, with an office that is kept.
LEMMA LocalServes ==
    ASSUME VoteInv, HeardInv, NEW s \in Server, NEW q, Serves(raft[s], q),
           raft' = [raft EXCEPT ![s] = q], disk' = disk
    PROVE  HeardStep
  <1>1. Heeds(raft[s], q, disk[s], {})
    BY ServerSound, ServesStays
  <1> QED BY <1>1, LocalHeeds

\* Server d receives the first RPC from s.
LEMMA ReceiveFollows ==
    ASSUME VoteInv, HeardInv, NEW s \in Server, NEW d \in Server, s # d,
           raft[s].conns[d] # <<>>, NEW q, NEW e, Follows(d, q, e),
           Receive(s, d, q), DiskStep(d, e)
    PROVE  HeardStep
  <1> DEFINE c == Tail(raft[s].conns[d])
             r == [raft[s] EXCEPT !.conns[d] = c]
             S == {}
  <1>0. DOMAIN raft = Server /\ Good(raft[s], disk[s])
    BY ServerGood
  <1>1. raft' = [raft EXCEPT ![s] = r, ![d] = q]
    BY <1>0 DEF Receive
  <1>2. Elems(c) \subseteq Elems(raft[s].conns[d])
    BY ServerGood, TailElems
  <1> HIDE DEF c
  <1>3. Serves(raft[s], r)
    BY <1>0, <1>2, ConnServes
  <1> HIDE DEF r
  <1>4. Follows(s, r, disk[s])
    BY <1>3, ServesFollows
  <1>5. /\ raft'[s] = r /\ raft'[d] = q /\ disk'[s] = disk[s] /\ disk'[d] = e
        /\ \A x \in Server \ {s, d} : raft'[x] = raft[x] /\ disk'[x] = disk[x]
    BY <1>0, <1>1 DEF DiskStep
  <1>6. \A x \in Server : Follows(x, raft'[x], disk'[x])
    BY <1>4, <1>5, StaysFollows
  <1> QED BY <1>6 DEF HeardStep

\* A server receives an RPC that is no claim, with a term that is not stale.
LEMMA RpcHeeds ==
    ASSUME VoteInv, HeardInv, NEW s \in Server, NEW d \in Server, s # d,
           raft[s].conns[d] # <<>>, Rpc(s, d).term >= raft[d].term, NEW q, NEW e,
           Heeds(raft_receive_term(raft[d], Rpc(s, d).term), q, e, {}),
           Receive(s, d, q), DiskStep(d, e)
    PROVE  HeardStep
  <1>1. Good(raft[d], disk[d]) /\ LeaderSound(raft[d], disk[d]) /\ Rpc(s, d).term \in Nat
    BY ServerGood, ServerSound, RpcSound
  <1>2. Heeds(raft[d], q, e, {})
    BY <1>1, ReceiveTermThen
  <1>3. Follows(d, q, e)
    BY <1>2, HeedsFollows
  <1> QED BY <1>3, ReceiveFollows

\* The term that comes with it leaves a sound server.
LEMMA RpcTermSound ==
    ASSUME VoteInv, HeardInv, NEW s \in Server, NEW d \in Server,
           raft[s].conns[d] # <<>>, Rpc(s, d).term >= raft[d].term,
           NEW r, r = raft_receive_term(raft[d], Rpc(s, d).term)
    PROVE  /\ Good(r, disk[d]) /\ LeaderSound(r, disk[d]) /\ r.term = Rpc(s, d).term
           /\ r.sid = d
           /\ r = raft[d] \/ (r.role = "FOLLOWER" /\ r.leader_sid = Zero)
  <1>1. /\ Good(raft[d], disk[d]) /\ LeaderSound(raft[d], disk[d]) /\ Rpc(s, d).term \in Nat
        /\ raft[d].sid = d
    BY ServerGood, ServerSound, RpcSound, SMTT(60)
  <1>2. /\ Heeds(raft[d], r, disk[d], {})
        /\ r = raft[d] \/ (r.role = "FOLLOWER" /\ r.leader_sid = Zero)
    BY <1>1, ReceiveTermHeeds
  <1>3. Good(r, disk[d]) /\ r.term = Rpc(s, d).term
    BY RpcTermKeeps
  <1> QED BY <1>1, <1>2, <1>3 DEF Heeds

---------------------------------------------------------------------------
(* The actions.                                                            *)

\* The election timer of raft_run(), at a leader and elsewhere.
LEMMA TimeoutsHeard ==
    ASSUME VoteInv, HeardInv, NEW s \in Server, LeaderTimeout(s) \/ ElectionTimeout(s)
    PROVE  HeardStep
  <1> DEFINE r == raft[s]
             r1 == raft_become_follower(r)
  <1>0. Good(r, disk[s]) /\ LeaderSound(r, disk[s])
    BY ServerGood, ServerSound
  <1>1. PICK q : /\ q \in {[r EXCEPT !.replied = {}], raft_start_election(r1, FALSE),
                           raft_start_election(r, FALSE)}
                 /\ raft' = [raft EXCEPT ![s] = q] /\ disk' = disk
    BY DEF LeaderTimeout, ElectionTimeout, Local
  <1>2. /\ Heeds(r, raft_start_election(r, FALSE), disk[s], {})
        /\ Heeds(r, raft_start_election(r1, FALSE), disk[s], {})
    BY <1>0, TimeoutHeeds
  <1> HIDE DEF r1
  <1>3. CASE q = [r EXCEPT !.replied = {}]
    <2>1. Serves(r, q)
      BY <1>0, <1>3, IndexesServe
    <2> QED BY <1>1, <2>1, LocalServes
  <1>4. CASE q # [r EXCEPT !.replied = {}]
    <2>1. Heeds(r, q, disk[s], {})
      BY <1>1, <1>2, <1>4
    <2> QED BY <1>1, <2>1, LocalHeeds
  <1> QED BY <1>3, <1>4

\* Heartbeats, commands, completed waiters and reads of the client.
LEMMA LeadersHeard ==
    ASSUME VoteInv, HeardInv, NEW s \in Server,
           Ping(s) \/ (\E v \in Value : Command(s, v)) \/ WaitersRun(s) \/ NextEntry(s)
    PROVE  HeardStep
  <1>0. Good(raft[s], disk[s]) /\ LeaderSound(raft[s], disk[s])
    BY ServerGood, ServerSound
  <1>1. CASE Ping(s)
    BY <1>0, <1>1, SendHeartbeatsServes, LocalServes DEF Ping, Local
  <1>2. ASSUME NEW v \in Value, Command(s, v) PROVE HeardStep
    BY <1>0, <1>2, CommandInitiateServes, LocalServes DEF Command, Local, Data
  <1>3. CASE WaitersRun(s)
    BY <1>0, <1>3, WaiterCompleteHeeds, LocalHeeds DEF WaitersRun, Local
  <1>4. CASE NextEntry(s)
    BY <1>0, <1>4, NextEntryServes, LocalServes DEF NextEntry, Local
  <1> QED BY <1>1, <1>2, <1>3, <1>4

\* The fsync thread and raft_store_snapshot(), which change the disk.
LEMMA DisksHeard ==
    ASSUME VoteInv, HeardInv, NEW s \in Server, LogSync(s) \/ StoreSnapshot(s)
    PROVE  HeardStep
  <1>0. Good(raft[s], disk[s]) /\ DOMAIN disk = Server /\ LeaderSound(raft[s], disk[s])
    BY ServerGood, ServerSound
  <1>1. CASE LogSync(s)
    <2> DEFINE q == Synced1(raft[s])
               e == raft_apply_record(disk[s], Head(raft[s].file))
    <2>1. raft[s].file # <<>> /\ raft' = [raft EXCEPT ![s] = q] /\ DiskStep(s, e)
      BY <1>0, <1>1 DEF LogSync, Local, DiskStep
    <2>2. Heeds(raft[s], q, e, {})
      BY <1>0, <2>1, SyncedHeeds
    <2> HIDE DEF q, e
    <2> QED BY <2>1, <2>2, HeedsFollows, LocalFollows
  <1>2. CASE StoreSnapshot(s)
    <2> DEFINE q == raft_store_snapshot(raft[s])
               e == raft_write_snapshot(q)
    <2>1. raft' = [raft EXCEPT ![s] = q] /\ DiskStep(s, e)
      BY <1>0, <1>2 DEF StoreSnapshot, Local, DiskStep
    <2>2. Heeds(raft[s], q, e, {})
      BY <1>0, StoreSnapshotServes, SnapshotHeeds
    <2> HIDE DEF q, e
    <2> QED BY <2>1, <2>2, HeedsFollows, LocalFollows
  <1> QED BY <1>1, <1>2

\* raft_handle_vote_request(), suppressed or not.
LEMMA VoteRequestHeard ==
    ASSUME VoteInv, HeardInv, NEW s \in Server, NEW d \in Server, HandleVoteRequest(s, d)
    PROVE  HeardStep
  <1> DEFINE m == Rpc(s, d)
             r1 == raft_receive_term(raft[d], m.term)
  <1>0. /\ Good(raft[d], disk[d]) /\ s # d /\ raft[s].conns[d] # <<>> /\ disk' = disk
        /\ LeaderSound(raft[d], disk[d]) /\ DOMAIN disk = Server
    BY ServerGood, ServerSound DEF HandleVoteRequest, HasRpc
  <1>1. DiskStep(d, disk[d])
    BY <1>0 DEF DiskStep
  <1>2. PICK r : /\ r = raft[d] \/ (m.term >= raft[d].term /\ r = r1)
                 /\ Receive(s, d, raft_handle_vote_request(r, s, m))
    BY DEF HandleVoteRequest
  <1> DEFINE q == raft_handle_vote_request(r, s, m)
  <1>3. CASE r = raft[d]
    <2>1. Heeds(raft[d], q, disk[d], {})
      BY <1>0, <1>3, HandleVoteRequestHeeds
    <2> HIDE DEF q
    <2>2. Follows(d, q, disk[d])
      BY <2>1, HeedsFollows
    <2> QED BY <1>0, <1>1, <1>2, <2>2, ReceiveFollows DEF q
  <1>4. CASE m.term >= raft[d].term /\ r = r1
    <2>1. Good(r1, disk[d]) /\ LeaderSound(r1, disk[d])
      BY <1>0, <1>4, RpcTermSound
    <2> HIDE DEF r1
    <2>2. Heeds(r1, q, disk[d], {})
      BY <1>4, <2>1, HandleVoteRequestHeeds
    <2> HIDE DEF q
    <2> QED BY <1>0, <1>1, <1>2, <1>4, <2>2, RpcHeeds DEF q, r1
  <1> QED BY <1>2, <1>3, <1>4

\* A vote that is counted may make a leader.
LEMMA VoteReplyHeard ==
    ASSUME VoteInv, HeardInv, NEW s \in Server, NEW d \in Server, HandleVoteReply(s, d)
    PROVE  HeardStep
  <1> DEFINE m == Rpc(s, d)
             r == raft_receive_term(raft[d], m.term)
             q == raft_handle_vote_reply(r, s, m)
  <1>0. /\ s # d /\ raft[s].conns[d] # <<>> /\ disk' = disk /\ m.type = "VOTE_REPLY"
        /\ m.term >= raft[d].term /\ Receive(s, d, q) /\ DOMAIN disk = Server
    BY ServerGood DEF HandleVoteReply, HasRpc, Rpc
  <1>1. DiskStep(d, disk[d])
    BY <1>0 DEF DiskStep
  <1>2. Good(r, disk[d]) /\ LeaderSound(r, disk[d])
    BY <1>0, RpcTermSound
  <1>3. m.vote \in Server
    BY <1>0, RpcSound DEF SoundRpc
  <1>4. r.role = "CANDIDATE" => r.svote[s] \in {Zero, m.vote}
    BY <1>0, VoteReplyAgrees
  <1>5. Heeds(r, q, disk[d], {})
    <2> HIDE DEF m, r
    <2> QED BY <1>2, <1>3, <1>4, AcceptVoteHeeds, HeedsRefl DEF raft_handle_vote_reply
  <1> HIDE DEF q
  <1> QED BY <1>0, <1>1, <1>5, RpcHeeds

\* A server that is told of a leader knows of no other one in that term: the
\* sender was elected, and so was whoever it takes for leader.
LEMMA AppendRequestHeard ==
    ASSUME VoteInv, HeardInv, NEW s \in Server, NEW d \in Server, HandleAppendRequest(s, d)
    PROVE  HeardStep
  <1> DEFINE m == Rpc(s, d)
             t == m.term
             r == raft_receive_term(raft[d], t)
             q == raft_handle_append_request(r, s, m)
  <1>0. /\ s # d /\ raft[s].conns[d] # <<>> /\ disk' = disk /\ m.type = "APPEND_REQUEST"
        /\ t >= raft[d].term /\ Receive(s, d, q) /\ DOMAIN disk = Server
        /\ Good(raft[d], disk[d]) /\ LeaderSound(raft[d], disk[d]) /\ raft[d].sid = d
    BY ServerGood, ServerSound DEF HandleAppendRequest, HasRpc, Rpc
  <1>1. SoundRpc(m) /\ t \in Nat /\ m \in Elems(raft[s].conns[d])
    BY <1>0, RpcSound
  <1>2. /\ Good(r, disk[d]) /\ LeaderSound(r, disk[d]) /\ r.term = t /\ r.sid = d
        /\ r = raft[d] \/ (r.role = "FOLLOWER" /\ r.leader_sid = Zero)
    BY <1>0, RpcTermSound, SMTT(60)
  <1> HIDE DEF m, r
  <1>3. t \in Told(raft[s])
    BY <1>0, <1>1, InClaims DEF Told
  <1>4. t \in Heard(s) /\ Elected(t, s)
    BY <1>3 DEF Heard, HeardInv
  <1>5. r.role # "LEADER"
    <2> SUFFICES ASSUME raft[d].role = "LEADER", raft[d].term = t PROVE FALSE
      BY <1>2
    <2> QED BY <1>0, <1>4, ElectedLeads
  <1>6. r.leader_sid \in {Zero, s}
    <2> SUFFICES ASSUME r = raft[d], raft[d].leader_sid # Zero PROVE raft[d].leader_sid = s
      BY <1>2
    <2> DEFINE k == raft[d].leader_sid
    <2>1. k \in Server
      BY <1>0 DEF LeaderSound, Sid
    <2>2. k # d
      BY <1>0, <1>5 DEF LeaderSound
    <2>3. t \in Heard(k)
      BY <1>2, <2>2 DEF Heard
    <2> HIDE DEF k
    <2> QED BY <1>4, <2>1, <2>3 DEF HeardInv, k
  <1>7. Heeds(r, q, disk[d], {s}) /\ q.term = r.term
    <2> DEFINE e == disk[d]
    <2>1. /\ Good(r, e) /\ LeaderSound(r, e) /\ s # r.sid /\ SoundRpc(m)
          /\ m.type = "APPEND_REQUEST" /\ m.term = r.term
          /\ r.role # "LEADER" /\ r.leader_sid \in {Zero, s}
      BY <1>0, <1>1, <1>2, <1>5, <1>6
    <2>2. q = raft_handle_append_request(r, s, m)
      OBVIOUS
    <2> HIDE DEF q, t, e
    <2>3. Heeds(r, q, e, {s}) /\ q.term = r.term
      BY <2>1, <2>2, HandleAppendRequestHeeds, SMTT(60)
    <2> QED BY <2>3 DEF e
  <1> HIDE DEF q
  <1>8. Heeds(raft[d], q, disk[d], {s})
    BY <1>0, <1>1, <1>7, ReceiveTermThen DEF r
  <1>9. {s} \subseteq Tellers(q)
    BY <1>2, <1>3, <1>7 DEF Tellers
  <1>10. Follows(d, q, disk[d])
    BY <1>8, <1>9, HeedsMore, SMTT(60) DEF Follows
  <1>11. DiskStep(d, disk[d])
    BY <1>0 DEF DiskStep
  <1> QED BY <1>0, <1>10, <1>11, ReceiveFollows

\* The other RPCs that do not change the disk.
LEMMA RepliesHeard ==
    ASSUME VoteInv, HeardInv, NEW s \in Server, NEW d \in Server,
           HandleAppendReply(s, d) \/ HandleInstallSnapshotReply(s, d) \/ HandleBecomeLeader(s, d)
    PROVE  HeardStep
  <1> DEFINE m == Rpc(s, d)
             r == raft_receive_term(raft[d], m.term)
  <1>0. /\ s # d /\ raft[s].conns[d] # <<>> /\ disk' = disk
        /\ m.term >= raft[d].term /\ DOMAIN disk = Server
    BY ServerGood DEF HandleAppendReply, HandleInstallSnapshotReply,
       HandleBecomeLeader, HasRpc
  <1>1. Good(r, disk[d]) /\ LeaderSound(r, disk[d])
    BY <1>0, RpcTermSound
  <1>2. SoundRpc(m) /\ DiskStep(d, disk[d])
    BY <1>0, RpcSound DEF DiskStep
  <1>3. ASSUME NEW q, Heeds(r, q, disk[d], {}), Receive(s, d, q) PROVE HeardStep
    BY <1>0, <1>2, <1>3, RpcHeeds
  <1>4. ASSUME NEW q, Serves(r, q), Receive(s, d, q) PROVE HeardStep
    BY <1>1, <1>3, <1>4, ServesStays
  <1>5. CASE HandleAppendReply(s, d)
    <2>1. m.type = "APPEND_REPLY" /\ Receive(s, d, raft_handle_append_reply(r, s, m))
      BY <1>5 DEF HandleAppendReply, HasRpc, Rpc
    <2> HIDE DEF m, r
    <2> QED BY <1>1, <1>2, <1>4, <2>1, HandleAppendReplyServes
  <1>6. CASE HandleInstallSnapshotReply(s, d)
    <2>1. Receive(s, d, raft_handle_install_snapshot_reply(r, s, m))
      BY <1>6 DEF HandleInstallSnapshotReply
    <2> HIDE DEF m, r
    <2> QED BY <1>1, <1>4, <2>1, HandleInstallSnapshotReplyServes
  <1>7. CASE HandleBecomeLeader(s, d)
    <2>1. Receive(s, d, IF r.role = "FOLLOWER" THEN raft_start_election(r, TRUE) ELSE r)
      BY <1>7 DEF HandleBecomeLeader
    <2> HIDE DEF m, r
    <2>2. Heeds(r, raft_start_election(r, TRUE), disk[d], {}) /\ Heeds(r, r, disk[d], {})
      BY <1>1, TimeoutHeeds, HeedsRefl
    <2> QED BY <1>3, <2>1, <2>2
  <1> QED BY <1>5, <1>6, <1>7

\* raft_handle_install_snapshot_request() and the file it writes.
LEMMA InstallSnapshotHeard ==
    ASSUME VoteInv, HeardInv, NEW s \in Server, NEW d \in Server,
           HandleInstallSnapshotRequest(s, d)
    PROVE  HeardStep
  <1> DEFINE m == Rpc(s, d)
             r == raft_receive_term(raft[d], m.term)
             q == raft_handle_install_snapshot_request(r, s, m)
             e == IF Installs(r, m) THEN raft_write_snapshot(q) ELSE disk[d]
  <1>0. /\ s # d /\ raft[s].conns[d] # <<>> /\ m.type = "INSTALL_SNAPSHOT_REQUEST"
        /\ m.term >= raft[d].term /\ Receive(s, d, q)
        /\ disk' = IF Installs(r, m) THEN [disk EXCEPT ![d] = raft_write_snapshot(q)] ELSE disk
    BY DEF HandleInstallSnapshotRequest, HasRpc, Rpc
  <1>1. Good(r, disk[d]) /\ LeaderSound(r, disk[d])
    BY <1>0, RpcTermSound
  <1>2. SoundRpc(m) /\ DOMAIN disk = Server
    BY <1>0, RpcSound, ServerGood
  <1> HIDE DEF m, r
  <1>3. Serves(r, q)
    BY <1>0, <1>1, <1>2, InstallSnapshotServes
  <1>4. DiskStep(d, e)
    BY <1>0, <1>2 DEF DiskStep
  <1> HIDE DEF q
  <1>5. Heeds(r, q, e, {})
    BY <1>1, <1>3, SnapshotHeeds, ServesStays
  <1> HIDE DEF e
  <1> QED BY <1>0, <1>4, <1>5, RpcHeeds DEF m, r

\* raft_handle_rpc() of a stale RPC.
LEMMA RejectHeard ==
    ASSUME VoteInv, HeardInv, NEW s \in Server, NEW d \in Server, RejectStale(s, d)
    PROVE  HeardStep
  <1> DEFINE m == Rpc(s, d)
             q == IF m.type = "APPEND_REQUEST"
                  THEN raft_send_append_reply(raft[d], s, m, "INCONSISTENCY") ELSE raft[d]
  <1>0. s # d /\ raft[s].conns[d] # <<>> /\ disk' = disk /\ Receive(s, d, q)
    BY DEF RejectStale
  <1>1. SoundRpc(m) /\ Good(raft[d], disk[d]) /\ DiskStep(d, disk[d])
    BY <1>0, RpcSound, ServerGood DEF DiskStep
  <1> HIDE DEF m
  <1>2. Serves(raft[d], q)
    BY <1>1, SendAppendReplyServes, ServesRefl
  <1> HIDE DEF q
  <1>3. Follows(d, q, disk[d])
    BY <1>2, ServesFollows
  <1> QED BY <1>0, <1>1, <1>3, ReceiveFollows

\* raft_transfer_leadership() and a connection that reorders what it carries.
LEMMA CarriedHeard ==
    ASSUME VoteInv, HeardInv, NEW s \in Server, NEW d \in Server,
           TransferLeadership(s, d) \/ Overtake(s, d)
    PROVE  HeardStep
  <1> DEFINE o == raft[s].conns[d]
             m == [type |-> "BECOME_LEADER", term |-> raft[s].term]
             q(c) == [raft[s] EXCEPT !.conns[d] = c]
  <1>0. /\ Good(raft[s], disk[s]) /\ IsSeq(o) /\ DOMAIN raft = Server
        /\ DOMAIN raft[s] = Fields /\ DOMAIN raft[s].conns = Server
    BY ServerGood
  <1>1. ASSUME NEW c, \A x \in Elems(c) : x \in Elems(o) \/ x.type # "APPEND_REQUEST",
               raft' = [raft EXCEPT ![s] = q(c)], disk' = disk
        PROVE  HeardStep
    <2>1. Serves(raft[s], q(c))
      BY <1>0, <1>1, ConnServes
    <2> HIDE DEF q
    <2> QED BY <1>1, <2>1, LocalServes
  <1>2. CASE TransferLeadership(s, d)
    <2> DEFINE c == Carry(o, <<m>>)
    <2>1. raft' = [raft EXCEPT ![s] = q(c)] /\ disk' = disk
      BY <1>0, <1>2 DEF TransferLeadership, Local, Fields
    <2>2. m.type # "APPEND_REQUEST"
      OBVIOUS
    <2> HIDE DEF m, o
    <2>3. Elems(c) \subseteq Elems(o) \cup {m}
      BY <1>0, SingletonElems, CarryElems
    <2> HIDE DEF c, q
    <2>4. \A x \in Elems(c) : x \in Elems(o) \/ x.type # "APPEND_REQUEST"
      BY <2>2, <2>3
    <2> QED BY <1>1, <2>1, <2>4
  <1>3. CASE Overtake(s, d)
    <2> DEFINE c == Append(Tail(o), Head(o))
    <2>1. raft' = [raft EXCEPT ![s] = q(c)] /\ disk' = disk /\ Len(o) > 1
      BY <1>0, <1>3 DEF Overtake
    <2>2. o # <<>>
      BY <2>1, SMTT(60)
    <2> HIDE DEF o
    <2>3. IsSeq(Tail(o)) /\ Elems(Tail(o)) \subseteq Elems(o) /\ Head(o) \in Elems(o)
      BY <1>0, <2>2, TailElems
    <2>4. Elems(c) \subseteq Elems(Tail(o)) \cup {Head(o)}
      BY <2>3, AppendElems
    <2> HIDE DEF c, q
    <2> QED BY <1>1, <2>1, <2>3, <2>4
  <1> QED BY <1>2, <1>3

\* A connection that breaks.
LEMMA DisconnectHeard ==
    ASSUME VoteInv, HeardInv, NEW s \in Server, NEW d \in Server, Disconnect(s, d)
    PROVE  HeardStep
  <1> DEFINE S == raft[s].snapping \ {d}
             D == raft[d].snapping \ {s}
             r == [raft[s] EXCEPT !.conns[d] = <<>>, !.snapping = S]
             q == [raft[d] EXCEPT !.snapping = D]
  <1>0. /\ Good(raft[s], disk[s]) /\ Good(raft[d], disk[d])
        /\ DOMAIN raft = Server /\ DOMAIN disk = Server
        /\ DOMAIN raft[s] = Fields /\ DOMAIN raft[d] = Fields
    BY ServerGood
  <1>1. raft' = [raft EXCEPT ![s] = r, ![d] = q] /\ disk' = disk /\ s # d
    BY <1>0 DEF Disconnect, Fields
  <1> HIDE DEF S, D
  <1>2. Serves(raft[s], r)
    BY <1>0, EmptyConn, ConnServes
  <1>3. Serves(raft[d], q)
    BY <1>0, IndexesServe
  <1> HIDE DEF r, q
  <1>4. Follows(s, r, disk[s]) /\ Follows(d, q, disk[d])
    BY <1>2, <1>3, ServesFollows
  <1>5. /\ raft'[s] = r /\ raft'[d] = q
        /\ \A x \in Server \ {s, d} : raft'[x] = raft[x]
    BY <1>0, <1>1
  <1>6. ASSUME NEW x \in Server PROVE Follows(x, raft'[x], disk'[x])
    <2>1. CASE x \in {s, d}
      BY <1>1, <1>4, <1>5, <2>1
    <2>2. CASE x \notin {s, d}
      <3>1. raft'[x] = raft[x] /\ disk'[x] = disk[x]
        BY <1>1, <1>5, <2>2
      <3> QED BY <3>1, StaysFollows
    <2> QED BY <2>1, <2>2
  <1> QED BY <1>6 DEF HeardStep

\* A restart: the server knows of no leader, and what it has sent stays true.
LEMMA CrashHeard ==
    ASSUME VoteInv, HeardInv, NEW s \in Server, Crash(s)
    PROVE  HeardStep
  <1> DEFINE o == raft_open(s, disk[s])
             q == [o EXCEPT !.conns = raft[s].conns]
             r(x) == [raft[x] EXCEPT !.conns[s] = <<>>, !.snapping = @ \ {s}]
             z == Opened(s, disk[s])
  <1>0. Good(raft[s], disk[s]) /\ raft[s].sid = s
    BY ServerGood
  <1>1. /\ raft' = [x \in Server |-> IF x = s THEN q ELSE r(x)]
        /\ disk' = disk
    BY DEF Crash
  <1>2. DiskSound(disk[s])
    BY <1>0 DEF Good
  <1>3. Good(o, disk[s])
    BY <1>2, OpenGood
  <1>4. /\ Heeds(z, o, disk[s], {}) /\ z.leader_sid = Zero /\ z.sid = s /\ z.complaints = {}
    BY <1>2, OpenHeeds, SMTT(60)
  <1> HIDE DEF o, z
  <1>5. DOMAIN o = Fields
    BY <1>3 DEF Good, IndexTypes
  <1>6. /\ q.sid = o.sid /\ q.term = o.term /\ q.role = o.role /\ q.leader_sid = o.leader_sid
        /\ q.file = o.file /\ q.waiters = o.waiters /\ q.complaints = o.complaints
        /\ q.conns = raft[s].conns
    BY <1>5 DEF Fields
  <1> HIDE DEF q
  <1>7. Deferred(q) = Deferred(o) /\ Told(q) = Told(raft[s])
    BY <1>6 DEF Deferred, Told
  <1>8. LeaderSound(o, disk[s]) /\ o.sid = s /\ o.leader_sid \in {Zero, s}
        /\ \A c \in Errors : c \notin o.complaints
    BY <1>4 DEF Heeds
  <1>9. LeaderSound(q, disk[s])
    BY <1>6, <1>7, <1>8 DEF LeaderSound
  <1>10. Follows(s, q, disk[s])
    BY <1>0, <1>6, <1>7, <1>8, <1>9 DEF Heeds, Follows
  <1>11. ASSUME NEW x \in Server PROVE Follows(x, r(x), disk[x])
    <2> DEFINE S == raft[x].snapping \ {s}
    <2>1. r(x) = [raft[x] EXCEPT !.conns[s] = <<>>, !.snapping = S]
      BY ServerGood DEF Fields
    <2> HIDE DEF S
    <2>2. Serves(raft[x], r(x))
      BY <2>1, ServerGood, EmptyConn, ConnServes
    <2> HIDE DEF r
    <2> QED BY <2>2, ServesFollows
  <1> HIDE DEF r
  <1>12. \A x \in Server : raft'[x] = IF x = s THEN q ELSE r(x)
    BY <1>1
  <1>13. \A x \in Server : Follows(x, raft'[x], disk'[x])
    BY <1>1, <1>10, <1>11, <1>12
  <1> QED BY <1>13 DEF HeardStep

\* Every step is one of this kind.
LEMMA NextHeard ==
    ASSUME VoteInv, HeardInv, [Next]_vars
    PROVE  HeardStep
  <1>1. CASE UNCHANGED vars
    BY <1>1, StaysFollows DEF vars, HeardStep
  <1>2. ASSUME NEW s \in Server,
               \/ LeaderTimeout(s) \/ ElectionTimeout(s) \/ Ping(s)
               \/ (\E v \in Value : Command(s, v)) \/ LogSync(s) \/ WaitersRun(s)
               \/ NextEntry(s) \/ StoreSnapshot(s) \/ Crash(s)
        PROVE  HeardStep
    BY <1>2, TimeoutsHeard, LeadersHeard, DisksHeard, CrashHeard
  <1>3. ASSUME NEW s \in Server, NEW d \in Server,
               \/ TransferLeadership(s, d) \/ HandleVoteRequest(s, d) \/ HandleVoteReply(s, d)
               \/ HandleAppendRequest(s, d) \/ HandleAppendReply(s, d)
               \/ HandleInstallSnapshotRequest(s, d) \/ HandleInstallSnapshotReply(s, d)
               \/ HandleBecomeLeader(s, d) \/ RejectStale(s, d) \/ Disconnect(s, d)
               \/ Overtake(s, d)
        PROVE  HeardStep
    BY <1>3, CarriedHeard, VoteRequestHeard, VoteReplyHeard, AppendRequestHeard, RepliesHeard,
       InstallSnapshotHeard, RejectHeard, DisconnectHeard
  <1> QED BY <1>1, <1>2, <1>3 DEF Next

---------------------------------------------------------------------------
(* The theorems.                                                           *)

\* The terms in which servers are heard are numbers.
LEMMA HeardNat ==
    ASSUME VoteInv, NEW l \in Server, NEW t \in Heard(l)
    PROVE  t \in Nat
  <1>1. CASE t \in Told(raft[l])
    BY <1>1, InClaims, ServerGood, SMTT(60) DEF Told, SoundRpc
  <1>2. CASE \E s \in Server : t = raft[s].term
    BY <1>2, ServerGood
  <1> QED BY <1>1, <1>2 DEF Heard

\* Nobody is heard who was not heard before, except a leader.
LEMMA HeardGrows ==
    ASSUME VoteInv, HeardStep, NEW l \in Server, NEW t \in Heard(l)'
    PROVE  t \in Heard(l) \cup Voice(raft'[l])
  <1>1. CASE t \in Told(raft'[l])
    BY <1>1 DEF HeardStep, Follows, Heeds, Heard
  <1>2. CASE \E s \in Server \ {l} : raft'[s].leader_sid = l /\ t = raft'[s].term
    <2>1. PICK s \in Server \ {l} : raft'[s].leader_sid = l /\ t = raft'[s].term
      BY <1>2
    <2>2. raft[s].sid = s /\ l # Zero
      BY ServerGood, ServerAssumption
    <2>3. /\ raft'[s].sid = raft[s].sid
          /\ \/ raft'[s].leader_sid \in Tellers(raft'[s]) \cup {Zero, raft'[s].sid}
             \/ raft'[s].leader_sid = raft[s].leader_sid /\ raft'[s].term = raft[s].term
      BY DEF HeardStep, Follows, Heeds
    <2> QED BY <2>1, <2>2, <2>3 DEF Tellers, Heard
  <1> QED BY <1>1, <1>2 DEF Heard

\* Steps of this kind keep the invariant.
LEMMA HeardStepInv ==
    ASSUME VoteInv, HeardInv, Step, HeardStep
    PROVE  HeardInv'
  <1>1. VoteInv'
    BY StepInv
  <1>2. LeadersSound'
    BY DEF HeardStep, Follows, Heeds, LeadersSound
  <1>3. LedElected' /\ ElectedLed'
    BY <1>1, <1>2, LaterElected, LaterLeader
  <1>4. ASSUME NEW l \in Server, NEW t \in Heard(l)' PROVE Elected(t, l)'
    <2>1. CASE t \in Heard(l)
      <3>1. Elected(t, l) /\ t \in Nat
        BY <2>1, HeardNat DEF HeardInv
      <3> QED BY <3>1, ElectedKept
    <2>2. CASE t \in Voice(raft'[l])
      BY <1>3, <2>2 DEF LedElected
    <2> QED BY <1>4, <2>1, <2>2, HeardGrows
  <1>5. ASSUME NEW l \in Server, NEW k \in Server, NEW t \in Heard(l)', t \in Heard(k)'
        PROVE  l = k
    <2>1. ASSUME NEW x \in Server, NEW y \in Server, Elected(t, x)', t \in Voice(raft'[y])
          PROVE  x = y
      <3>1. raft'[y].role = "LEADER" /\ raft'[y].term = t
        BY <2>1 DEF Voice
      <3> QED BY <1>3, <2>1, <3>1 DEF ElectedLed
    <2>2. Elected(t, l)' /\ Elected(t, k)'
      BY <1>4, <1>5
    <2>3. CASE t \in Voice(raft'[k])
      BY <2>1, <2>2, <2>3
    <2>4. CASE t \in Voice(raft'[l])
      BY <2>1, <2>2, <2>4
    <2>5. CASE t \in Heard(l) /\ t \in Heard(k)
      BY <2>5 DEF HeardInv
    <2> QED BY <1>5, <2>3, <2>4, <2>5, HeardGrows
  <1>6. OneLeaderHeard'
    <2>1. \A s \in Server : \A c \in Errors : c \in raft'[s].complaints => c \in raft[s].complaints
      BY DEF HeardStep, Follows, Heeds
    <2>2. \A s \in Server : \A c \in Errors : c \notin raft[s].complaints
      BY DEF HeardInv, OneLeaderHeard, Errors
    <2>3. \A s \in Server : \A c \in Errors : c \notin raft'[s].complaints
      BY <2>1, <2>2
    <2> QED BY <2>3 DEF OneLeaderHeard, Errors
  <1>7. \A l \in Server : \A t \in Heard(l)' : \A k \in Server : t \in Heard(k)' => l = k
    BY <1>5
  <1> QED BY <1>2, <1>4, <1>6, <1>7 DEF HeardInv, LeadersSound

\* Nothing has been heard when all servers open the file of a new cluster, but
\* from a server that is alone.
LEMMA InitHeard ==
    ASSUME Init
    PROVE  HeardInv
  <1>1. VoteInv
    BY InitInv
  <1>2. ASSUME NEW s \in Server
        PROVE  /\ LeaderSound(raft[s], disk[s])
               /\ Told(raft[s]) \subseteq Voice(raft[s])
               /\ raft[s].leader_sid \in {Zero, s}
               /\ \A c \in Errors : c \notin raft[s].complaints
    <2> DEFINE o == Opened(s, disk[s])
    <2>1. raft[s] = raft_open(s, disk[s]) /\ DiskSound(disk[s])
      BY <1>1, ServerGood DEF Init, Good
    <2>2. /\ Heeds(o, raft[s], disk[s], {}) /\ o.leader_sid = Zero /\ Told(o) = {}
          /\ o.sid = s /\ o.complaints = {}
      BY <2>1, OpenHeeds, SMTT(60)
    <2> HIDE DEF o
    <2> QED BY <2>2 DEF Heeds
  <1>3. LedElected
    BY <1>1, <1>2, LeaderElected DEF LeadersSound
  <1>4. ASSUME NEW l \in Server, NEW t \in Heard(l) PROVE t \in Voice(raft[l])
    <2>1. l # Zero
      BY ServerAssumption
    <2>2. ~ \E s \in Server \ {l} : raft[s].leader_sid = l
      BY <1>2, <2>1
    <2> QED BY <1>2, <1>4, <2>2 DEF Heard
  <1>5. ASSUME NEW l \in Server, NEW k \in Server, NEW t \in Heard(l), t \in Heard(k)
        PROVE  l = k
    <2>1. t \in Voice(raft[l]) /\ t \in Voice(raft[k])
      BY <1>4, <1>5
    <2>2. ElectionSafety
      BY <1>1, VoteInvElects
    <2> QED BY <2>1, <2>2 DEF Voice, ElectionSafety
  <1>6. \A l \in Server : \A t \in Heard(l) : Elected(t, l)
    BY <1>3, <1>4 DEF LedElected
  <1>7. OneLeaderHeard
    BY <1>2 DEF OneLeaderHeard, Errors
  <1>8. \A l \in Server : \A t \in Heard(l) : \A k \in Server : t \in Heard(k) => l = k
    BY <1>5
  <1> QED BY <1>2, <1>6, <1>7, <1>8 DEF HeardInv

\* Whoever is heard to be leader, by an APPEND_REQUEST on its way or in the
\* leader_sid of a server, was elected by a majority whose votes in that term can
\* no longer change, for any number of servers and crashes.
THEOREM HeardInvariant == Spec => []HeardInv
  <1>1. Init => HeardInv
    BY InitHeard
  <1>2. VoteInv /\ HeardInv /\ [Next]_vars => HeardInv'
    BY NextStep, NextHeard, HeardStepInv
  <1> QED BY <1>1, <1>2, VoteInvariant, PTL DEF Spec

\* Neither raft_handle_append_request() nor raft_update_leader() ever finds two
\* leaders of one term: their two errors are never logged.
THEOREM OneLeaderHeardHolds == Spec => []OneLeaderHeard
  <1>1. HeardInv => OneLeaderHeard
    BY DEF HeardInv
  <1> QED BY <1>1, HeardInvariant, PTL
=============================================================================
