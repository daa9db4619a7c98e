------------------------- MODULE RaftElectionProofs -------------------------
(***************************************************************************)
(* The functions that change a term, a vote or a tally keep the invariant  *)
(* of RaftVotes: lemmas for the proof of ElectionSafety.                   *)
(***************************************************************************)
EXTENDS RaftReplicaProofs

\* A leaf that names no prover is tried with Zenon and then with SMT.
USE ZenonT(30), SMTT(120), ZenonT(120)

\* A server goes to a new term or vote, with the record and the waiter for it.
LEMMA NewStateKeeps ==
    ASSUME NEW r, NEW d, Good(r, d), NEW x, IndexTypes(x), VoteTypes(x), TallySound(x),
           x.sid = r.sid, Reaches(r.term, r.vote, x.term, x.vote),
           x.synced_term = r.synced_term, x.synced_vote = r.synced_vote,
           x.entries = r.entries, x.conns = r.conns, x.complaints = r.complaints,
           x.file = Append(r.file, StateRec(x.term, x.vote)),
           x.waiters = Append(r.waiters, [type |-> "TERM", ticket |-> Len(r.file) + 1, index |-> 0,
                                          term |-> x.term, vote |-> x.vote, rpcs |-> NoRpcs]),
           \A p \in Server \ {r.sid} : Counted(x, p) \subseteq Counted(r, p)
    PROVE  Keeps(r, x, d)
  <1> DEFINE n == Len(r.file)
             fs == <<StateRec(x.term, x.vote)>>
             w == [type |-> "TERM", ticket |-> n + 1, index |-> 0,
                   term |-> x.term, vote |-> x.vote, rpcs |-> NoRpcs]
             g == x.file
  <1>0. /\ r.term \in Nat /\ d.term \in Nat /\ x.term \in Nat /\ x.vote \in Sid
        /\ r.synced_term \in Nat
        /\ r.file \in Seq(FileRecord) /\ n \in Nat /\ DOMAIN r.file = 1 .. n
    BY SMTT(60) DEF Good, VoteTypes, DiskSound, FileSound
  <1>1. /\ Reaches(d.term, d.vote, r.term, r.vote)
        /\ Reaches(r.synced_term, r.synced_vote, d.term, d.vote)
    BY DEF Good, FileSound
  <1>2. Reaches(d.term, d.vote, x.term, x.vote) /\ r.term <= x.term
    BY <1>0, <1>1, SMTT(60) DEF Reaches
  <1>3. StateRec(x.term, x.vote) \in FileRecord
    BY <1>0 DEF StateRec, FileRecord
  <1>4. /\ g \in Seq(FileRecord) /\ DOMAIN g = 1 .. n + 1 /\ g[n + 1] = StateRec(x.term, x.vote)
        /\ \A i \in 1 .. n : g[i] = r.file[i]
    BY <1>0, <1>3, SMTT(60)
  <1> HIDE DEF g, n
  <1>5. ASSUME NEW i \in 1 .. n, IsState(g[i])
        PROVE  /\ Reaches(d.term, d.vote, g[i].term, g[i].vote)
               /\ Reaches(g[i].term, g[i].vote, x.term, x.vote)
    <2>1. /\ Reaches(d.term, d.vote, r.file[i].term, r.file[i].vote)
          /\ Reaches(r.file[i].term, r.file[i].vote, r.term, r.vote)
          /\ g[i] = r.file[i]
      BY <1>0, <1>4, <1>5 DEF Good, FileSound
    <2>2. r.file[i] \in FileRecord
      BY <1>0, SMTT(60)
    <2>3. r.file[i].term \in Nat
      BY <2>2, SMTT(60) DEF FileRecord
    <2> QED BY <2>1, <2>3, <1>0, SMTT(60) DEF Reaches
  <1>6. LogSound(x)
    <2>1. \A i \in DOMAIN r.entries : r.entries[i].term \in Nat /\ r.entries[i].term <= r.term
      <3>1. /\ r.entries \in Seq(LogEntry)
            /\ \A i \in DOMAIN r.entries : r.entries[i].term <= r.term
        BY DEF Good, LogSound
      <3>2. \A i \in DOMAIN r.entries : r.entries[i] \in LogEntry
        BY <3>1, SMTT(60)
      <3> QED BY <3>1, <3>2 DEF LogEntry
    <2>2. r.entries \in Seq(LogEntry)
      BY DEF Good, LogSound
    <2>3. \A i \in DOMAIN r.entries : r.entries[i].term <= x.term
      BY <2>1, <1>0, <1>2, SMTT(60)
    <2> QED BY <2>2, <2>3 DEF LogSound
  <1>7. FileSound(x, d)
    <2>1. ASSUME NEW i \in DOMAIN g, IsState(g[i])
          PROVE  /\ Reaches(d.term, d.vote, g[i].term, g[i].vote)
                 /\ Reaches(g[i].term, g[i].vote, x.term, x.vote)
      <3>1. CASE i = n + 1
        BY <3>1, <1>2, <1>4, SMTT(60) DEF StateRec, Reaches
      <3>2. CASE i # n + 1
        BY <3>2, <2>1, <1>0, <1>4, <1>5, SMTT(60)
      <3> QED BY <3>1, <3>2
    <2>2. ASSUME NEW i \in DOMAIN g, NEW j \in DOMAIN g, IsState(g[i]), IsState(g[j]), i < j
          PROVE  Reaches(g[i].term, g[i].vote, g[j].term, g[j].vote)
      <3>0. i \in 1 .. n /\ g[i] = r.file[i]
        BY <2>2, <1>0, <1>4, SMTT(60)
      <3>1. CASE j = n + 1
        BY <3>0, <3>1, <2>2, <1>4, <1>5, SMTT(60) DEF StateRec
      <3>2. CASE j # n + 1
        <4>1. j \in 1 .. n /\ g[j] = r.file[j]
          BY <3>2, <1>0, <1>4, SMTT(60)
        <4> QED BY <3>0, <4>1, <2>2, <1>0 DEF Good, FileSound
      <3> QED BY <3>1, <3>2
    <2>3. ASSUME NEW i \in DOMAIN g, g[i].type = "ENTRY"
          PROVE  \/ g[i].term <= d.term
                 \/ \E j \in DOMAIN g : j < i /\ IsState(g[j]) /\ g[i].term <= g[j].term
      <3>1. i \in 1 .. n /\ g[i] = r.file[i]
        BY <2>3, <1>0, <1>4, SMTT(60) DEF StateRec
      <3>2. \/ g[i].term <= d.term
            \/ \E j \in DOMAIN r.file : j < i /\ IsState(r.file[j]) /\ g[i].term <= r.file[j].term
        BY <3>1, <2>3, <1>0 DEF Good, FileSound
      <3>3. \A j \in DOMAIN r.file : j \in DOMAIN g /\ g[j] = r.file[j]
        BY <1>0, <1>4, SMTT(60)
      <3> QED BY <3>2, <3>3
    <2>4. \E i \in DOMAIN g : g[i] = StateRec(x.term, x.vote)
      BY <1>0, <1>4, SMTT(60)
    <2>5. x.file = g
      BY DEF g
    <2> QED BY <2>1, <2>2, <2>3, <2>4, <2>5, <1>1, <1>2, <1>4 DEF FileSound
  <1>8. WaitersSound(x, d)
    <2>1. SoundWaiter(w, x.file, d)
      BY <1>0, <1>4, NoRpcsSound, SMTT(60) DEF SoundWaiter, WaiterFields, g, n
    <2>2. x.waiters = Append(r.waiters, w) /\ IsSeq(r.waiters)
      BY DEF n, Good, WaitersSound
    <2> HIDE DEF w
    <2>3. IsSeq(x.waiters) /\ Elems(x.waiters) \subseteq Elems(r.waiters) \cup {w}
      BY <2>2, AppendElems, SMTT(60)
    <2>4. fs \in Seq(FileRecord) /\ x.file = r.file \o fs
      BY <1>0, <1>3, SMTT(60)
    <2> HIDE DEF fs
    <2> QED BY <2>1, <2>3, <2>4, WaitersGrow DEF Good
  <1>9. Good(x, d)
    BY <1>6, <1>7, <1>8 DEF Good
  <1> QED BY <1>9, SameReplies DEF Keeps

\* What raft_set_term() changes, and what it leaves alone.
LEMMA SetTermFields ==
    ASSUME NEW r, NEW d, Good(r, d), NEW t \in Nat, NEW v \in Sid,
           NEW x, x = raft_set_term(r, t, v)
    PROVE  /\ DOMAIN x = Fields /\ IndexTypes(x)
           /\ x.sid = r.sid /\ x.term = t /\ x.vote = v
           /\ x.synced_term = r.synced_term /\ x.synced_vote = r.synced_vote
           /\ x.entries = r.entries /\ x.conns = r.conns /\ x.complaints = r.complaints
           /\ x.file = Append(r.file, StateRec(t, v))
           /\ x.waiters = Append(r.waiters, [type |-> "TERM", ticket |-> Len(r.file) + 1,
                                             index |-> 0, term |-> t, vote |-> v,
                                             rpcs |-> NoRpcs])
           /\ x.role = r.role /\ x.n_votes = r.n_votes /\ x.svote = r.svote
           /\ SameIndexes(r, x)
  <1> DEFINE w == [type |-> "TERM", ticket |-> Len(r.file) + 1, index |-> 0, term |-> t,
                   vote |-> v, rpcs |-> NoRpcs]
             rec == StateRec(t, v)
  <1>0. DOMAIN r = Fields
    BY DEF Good, IndexTypes
  <1>1. x = [r EXCEPT !.term = t, !.vote = v, !.file = Append(@, rec), !.waiters = Append(@, w)]
    BY DEF raft_set_term
  <1> HIDE DEF w, rec
  <1>2. /\ DOMAIN x = Fields
        /\ x.sid = r.sid /\ x.term = t /\ x.vote = v
        /\ x.synced_term = r.synced_term /\ x.synced_vote = r.synced_vote
        /\ x.entries = r.entries /\ x.conns = r.conns /\ x.complaints = r.complaints
        /\ x.file = Append(r.file, rec)
        /\ x.waiters = Append(r.waiters, w)
        /\ x.role = r.role /\ x.n_votes = r.n_votes /\ x.svote = r.svote
        /\ SameIndexes(r, x)
    BY <1>0, <1>1, SMTT(60) DEF Fields, SameIndexes
  <1>3. IndexTypes(x)
    BY <1>2 DEF Good, IndexTypes, SameIndexes
  <1> QED BY <1>2, <1>3 DEF w, rec

\* raft_become_follower(), and raft_receive_term__() with a newer term.
LEMMA BecomeFollowerKeeps ==
    ASSUME NEW r, NEW d, Good(r, d), NEW q, q = raft_become_follower(r)
    PROVE  Keeps(r, q, d) /\ q.term = r.term /\ q.role = "FOLLOWER"
  <1>0. DOMAIN r = Fields
    BY DEF Good, IndexTypes
  <1>1. /\ DOMAIN q = Fields /\ SameIndexes(r, q) /\ SameLog(r, q) /\ q.role = "FOLLOWER"
        /\ q.sid = r.sid /\ q.term = r.term /\ q.vote = r.vote
        /\ q.synced_term = r.synced_term /\ q.synced_vote = r.synced_vote
        /\ q.n_votes = r.n_votes /\ q.svote = r.svote /\ q.waiters = r.waiters
        /\ q.conns = r.conns /\ q.complaints = r.complaints
    BY <1>0 DEF raft_become_follower, Fields, SameIndexes, SameLog
  <1>2. IndexTypes(q) /\ VoteTypes(q) /\ SoundQueues(q.conns) /\ LogSound(q) /\ TallySound(q)
    BY <1>1 DEF Good, IndexTypes, VoteTypes, SameIndexes, SameLog, LogSound, TallySound
  <1>3. FileSound(q, d) /\ WaitersSound(q, d) /\ DiskSound(d)
    BY <1>1, SMTT(60) DEF Good, FileSound, WaitersSound, SameLog
  <1>4. Good(q, d)
    BY <1>2, <1>3 DEF Good
  <1>5. \A p \in Server \ {r.sid} : Counted(q, p) = {}
    BY <1>1 DEF Counted
  <1> QED BY <1>1, <1>4, <1>5, SameReplies DEF Keeps

\* raft_receive_term__(): a newer term clears the vote and the role.
LEMMA ReceiveTermKeeps ==
    ASSUME NEW r, NEW d, Good(r, d), NEW t \in Nat, t >= r.term,
           NEW q, q = raft_receive_term(r, t)
    PROVE  Keeps(r, q, d) /\ q.term = t /\ q.conns = r.conns
  <1>0. r.term \in Nat /\ DOMAIN r = Fields
    BY DEF Good, VoteTypes, IndexTypes
  <1>1. CASE t > r.term
    <2> DEFINE r1 == raft_set_term(r, t, Zero)
               x == [r1 EXCEPT !.leader_sid = Zero, !.role = "FOLLOWER"]
    <2>1. q = x
      BY <1>1 DEF raft_receive_term, raft_become_follower
    <2>2. Zero \in Sid
      BY DEF Sid
    <2>3. /\ DOMAIN r1 = Fields /\ IndexTypes(r1)
          /\ r1.sid = r.sid /\ r1.term = t /\ r1.vote = Zero
          /\ r1.synced_term = r.synced_term /\ r1.synced_vote = r.synced_vote
          /\ r1.entries = r.entries /\ r1.conns = r.conns /\ r1.complaints = r.complaints
          /\ r1.file = Append(r.file, StateRec(t, Zero))
          /\ r1.waiters = Append(r.waiters, [type |-> "TERM", ticket |-> Len(r.file) + 1,
                                             index |-> 0, term |-> t, vote |-> Zero,
                                             rpcs |-> NoRpcs])
          /\ r1.n_votes = r.n_votes /\ r1.svote = r.svote
      BY <2>2, SetTermFields, SMTT(60)
    <2> HIDE DEF r1
    <2>4. /\ DOMAIN x = Fields /\ SameIndexes(r1, x)
          /\ x.sid = r.sid /\ x.term = t /\ x.vote = Zero
          /\ x.synced_term = r.synced_term /\ x.synced_vote = r.synced_vote
          /\ x.entries = r.entries /\ x.conns = r.conns /\ x.complaints = r.complaints
          /\ x.file = r1.file /\ x.waiters = r1.waiters
          /\ x.role = "FOLLOWER" /\ x.n_votes = r.n_votes /\ x.svote = r.svote
      BY <2>3 DEF Fields, SameIndexes
    <2> HIDE DEF x
    <2>5. IndexTypes(x)
      BY <2>3, <2>4 DEF IndexTypes, SameIndexes
    <2>6. VoteTypes(x) /\ TallySound(x)
      BY <2>2, <2>4 DEF Good, VoteTypes, TallySound
    <2>7. Reaches(r.term, r.vote, x.term, x.vote)
      BY <1>1, <2>4 DEF Reaches
    <2>8. \A p \in Server \ {r.sid} : Counted(x, p) \subseteq Counted(r, p)
      BY <2>4 DEF Counted
    <2>9. Keeps(r, x, d)
      BY <2>3, <2>4, <2>5, <2>6, <2>7, <2>8, NewStateKeeps
    <2> QED BY <2>1, <2>4, <2>9
  <1>2. CASE ~(t > r.term)
    <2>1. q = r /\ t = r.term
      BY <1>0, <1>2, SMTT(60) DEF raft_receive_term
    <2> QED BY <2>1, KeepsRefl
  <1> QED BY <1>1, <1>2

\* The vote that raft_handle_vote_request__() gives: a server that has not voted
\* votes for src.
LEMMA VoteGivenKeeps ==
    ASSUME NEW r, NEW d, Good(r, d), NEW src \in Server, r.vote = Zero,
           NEW q, q = raft_set_term(r, r.term, src)
    PROVE  /\ Keeps(r, q, d) /\ q.vote = src /\ q.term = r.term
           /\ r.role = "FOLLOWER" /\ q.role = "FOLLOWER"
  <1>0. r.term \in Nat /\ r.sid \in Server /\ src \in Sid /\ Zero \notin Server
    BY ServerAssumption DEF Good, VoteTypes, Sid
  <1>1. /\ DOMAIN q = Fields /\ IndexTypes(q)
        /\ q.sid = r.sid /\ q.term = r.term /\ q.vote = src
        /\ q.synced_term = r.synced_term /\ q.synced_vote = r.synced_vote
        /\ q.entries = r.entries /\ q.conns = r.conns /\ q.complaints = r.complaints
        /\ q.file = Append(r.file, StateRec(r.term, src))
        /\ q.waiters = Append(r.waiters, [type |-> "TERM", ticket |-> Len(r.file) + 1,
                                          index |-> 0, term |-> r.term, vote |-> src,
                                          rpcs |-> NoRpcs])
        /\ q.role = r.role /\ q.n_votes = r.n_votes /\ q.svote = r.svote
    BY <1>0, SetTermFields, SMTT(60)
  <1>2. r.role = "FOLLOWER"
    BY <1>0 DEF Good, TallySound
  <1>3. VoteTypes(q) /\ TallySound(q)
    BY <1>0, <1>1, <1>2 DEF Good, VoteTypes, TallySound
  <1>4. Reaches(r.term, r.vote, q.term, q.vote)
    BY <1>1 DEF Reaches
  <1>5. \A p \in Server \ {r.sid} : Counted(q, p) \subseteq Counted(r, p)
    BY <1>1, <1>2 DEF Counted
  <1>6. Keeps(r, q, d)
    BY <1>1, <1>3, <1>4, <1>5, NewStateKeeps
  <1> QED BY <1>1, <1>2, <1>6

\* raft_handle_vote_request__() votes at most once in a term, and announces the
\* vote, when it is on disk, in a reply.
LEMMA HandleVoteRequestKeeps ==
    ASSUME NEW r, NEW d, Good(r, d), NEW src \in Server, NEW m
    PROVE  Keeps(r, raft_handle_vote_request(r, src, m), d)
  <1> DEFINE r1 == IF r.vote = Zero THEN raft_set_term(r, r.term, src) ELSE r
             a == [type |-> "VOTE_REPLY", term |-> r1.term, vote |-> r1.vote]
  <1>0. r.term \in Nat /\ r.vote \in Sid
    BY DEF Good, VoteTypes
  <1>1. Keeps(r, r1, d) /\ r1.vote \in Server /\ r1.term \in Nat
    <2>1. CASE r.vote = Zero
      BY <2>1, <1>0, VoteGivenKeeps, SMTT(60)
    <2>2. CASE r.vote # Zero
      BY <2>2, <1>0, KeepsRefl DEF Sid
    <2> QED BY <2>1, <2>2
  <1> HIDE DEF r1
  <1>2. OwnRpc(r1, a)
    BY <1>1 DEF OwnRpc, SoundRpc
  <1>3. Good(r1, d)
    BY <1>1 DEF Keeps
  <1> HIDE DEF a
  <1>4. Keeps(r1, raft_send(r1, src, a), d)
    BY <1>2, <1>3, SendKeeps
  <1>5. Keeps(r, raft_send(r1, src, a), d)
    BY <1>1, <1>4, KeepsTrans
  <1>6. raft_handle_vote_request(r, src, m) \in {r, raft_send(r1, src, a)}
    BY DEF raft_handle_vote_request, r1, a
  <1> QED BY <1>5, <1>6, KeepsRefl

---------------------------------------------------------------------------
(* The tally.                                                              *)

\* As Keeps, but the vote v of p may have been counted.
Tallies(r, q, d, p, v) ==
    /\ q.sid = r.sid
    /\ Good(q, d)
    /\ \A a \in Replies(q) : a \in Replies(r) \/ (a = <<d.term, d.vote>> /\ d.vote # Zero)
    /\ \A x \in Server \ {r.sid} :
           Counted(q, x) \subseteq Counted(r, x) \cup (IF x = p THEN {<<r.term, v>>} ELSE {})
    /\ "vote" \in q.complaints => "vote" \in r.complaints

\* A candidate that has a majority takes office.
LEMMA TakesOfficeKeeps ==
    ASSUME NEW r, NEW d, Good(r, d), r.role = "CANDIDATE", r.n_votes > N \div 2,
           NEW next \in [Server -> Int], NEW match \in [Server -> Int],
           NEW q, q = [r EXCEPT !.role = "LEADER", !.leader_sid = r.sid, !.next_index = next,
                                !.match_index = match, !.replied = {}, !.snapping = {}]
    PROVE  /\ Keeps(r, q, d) /\ q.role = "LEADER" /\ q.leader_sid = r.sid
           /\ q.sid = r.sid /\ q.term = r.term /\ q.synced_term = r.synced_term
           /\ q.file = r.file /\ q.waiters = r.waiters /\ q.conns = r.conns
           /\ q.complaints = r.complaints
  <1>0. DOMAIN r = Fields
    BY DEF Good, IndexTypes
  <1>1. /\ DOMAIN q = Fields /\ q.log_start = r.log_start /\ q.commit_index = r.commit_index
        /\ q.last_applied = r.last_applied /\ q.next_index = next /\ q.match_index = match
        /\ q.sid = r.sid /\ q.term = r.term /\ q.vote = r.vote
        /\ q.synced_term = r.synced_term /\ q.synced_vote = r.synced_vote
        /\ q.role = "LEADER" /\ q.n_votes = r.n_votes /\ q.svote = r.svote
        /\ q.entries = r.entries /\ q.file = r.file /\ q.waiters = r.waiters
        /\ q.conns = r.conns /\ q.complaints = r.complaints /\ q.leader_sid = r.sid
    BY <1>0 DEF Fields
  <1>2. IndexTypes(q)
    BY <1>1 DEF Good, IndexTypes
  <1>3. VoteTypes(q) /\ SoundQueues(q.conns) /\ LogSound(q)
    BY <1>1 DEF Good, VoteTypes, LogSound
  <1>4. FileSound(q, d) /\ WaitersSound(q, d) /\ DiskSound(d)
    BY <1>1, SMTT(60) DEF Good, FileSound, WaitersSound
  <1>5. TallySound(q)
    BY <1>1 DEF Good, TallySound
  <1>6. Good(q, d)
    BY <1>2, <1>3, <1>4, <1>5 DEF Good
  <1>7. \A p \in Server \ {r.sid} : Counted(q, p) = Counted(r, p)
    BY <1>1 DEF Counted
  <1>8. Keeps(r, q, d)
    BY <1>1, <1>6, <1>7, SameReplies DEF Keeps
  <1> QED BY <1>1, <1>8

\* raft_become_leader() of a candidate that has a majority.
LEMMA BecomeLeaderKeeps ==
    ASSUME NEW r, NEW d, Good(r, d), r.role = "CANDIDATE", r.n_votes > N \div 2
    PROVE  Keeps(r, raft_become_leader(r), d)
  <1> DEFINE next == [p \in Server |-> LogEnd(r)]
             match == [p \in Server |-> 0]
             r1 == [r EXCEPT !.role = "LEADER", !.leader_sid = r.sid, !.next_index = next,
                             !.match_index = match, !.replied = {}, !.snapping = {}]
             i == LogEnd(r) - 1
             r2 == raft_update_match_index(r1, r.sid, i)
  <1>0. r.sid \in Server /\ r.log_start \in Int /\ r.entries \in Seq(LogEntry)
    BY DEF Good, IndexTypes, VoteTypes, LogSound
  <1>1. LogEnd(r) \in Int
    BY <1>0, SMTT(60) DEF LogEnd
  <1>2. next \in [Server -> Int] /\ match \in [Server -> Int] /\ i \in Int
    BY <1>1, SMTT(60)
  <1>3. NoData \in Data
    BY DEF Data
  <1>4. raft_become_leader(r) = raft_command_initiate(r2, NoData)
    BY DEF raft_become_leader
  <1> HIDE DEF next, match, i
  <1>5. Keeps(r, r1, d)
    BY <1>2, TakesOfficeKeeps
  <1> HIDE DEF r1
  <1>6. Keeps(r1, r2, d)
    BY <1>0, <1>2, <1>5, UpdateMatchIndexKeeps DEF Keeps
  <1> HIDE DEF r2
  <1>7. Keeps(r2, raft_command_initiate(r2, NoData), d)
    BY <1>3, <1>6, CommandInitiateKeeps DEF Keeps
  <1> QED BY <1>4, <1>5, <1>6, <1>7, KeepsTrans

\* The vote v of p is counted by r.
VoteCounted(r, p, v) ==
    [r EXCEPT !.svote = [r.svote EXCEPT ![p] = v],
              !.n_votes = IF v = r.sid THEN r.n_votes + 1 ELSE r.n_votes]

\* No votes, and one more vote.
LEMMA NumberedNone == Numbered({}, 0)
  <1> DEFINE f == [i \in 1 .. 0 |-> i]
  <1>1. 1 .. 0 = {}
    BY SMTT(60)
  <1>2. f \in [1 .. 0 -> {}]
    BY <1>1
  <1> QED BY <1>1, <1>2 DEF Numbered

LEMMA NumberedMore ==
    ASSUME NEW S, NEW n \in Nat, Numbered(S, n), NEW p, p \notin S
    PROVE  Numbered(S \cup {p}, n + 1)
  <1>1. PICK f \in [1 .. n -> S] : /\ \A i, j \in 1 .. n : f[i] = f[j] => i = j
                                  /\ \A x \in S : \E i \in 1 .. n : f[i] = x
    BY DEF Numbered
  <1> DEFINE g == [i \in 1 .. n + 1 |-> IF i = n + 1 THEN p ELSE f[i]]
  <1>2. \A i \in 1 .. n + 1 : i \in 1 .. n \/ i = n + 1
    BY SMTT(60)
  <1>3. \A i \in 1 .. n : i \in 1 .. n + 1 /\ i # n + 1 /\ g[i] = f[i] /\ f[i] \in S
    BY SMTT(60)
  <1>4. n + 1 \in 1 .. n + 1 /\ g[n + 1] = p
    BY SMTT(60)
  <1>5. g \in [1 .. n + 1 -> S \cup {p}]
    BY <1>2, <1>3, <1>4
  <1> HIDE DEF g
  <1>6. \A i, j \in 1 .. n + 1 : g[i] = g[j] => i = j
    BY <1>1, <1>2, <1>3, <1>4
  <1>7. \A x \in S \cup {p} : \E i \in 1 .. n + 1 : g[i] = x
    BY <1>1, <1>3, <1>4
  <1> QED BY <1>5, <1>6, <1>7 DEF Numbered

\* A vote is counted once.
LEMMA VoteCountedTallies ==
    ASSUME NEW r, NEW d, Good(r, d), r.role = "CANDIDATE", NEW p \in Server, NEW v \in Server,
           r.svote[p] = Zero,
           NEW q, q = VoteCounted(r, p, v)
    PROVE  /\ Tallies(r, q, d, p, v) /\ q.role = "CANDIDATE"
           /\ q.sid = r.sid /\ q.term = r.term /\ q.synced_term = r.synced_term
           /\ q.file = r.file /\ q.waiters = r.waiters /\ q.conns = r.conns
           /\ q.complaints = r.complaints /\ q.leader_sid = r.leader_sid
           /\ raft_accept_vote(r, p, v) =
                  IF v = r.sid /\ q.n_votes > N \div 2 THEN raft_become_leader(q) ELSE q
  <1> DEFINE n == IF v = r.sid THEN r.n_votes + 1 ELSE r.n_votes
             sv == [r.svote EXCEPT ![p] = v]
             Q == {x \in Server : r.svote[x] = r.sid}
             Q2 == {x \in Server : sv[x] = r.sid}
  <1>0. /\ DOMAIN r = Fields /\ r.sid \in Server /\ r.n_votes \in Nat
        /\ r.svote \in [Server -> Sid] /\ v \in Sid /\ Zero \notin Server
        /\ r.vote = r.sid /\ Numbered(Q, r.n_votes)
    BY ServerAssumption DEF Good, IndexTypes, VoteTypes, Sid, TallySound
  <1>1. n \in Nat /\ sv \in [Server -> Sid]
    BY <1>0, SMTT(60)
  <1>2. Numbered(Q2, n)
    <2>1. CASE v = r.sid
      <3>1. Q2 = Q \cup {p} /\ p \notin Q /\ n = r.n_votes + 1
        BY <1>0, <2>1
      <3> HIDE DEF Q, Q2, n
      <3> QED BY <1>0, <3>1, NumberedMore
    <2>2. CASE v # r.sid
      <3>1. Q2 = Q /\ n = r.n_votes
        BY <1>0, <2>2
      <3> HIDE DEF Q, Q2, n
      <3> QED BY <1>0, <3>1
    <2> QED BY <2>1, <2>2
  <1>3. q = [r EXCEPT !.svote = sv, !.n_votes = n]
    BY DEF VoteCounted
  <1>4. \A x \in Server : x # p => sv[x] = r.svote[x]
    BY <1>0
  <1>5. sv[p] = v
    BY <1>0
  <1>6. q = [r EXCEPT !.svote[p] = v, !.n_votes = IF v = r.sid THEN @ + 1 ELSE @]
    BY <1>0, <1>3 DEF Fields
  <1> HIDE DEF n, sv
  <1>7. /\ DOMAIN q = Fields /\ SameIndexes(r, q) /\ q.leader_sid = r.leader_sid
        /\ q.sid = r.sid /\ q.term = r.term /\ q.vote = r.vote
        /\ q.synced_term = r.synced_term /\ q.synced_vote = r.synced_vote
        /\ q.role = "CANDIDATE" /\ q.n_votes = n /\ q.svote = sv
        /\ q.entries = r.entries /\ q.file = r.file /\ q.waiters = r.waiters
        /\ q.conns = r.conns /\ q.complaints = r.complaints
    BY <1>0, <1>3 DEF Fields, SameIndexes
  <1>8. IndexTypes(q)
    BY <1>7 DEF Good, IndexTypes, SameIndexes
  <1>9. VoteTypes(q) /\ SoundQueues(q.conns) /\ LogSound(q)
    BY <1>1, <1>7 DEF Good, VoteTypes, LogSound
  <1>10. FileSound(q, d) /\ WaitersSound(q, d) /\ DiskSound(d)
    <2>1. /\ q.term = r.term /\ q.vote = r.vote /\ q.synced_term = r.synced_term
          /\ q.synced_vote = r.synced_vote /\ q.file = r.file /\ q.waiters = r.waiters
      BY <1>7
    <2>2. FileSound(r, d) /\ WaitersSound(r, d) /\ DiskSound(d)
      BY DEF Good
    <2> QED BY <2>1, <2>2, ZenonT(60) DEF FileSound, WaitersSound
  <1>11. TallySound(q)
    BY <1>0, <1>2, <1>7 DEF TallySound
  <1>12. Good(q, d)
    BY <1>8, <1>9, <1>10, <1>11 DEF Good
  <1>13. \A x \in Server \ {r.sid} :
             Counted(q, x) \subseteq Counted(r, x) \cup (IF x = p THEN {<<r.term, v>>} ELSE {})
    BY <1>4, <1>5, <1>7 DEF Counted
  <1>14. Tallies(r, q, d, p, v)
    BY <1>7, <1>12, <1>13, SameReplies DEF Tallies
  <1>15. r.svote[p] # v
    BY <1>0
  <1>16. raft_accept_vote(r, p, v) =
             IF v = r.sid /\ q.n_votes > N \div 2 THEN raft_become_leader(q) ELSE q
    BY <1>6, <1>15 DEF raft_accept_vote
  <1> QED BY <1>7, <1>14, <1>16

\* raft_accept_vote() counts each vote once, and elects with a majority only.
LEMMA AcceptVoteTallies ==
    ASSUME NEW r, NEW d, Good(r, d), r.role = "CANDIDATE", NEW p \in Server, NEW v \in Server,
           r.svote[p] \in {Zero, v}
    PROVE  Tallies(r, raft_accept_vote(r, p, v), d, p, v)
  <1> DEFINE r2 == VoteCounted(r, p, v)
  <1>1. CASE r.svote[p] = v
    <2>1. raft_accept_vote(r, p, v) = r
      BY <1>1 DEF raft_accept_vote
    <2> QED BY <2>1 DEF Tallies
  <1>2. CASE r.svote[p] # v
    <2>1. r.svote[p] = Zero
      BY <1>2
    <2>2. /\ Tallies(r, r2, d, p, v) /\ r2.role = "CANDIDATE" /\ r2.sid = r.sid
          /\ raft_accept_vote(r, p, v) =
                 IF v = r.sid /\ r2.n_votes > N \div 2 THEN raft_become_leader(r2) ELSE r2
      BY <2>1, VoteCountedTallies, SMTT(60)
    <2> HIDE DEF r2
    <2>4. ASSUME v = r.sid /\ r2.n_votes > N \div 2
          PROVE  Tallies(r, raft_become_leader(r2), d, p, v)
      <3>1. Keeps(r2, raft_become_leader(r2), d)
        BY <2>2, <2>4, BecomeLeaderKeeps DEF Tallies
      <3> QED BY <3>1, <2>2 DEF Keeps, Tallies
    <2> QED BY <2>2, <2>4
  <1> QED BY <1>1, <1>2

\* Counting one's own vote counts no vote of another server.
LEMMA OwnVoteKeeps ==
    ASSUME NEW r, NEW d, Good(r, d), NEW q, NEW v, Tallies(r, q, d, r.sid, v)
    PROVE  Keeps(r, q, d)
  BY DEF Keeps, Tallies

\* raft_handle_vote_reply() counts at most the vote of the reply.
LEMMA HandleVoteReplyTallies ==
    ASSUME NEW r, NEW d, Good(r, d), NEW src \in Server, NEW m, m.vote \in Server,
           r.role = "CANDIDATE" => r.svote[src] \in {Zero, m.vote}
    PROVE  Tallies(r, raft_handle_vote_reply(r, src, m), d, src, m.vote)
  <1>1. CASE r.role = "CANDIDATE"
    BY <1>1, AcceptVoteTallies DEF raft_handle_vote_reply
  <1>2. CASE r.role # "CANDIDATE"
    BY <1>2 DEF raft_handle_vote_reply, Tallies
  <1> QED BY <1>1, <1>2

\* raft_start_election() up to its vote requests: a new term, and no votes yet.
LEMMA CandidateKeeps ==
    ASSUME NEW r, NEW d, Good(r, d),
           NEW q, q = [raft_set_term(r, r.term + 1, r.sid)
                       EXCEPT !.leader_sid = Zero, !.role = "CANDIDATE", !.n_votes = 0,
                              !.svote = [p \in Server |-> Zero]]
    PROVE  /\ Keeps(r, q, d) /\ q.role = "CANDIDATE" /\ q.leader_sid = Zero
           /\ q.sid = r.sid /\ q.term = r.term + 1 /\ q.conns = r.conns
           /\ q.complaints = r.complaints /\ q.svote = [p \in Server |-> Zero]
           /\ q.file = Append(r.file, StateRec(r.term + 1, r.sid))
           /\ q.waiters = Append(r.waiters, [type |-> "TERM", ticket |-> Len(r.file) + 1,
                                             index |-> 0, term |-> r.term + 1, vote |-> r.sid,
                                             rpcs |-> NoRpcs])
  <1> DEFINE t == r.term + 1
             sv == [p \in Server |-> Zero]
             r0 == raft_set_term(r, t, r.sid)
  <1>0. /\ r.sid \in Server /\ r.sid \in Sid /\ t \in Nat /\ r.term < t
        /\ Zero \in Sid /\ Zero \notin Server
    BY ServerAssumption, SMTT(60) DEF Good, VoteTypes, Sid
  <1>1. q = [r0 EXCEPT !.leader_sid = Zero, !.role = "CANDIDATE", !.n_votes = 0, !.svote = sv]
    OBVIOUS
  <1>2. sv \in [Server -> Sid] /\ \A p \in Server : sv[p] = Zero
    BY <1>0
  <1> HIDE DEF t, sv
  <1>3. /\ DOMAIN r0 = Fields /\ IndexTypes(r0)
        /\ r0.sid = r.sid /\ r0.term = t /\ r0.vote = r.sid
        /\ r0.synced_term = r.synced_term /\ r0.synced_vote = r.synced_vote
        /\ r0.entries = r.entries /\ r0.conns = r.conns /\ r0.complaints = r.complaints
        /\ r0.file = Append(r.file, StateRec(t, r.sid))
        /\ r0.waiters = Append(r.waiters, [type |-> "TERM", ticket |-> Len(r.file) + 1,
                                           index |-> 0, term |-> t, vote |-> r.sid,
                                           rpcs |-> NoRpcs])
    BY <1>0, SetTermFields, SMTT(60)
  <1> HIDE DEF r0
  <1>4. /\ DOMAIN q = Fields /\ SameIndexes(r0, q) /\ q.leader_sid = Zero
        /\ q.sid = r.sid /\ q.term = t /\ q.vote = r.sid
        /\ q.synced_term = r.synced_term /\ q.synced_vote = r.synced_vote
        /\ q.entries = r.entries /\ q.conns = r.conns /\ q.complaints = r.complaints
        /\ q.file = r0.file /\ q.waiters = r0.waiters
        /\ q.role = "CANDIDATE" /\ q.n_votes = 0 /\ q.svote = sv
    BY <1>1, <1>3 DEF Fields, SameIndexes
  <1>5. IndexTypes(q)
    BY <1>3, <1>4 DEF IndexTypes, SameIndexes
  <1>6. VoteTypes(q)
    BY <1>0, <1>2, <1>4, SMTT(60) DEF Good, VoteTypes
  <1>7. TallySound(q)
    <2>1. {p \in Server : q.svote[p] = q.sid} = {}
      BY <1>0, <1>2, <1>4
    <2> QED BY <2>1, <1>4, NumberedNone DEF TallySound
  <1>8. Reaches(r.term, r.vote, q.term, q.vote)
    BY <1>0, <1>4 DEF Reaches
  <1>9. \A p \in Server \ {r.sid} : Counted(q, p) \subseteq Counted(r, p)
    BY <1>2, <1>4 DEF Counted
  <1>10. Keeps(r, q, d)
    BY <1>3, <1>4, <1>5, <1>6, <1>7, <1>8, <1>9, NewStateKeeps
  <1> QED BY <1>3, <1>4, <1>10 DEF t, sv

\* raft_start_election(): a new term, no votes but our own.
LEMMA StartElectionKeeps ==
    ASSUME NEW r, NEW d, Good(r, d), NEW transfer
    PROVE  Keeps(r, raft_start_election(r, transfer), d)
  <1> DEFINE r1 == [raft_set_term(r, r.term + 1, r.sid)
                    EXCEPT !.leader_sid = Zero, !.role = "CANDIDATE", !.n_votes = 0,
                           !.svote = [p \in Server |-> Zero]]
             rq == [type |-> "VOTE_REQUEST", term |-> r1.term, last_log_index |-> LogEnd(r1) - 1,
                    last_log_term |-> LastTerm(r1), leadership_transfer |-> transfer]
             f == [p \in Peers(r) |-> rq]
             r2 == raft_send_each(r1, f)
  <1>0. r.sid \in Server /\ r.term + 1 \in Nat
    BY SMTT(60) DEF Good, VoteTypes
  <1>1. raft_start_election(r, transfer) = raft_accept_vote(r2, r.sid, r.sid)
    BY DEF raft_start_election
  <1>2. /\ Keeps(r, r1, d) /\ r1.role = "CANDIDATE" /\ r1.sid = r.sid /\ r1.term = r.term + 1
        /\ r1.svote = [p \in Server |-> Zero]
    BY CandidateKeeps
  <1> HIDE DEF r1
  <1>3. Good(r1, d)
    BY <1>2 DEF Keeps
  <1>4. OwnRpc(r1, rq)
    BY <1>0, <1>2 DEF OwnRpc, SoundRpc
  <1> HIDE DEF rq
  <1>5. DOMAIN f \subseteq Server /\ \A e \in DOMAIN f : OwnRpc(r1, f[e])
    BY <1>4 DEF Peers
  <1> HIDE DEF f
  <1>6. Keeps(r1, r2, d) /\ Sent(r1, r2)
    BY <1>3, <1>5, SendEachKeeps
  <1> HIDE DEF r2
  <1>7. /\ Good(r2, d) /\ r2.role = "CANDIDATE" /\ r2.sid = r.sid /\ r2.svote[r.sid] = Zero
    BY <1>0, <1>2, <1>6 DEF Keeps, Sent, SameElection
  <1>8. Tallies(r2, raft_accept_vote(r2, r.sid, r.sid), d, r.sid, r.sid)
    BY <1>0, <1>7, AcceptVoteTallies
  <1>9. Keeps(r2, raft_accept_vote(r2, r.sid, r.sid), d)
    BY <1>7, <1>8, OwnVoteKeeps
  <1> QED BY <1>1, <1>2, <1>6, <1>9, KeepsTrans

---------------------------------------------------------------------------
(* Waiters, syncs and restarts.                                            *)

\* The waiter at the head of the list is taken off it.
LEMMA WaiterTakenKeeps ==
    ASSUME NEW r, NEW d, Good(r, d), r.waiters # <<>>,
           NEW w, w = Head(r.waiters), NEW q, q = [r EXCEPT !.waiters = Tail(@)]
    PROVE  /\ Keeps(r, q, d) /\ SameElection(r, q) /\ q.leader_sid = r.leader_sid
           /\ q.file = r.file /\ q.conns = r.conns /\ q.complaints = r.complaints
           /\ Elems(q.waiters) \subseteq Elems(r.waiters) /\ w \in Elems(r.waiters)
           /\ SoundWaiter(w, r.file, d)
  <1> DEFINE ws == Tail(r.waiters)
  <1>0. /\ DOMAIN r = Fields /\ IsSeq(r.waiters)
        /\ \A i \in DOMAIN r.waiters : SoundWaiter(r.waiters[i], r.file, d)
    BY DEF Good, IndexTypes, WaitersSound
  <1>1. IsSeq(ws) /\ Elems(ws) \subseteq Elems(r.waiters) /\ w \in Elems(r.waiters)
    BY <1>0, TailElems
  <1>2. \A u \in Elems(r.waiters) : SoundWaiter(u, r.file, d)
    BY <1>0 DEF Elems
  <1>3. q = [r EXCEPT !.waiters = ws]
    OBVIOUS
  <1> HIDE DEF ws
  <1>4. \A i \in DOMAIN ws : ws[i] \in Elems(ws)
    BY <1>1, ElemsDomain
  <1>5. \A i \in DOMAIN ws : SoundWaiter(ws[i], r.file, d)
    BY <1>1, <1>2, <1>4
  <1>6. /\ SameIndexes(r, q) /\ SameElection(r, q) /\ SameLog(r, q) /\ q.conns = r.conns
        /\ q.complaints = r.complaints /\ q.waiters = ws /\ q.leader_sid = r.leader_sid
    BY <1>0, <1>3 DEF Fields, SameIndexes, SameElection, SameLog
  <1>7. WaitersSound(q, d)
    BY <1>1, <1>5, <1>6 DEF WaitersSound, SameLog
  <1>8. Keeps(r, q, d)
    BY <1>6, <1>7, KeepsWaiters DEF SameComplaint
  <1> QED BY <1>1, <1>2, <1>6, <1>8 DEF SameLog

\* An index is noted as synced.
LEMMA IndexSyncedKeeps ==
    ASSUME NEW r, NEW d, Good(r, d), NEW i, NEW q, q = [r EXCEPT !.log_synced = i]
    PROVE  Keeps(r, q, d)
  <1>0. DOMAIN r = Fields
    BY DEF Good, IndexTypes
  <1>1. /\ SameIndexes(r, q) /\ SameElection(r, q) /\ SameLog(r, q) /\ q.conns = r.conns
        /\ q.complaints = r.complaints /\ q.waiters = r.waiters
    BY <1>0 DEF Fields, SameIndexes, SameElection, SameLog
  <1>2. IndexTypes(q)
    BY <1>1 DEF Good, IndexTypes, SameIndexes
  <1> QED BY <1>1, <1>2, KeepsIndexes DEF SameComplaint

\* A term and vote that are on disk are noted as synced.
LEMMA TermSyncedKeeps ==
    ASSUME NEW r, NEW d, Good(r, d), NEW t \in Nat, NEW v \in Sid,
           Reaches(t, v, d.term, d.vote),
           NEW q, q = [r EXCEPT !.synced_term = t, !.synced_vote = v]
    PROVE  /\ Keeps(r, q, d) /\ q.sid = r.sid /\ q.term = r.term /\ q.role = r.role
           /\ q.leader_sid = r.leader_sid /\ q.file = r.file /\ q.waiters = r.waiters
           /\ q.conns = r.conns /\ q.complaints = r.complaints
  <1>0. DOMAIN r = Fields
    BY DEF Good, IndexTypes
  <1>1. /\ DOMAIN q = Fields /\ SameIndexes(r, q) /\ SameLog(r, q)
        /\ q.sid = r.sid /\ q.term = r.term /\ q.vote = r.vote
        /\ q.synced_term = t /\ q.synced_vote = v
        /\ q.role = r.role /\ q.n_votes = r.n_votes /\ q.svote = r.svote
        /\ q.conns = r.conns /\ q.complaints = r.complaints /\ q.waiters = r.waiters
        /\ q.leader_sid = r.leader_sid
    BY <1>0 DEF Fields, SameIndexes, SameLog
  <1>2. IndexTypes(q) /\ VoteTypes(q) /\ SoundQueues(q.conns) /\ LogSound(q) /\ TallySound(q)
    BY <1>1
       DEF Good, IndexTypes, SameIndexes, VoteTypes, SameLog, LogSound, TallySound
  <1>3. FileSound(q, d)
    BY <1>1 DEF Good, FileSound, SameLog
  <1>4. WaitersSound(q, d) /\ DiskSound(d)
    BY <1>1 DEF Good, WaitersSound, SameLog
  <1>5. Good(q, d)
    BY <1>2, <1>3, <1>4 DEF Good
  <1>6. \A p \in Server : Counted(q, p) = Counted(r, p)
    BY <1>1 DEF Counted
  <1>7. Keeps(r, q, d)
    BY <1>1, <1>5, <1>6, SameReplies DEF Keeps
  <1> QED BY <1>1, <1>7 DEF SameLog

\* The term and vote that a waiter without a ticket has waited for are on disk.
LEMMA WaitedReaches ==
    ASSUME NEW r, NEW d, Good(r, d), NEW w, SoundWaiter(w, r.file, d), w.ticket = 0,
           w.type # "ENTRY"
    PROVE  Reaches(w.term, w.vote, d.term, d.vote)
  <1>1. r.file \in Seq(FileRecord)
    BY DEF Good, FileSound
  <1>2. 0 \notin DOMAIN r.file
    BY <1>1, SMTT(60)
  <1> QED BY <1>2 DEF SoundWaiter

\* raft_waiter_complete(): a term and vote are noted as synced only when their
\* record is on disk.
LEMMA WaiterCompleteKeeps ==
    ASSUME NEW r, NEW d, Good(r, d), r.waiters # <<>>, Head(r.waiters).ticket = 0
    PROVE  Keeps(r, raft_waiter_complete(r), d)
  <1> DEFINE w == Head(r.waiters)
             r1 == [r EXCEPT !.waiters = Tail(@)]
             r2 == IF r.role = "LEADER" THEN raft_update_match_index(r1, r.sid, w.index) ELSE r1
             x == IF w.type = "ENTRY" THEN [r2 EXCEPT !.log_synced = w.index]
                  ELSE [r1 EXCEPT !.synced_term = w.term, !.synced_vote = w.vote]
  <1>0. r.sid \in Server
    BY DEF Good, VoteTypes
  <1>1. raft_waiter_complete(r) = raft_waiter_complete_rpc(x, w.rpcs)
    BY DEF raft_waiter_complete
  <1>2. Keeps(r, r1, d) /\ SoundWaiter(w, r.file, d) /\ w.ticket = 0
    BY WaiterTakenKeeps
  <1> HIDE DEF w, r1
  <1>3. Good(r1, d)
    BY <1>2 DEF Keeps
  <1>4. w.index \in Int /\ w.term \in Nat /\ w.vote \in Sid /\ SoundQueues(w.rpcs)
    BY <1>2 DEF SoundWaiter
  <1>5. Keeps(r, x, d)
    <2>1. CASE w.type = "ENTRY"
      <3>1. Keeps(r1, r2, d)
        BY <1>0, <1>3, <1>4, KeepsRefl, UpdateMatchIndexKeeps
      <3> HIDE DEF r2
      <3>2. Good(r2, d)
        BY <3>1 DEF Keeps
      <3>3. x = [r2 EXCEPT !.log_synced = w.index]
        BY <2>1
      <3> HIDE DEF x
      <3>4. Keeps(r2, x, d)
        BY <3>2, <3>3, IndexSyncedKeeps
      <3> QED BY <1>2, <3>1, <3>4, KeepsTrans
    <2>2. CASE w.type # "ENTRY"
      <3>1. Reaches(w.term, w.vote, d.term, d.vote)
        BY <1>2, <2>2, WaitedReaches
      <3>2. Keeps(r1, x, d)
        BY <1>3, <1>4, <2>2, <3>1, TermSyncedKeeps
      <3> HIDE DEF x
      <3> QED BY <1>2, <3>2, KeepsTrans
    <2> QED BY <2>1, <2>2
  <1> HIDE DEF x
  <1>6. Good(x, d)
    BY <1>5 DEF Keeps
  <1>7. Keeps(x, raft_waiter_complete_rpc(x, w.rpcs), d)
    BY <1>4, <1>6, WaiterCompleteRpcKeeps
  <1> QED BY <1>1, <1>5, <1>7, KeepsTrans

\* What raft_apply_record() makes of the first record of a sound file: a state is
\* taken as it is, and no other record touches term and vote.
LEMMA ApplyRecordSound ==
    ASSUME NEW r, NEW d, Good(r, d), r.file # <<>>,
           NEW rec, rec = Head(r.file), NEW e, e = raft_apply_record(d, rec)
    PROVE  /\ DiskSound(e)
           /\ IsState(rec) => e.term = rec.term /\ e.vote = rec.vote
           /\ ~IsState(rec) => e.term = d.term /\ e.vote = d.vote
           /\ Reaches(d.term, d.vote, e.term, e.vote)
  <1> DEFINE ok == Acceptable(d, rec)
             d1 == [d EXCEPT !.term = MaxOf(@, rec.term),
                             !.vote = IF rec.term > d.term THEN Zero ELSE @,
                             !.readable = @ /\ ok]
             k == rec.index - d.log_start
             ent == [term |-> rec.term, data |-> rec.data]
             es == Append(SubSeq(d.entries, 1, k), ent)
  <1>0. /\ DOMAIN d = DiskFields /\ d.term \in Nat /\ d.vote \in Sid /\ d.log_start \in Int
        /\ d.commit_index \in Int /\ d.entries \in Seq(LogEntry)
        /\ \A i \in DOMAIN d.entries : d.entries[i].term <= d.term
    BY DEF Good, DiskSound, LogSound
  <1>1. r.file \in Seq(FileRecord)
    BY DEF Good, FileSound
  <1>2. rec \in FileRecord /\ rec = r.file[1] /\ 1 \in DOMAIN r.file /\ DOMAIN r.file = 1 .. Len(r.file)
    BY <1>1, SMTT(60)
  <1>3. rec.term \in Nat
    BY <1>2, SMTT(60) DEF FileRecord
  <1>4. CASE rec.type = "STATE"
    <2>1. rec.vote \in Sid
      BY <1>2, <1>4 DEF FileRecord
    <2>2. Reaches(d.term, d.vote, rec.term, rec.vote)
      BY <1>2, <1>4 DEF Good, FileSound, IsState
    <2>3. e = IF rec.vote = Zero THEN d1 ELSE [d1 EXCEPT !.vote = rec.vote]
      BY <1>4 DEF raft_apply_record
    <2>4. /\ DOMAIN e = DiskFields /\ e.log_start = d.log_start /\ e.commit_index = d.commit_index
          /\ e.entries = d.entries /\ e.term = MaxOf(d.term, rec.term)
          /\ e.vote = IF rec.vote = Zero THEN IF rec.term > d.term THEN Zero ELSE d.vote
                      ELSE rec.vote
      <3> HIDE DEF ok
      <3> QED BY <1>0, <2>3 DEF DiskFields
    <2>5. e.term = rec.term /\ e.vote = rec.vote /\ d.term <= e.term
      BY <1>0, <1>3, <2>2, <2>4, SMTT(60) DEF Reaches, MaxOf
    <2>6. \A i \in DOMAIN d.entries : d.entries[i] \in LogEntry
      BY <1>0, SMTT(60)
    <2>7. \A i \in DOMAIN d.entries : d.entries[i].term \in Nat
      BY <2>6 DEF LogEntry
    <2>8. \A i \in DOMAIN d.entries : d.entries[i].term <= e.term
      BY <1>0, <1>3, <2>5, <2>7, SMTT(60)
    <2>9. DiskSound(e)
      BY <1>0, <1>3, <2>1, <2>4, <2>5, <2>8 DEF DiskSound, LogSound
    <2> QED BY <1>4, <2>2, <2>5, <2>9 DEF IsState
  <1>5. CASE rec.type = "ENTRY"
    <2>1. rec.term <= d.term /\ rec.index \in Int /\ rec.data \in Data
      <3>1. rec.index \in Int /\ rec.data \in Data
        BY <1>2, <1>5 DEF FileRecord
      <3>2. \/ rec.term <= d.term
            \/ \E j \in DOMAIN r.file : j < 1
        BY <1>2, <1>5 DEF Good, FileSound
      <3> QED BY <1>2, <3>1, <3>2, SMTT(60)
    <2>2. e = IF ~ok THEN d1 ELSE [d1 EXCEPT !.entries = es]
      BY <1>0, <1>5 DEF raft_apply_record, DiskFields
    <2>3. ok => rec.index >= d.log_start /\ rec.index <= d.log_start + Len(d.entries)
      BY <1>5 DEF Acceptable
    <2> HIDE DEF ok
    <2>4. /\ DOMAIN e = DiskFields /\ e.log_start = d.log_start /\ e.commit_index = d.commit_index
          /\ e.term = MaxOf(d.term, rec.term)
          /\ e.vote = IF rec.term > d.term THEN Zero ELSE d.vote
          /\ e.entries = IF ~ok THEN d.entries ELSE es
      <3> HIDE DEF es
      <3> QED BY <1>0, <2>2 DEF DiskFields
    <2>5. e.term = d.term /\ e.vote = d.vote
      BY <1>0, <1>3, <2>1, <2>4, SMTT(60) DEF MaxOf
    <2>6. ent \in LogEntry /\ ent.term <= d.term
      BY <1>3, <2>1 DEF LogEntry
    <2>7. ASSUME ok PROVE es \in Seq(LogEntry) /\ \A i \in DOMAIN es : es[i].term <= d.term
      <3> DEFINE c == SubSeq(d.entries, 1, k)
      <3>1. Slice(c, d.entries, 1, k)
        BY <1>0, <2>1, <2>3, <2>7, SMTT(60) DEF Slice
      <3>2. es = Append(c, ent)
        OBVIOUS
      <3> HIDE DEF c, ent, es
      <3>3. c \in Seq(LogEntry) /\ \A i \in DOMAIN c : c[i].term <= d.term
        BY <1>0, <3>1, SliceSound
      <3>4. es \in Seq(LogEntry) /\ DOMAIN es = 1 .. Len(c) + 1 /\ es[Len(c) + 1] = ent
            /\ Len(c) \in Nat /\ \A i \in 1 .. Len(c) : i \in DOMAIN c /\ es[i] = c[i]
        BY <2>6, <3>2, <3>3, SMTT(60)
      <3> QED BY <2>6, <3>3, <3>4, SMTT(60)
    <2> HIDE DEF es
    <2>8. e.entries \in Seq(LogEntry) /\ \A i \in DOMAIN e.entries : e.entries[i].term <= e.term
      BY <1>0, <2>4, <2>5, <2>7
    <2>9. DiskSound(e)
      BY <1>0, <2>4, <2>5, <2>8 DEF DiskSound, LogSound
    <2> QED BY <1>5, <2>5, <2>9 DEF IsState, Reaches
  <1>6. CASE rec.type = "COMMIT"
    <2>1. rec.term = 0 /\ rec.index \in Int
      BY <1>2, <1>6 DEF FileRecord
    <2>2. e = IF ok THEN [d1 EXCEPT !.commit_index = rec.index] ELSE d1
      BY <1>6 DEF raft_apply_record
    <2> HIDE DEF ok
    <2>3. /\ DOMAIN e = DiskFields /\ e.log_start = d.log_start
          /\ e.commit_index \in {d.commit_index, rec.index}
          /\ e.entries = d.entries /\ e.term = MaxOf(d.term, rec.term)
          /\ e.vote = IF rec.term > d.term THEN Zero ELSE d.vote
      BY <1>0, <2>2 DEF DiskFields
    <2>4. e.term = d.term /\ e.vote = d.vote
      BY <1>0, <2>1, <2>3, SMTT(60) DEF MaxOf
    <2>5. DiskSound(e)
      BY <1>0, <2>1, <2>3, <2>4 DEF DiskSound, LogSound
    <2> QED BY <1>6, <2>4, <2>5 DEF IsState, Reaches
  <1> QED BY <1>2, <1>4, <1>5, <1>6 DEF FileRecord

\* The order of terms and votes in which raft_set_term() writes them is transitive.
LEMMA ReachesTransitive ==
    ASSUME NEW t \in Nat, NEW v, NEW u \in Nat, NEW w, NEW x \in Nat, NEW y,
           Reaches(t, v, u, w), Reaches(u, w, x, y)
    PROVE  Reaches(t, v, x, y)
  BY SMTT(60) DEF Reaches

\* Nothing lies between a term and vote and themselves: what raft_set_term() has
\* replaced does not come back.
LEMMA ReachesAntisymmetric ==
    ASSUME NEW t \in Nat, NEW v, NEW u \in Nat, NEW w,
           Reaches(t, v, u, w), Reaches(u, w, t, v)
    PROVE  u = t /\ w = v
  BY SMTT(60) DEF Reaches

\* A term and vote that are on disk are not followed by an earlier term.
LEMMA ReachesLater ==
    ASSUME NEW t \in Nat, NEW v, NEW u \in Nat, NEW w, Reaches(t, v, u, w), NEW x \in Nat, x <= t
    PROVE  x <= u
  BY SMTT(60) DEF Reaches

\* One more record of the file is synced.
LEMMA SyncedKeeps ==
    ASSUME NEW r, NEW d, Good(r, d), r.file # <<>>,
           NEW q, q = Synced1(r), NEW e, e = raft_apply_record(d, Head(r.file))
    PROVE  Keeps(r, q, e) /\ Reaches(d.term, d.vote, e.term, e.vote)
  <1> DEFINE f == r.file
             g == Tail(r.file)
             n == Len(r.file)
             ws == [i \in DOMAIN r.waiters |->
                       [r.waiters[i] EXCEPT !.ticket = IF @ > 0 THEN @ - 1 ELSE 0]]
  <1>0. /\ DOMAIN r = Fields /\ f \in Seq(FileRecord) /\ r.term \in Nat /\ d.term \in Nat
        /\ r.synced_term \in Nat /\ IsSeq(r.waiters)
        /\ \A i \in DOMAIN r.waiters : SoundWaiter(r.waiters[i], f, d)
    BY DEF Good, IndexTypes, FileSound, VoteTypes, DiskSound, WaitersSound
  <1>1. /\ n \in Nat /\ n > 0 /\ DOMAIN f = 1 .. n /\ Head(f) = f[1]
        /\ g \in Seq(FileRecord) /\ DOMAIN g = 1 .. n - 1
        /\ \A i \in 1 .. n - 1 : g[i] = f[i + 1]
    BY <1>0, SMTT(60)
  <1>2. /\ DiskSound(e)
        /\ IsState(f[1]) => e.term = f[1].term /\ e.vote = f[1].vote
        /\ ~IsState(f[1]) => e.term = d.term /\ e.vote = d.vote
        /\ Reaches(d.term, d.vote, e.term, e.vote)
    BY <1>1, ApplyRecordSound, SMTT(60)
  <1>3. /\ Reaches(r.synced_term, r.synced_vote, d.term, d.vote)
        /\ Reaches(d.term, d.vote, r.term, r.vote)
        /\ \A i \in DOMAIN f : IsState(f[i]) =>
               /\ Reaches(d.term, d.vote, f[i].term, f[i].vote)
               /\ Reaches(f[i].term, f[i].vote, r.term, r.vote)
        /\ \A i, j \in DOMAIN f : (IsState(f[i]) /\ IsState(f[j]) /\ i < j) =>
               Reaches(f[i].term, f[i].vote, f[j].term, f[j].vote)
        /\ \A i \in DOMAIN f : f[i].type = "ENTRY" =>
               \/ f[i].term <= d.term
               \/ \E j \in DOMAIN f : j < i /\ IsState(f[j]) /\ f[i].term <= f[j].term
        /\ \/ d.term = r.term /\ d.vote = r.vote
           \/ \E i \in DOMAIN f : f[i] = StateRec(r.term, r.vote)
    BY DEF Good, FileSound
  <1>4. /\ DOMAIN q = Fields /\ SameIndexes(r, q) /\ SameElection(r, q)
        /\ q.entries = r.entries /\ q.conns = r.conns /\ q.complaints = r.complaints
        /\ q.file = g /\ q.waiters = ws
    BY <1>0 DEF Synced1, Fields, SameIndexes, SameElection
  <1>5. 1 \in DOMAIN f /\ e.term \in Nat /\ \A i \in DOMAIN f : f[i] \in FileRecord
    <2>1. 1 \in DOMAIN f
      BY <1>1, SMTT(60)
    <2>2. e.term \in Nat
      BY <1>2 DEF DiskSound
    <2>3. \A i \in DOMAIN f : f[i] \in FileRecord
      BY <1>0, SMTT(60)
    <2> QED BY <2>1, <2>2, <2>3
  <1>6. \A i \in DOMAIN f : f[i].term \in Nat
    BY <1>5, SMTT(60) DEF FileRecord
  <1> HIDE DEF f, g, n, ws
  <1>t. /\ r.term \in Nat /\ d.term \in Nat /\ e.term \in Nat /\ r.synced_term \in Nat
        /\ Reaches(d.term, d.vote, e.term, e.vote)
        /\ Reaches(r.synced_term, r.synced_vote, d.term, d.vote)
    BY <1>0, <1>2, <1>3, <1>5
  <1>7. Reaches(e.term, e.vote, r.term, r.vote)
    BY <1>2, <1>3, <1>5
  <1>8. FileSound(q, e)
    <2>1. Reaches(r.synced_term, r.synced_vote, e.term, e.vote)
      BY <1>t, ReachesTransitive
    <2>2. ASSUME NEW i \in DOMAIN g, IsState(g[i])
          PROVE  /\ Reaches(e.term, e.vote, g[i].term, g[i].vote)
                 /\ Reaches(g[i].term, g[i].vote, r.term, r.vote)
      <3>1. i + 1 \in DOMAIN f /\ g[i] = f[i + 1] /\ 1 < i + 1
        BY <1>1, SMTT(60)
      <3>2. Reaches(g[i].term, g[i].vote, r.term, r.vote)
        BY <1>3, <2>2, <3>1
      <3>3. CASE IsState(f[1])
        <4>1. Reaches(f[1].term, f[1].vote, g[i].term, g[i].vote)
          BY <1>3, <1>5, <2>2, <3>1, <3>3
        <4> QED BY <1>2, <3>2, <3>3, <4>1
      <3>4. CASE ~IsState(f[1])
        BY <1>2, <1>3, <2>2, <3>1, <3>2, <3>4
      <3> QED BY <3>3, <3>4
    <2>3. ASSUME NEW i \in DOMAIN g, NEW j \in DOMAIN g, IsState(g[i]), IsState(g[j]), i < j
          PROVE  Reaches(g[i].term, g[i].vote, g[j].term, g[j].vote)
      <3>1. /\ i + 1 \in DOMAIN f /\ g[i] = f[i + 1] /\ i + 1 < j + 1
            /\ j + 1 \in DOMAIN f /\ g[j] = f[j + 1]
        BY <1>1, <2>3, SMTT(60)
      <3> QED BY <1>3, <2>3, <3>1
    <2>4. ASSUME NEW i \in DOMAIN g, g[i].type = "ENTRY"
          PROVE  \/ g[i].term <= e.term
                 \/ \E j \in DOMAIN g : j < i /\ IsState(g[j]) /\ g[i].term <= g[j].term
      <3>1. i + 1 \in DOMAIN f /\ g[i] = f[i + 1]
        BY <1>1, SMTT(60)
      <3>2. g[i].term \in Nat
        BY <1>6, <3>1
      <3>3. CASE g[i].term <= d.term
        BY <1>t, <3>2, <3>3, ReachesLater
      <3>4. CASE ~(g[i].term <= d.term)
        <4>1. PICK j \in DOMAIN f : j < i + 1 /\ IsState(f[j]) /\ g[i].term <= f[j].term
          BY <1>3, <2>4, <3>1, <3>4
        <4>2. CASE j = 1
          BY <1>2, <4>1, <4>2
        <4>3. CASE j # 1
          <5>1. j - 1 \in DOMAIN g /\ g[j - 1] = f[j] /\ j - 1 < i
            BY <1>1, <4>1, <4>3, SMTT(60)
          <5> QED BY <4>1, <5>1
        <4> QED BY <4>2, <4>3
      <3> QED BY <3>3, <3>4
    <2>5. \/ e.term = r.term /\ e.vote = r.vote
          \/ \E i \in DOMAIN g : g[i] = StateRec(r.term, r.vote)
      <3>1. CASE d.term = r.term /\ d.vote = r.vote
        BY <1>t, <1>7, <3>1, ReachesAntisymmetric
      <3>2. CASE \E i \in DOMAIN f : f[i] = StateRec(r.term, r.vote)
        <4>1. PICK i \in DOMAIN f : f[i] = StateRec(r.term, r.vote)
          BY <3>2
        <4>2. CASE i = 1
          <5>1. IsState(f[1]) /\ f[1].term = r.term /\ f[1].vote = r.vote
            BY <4>1, <4>2, SMTT(60) DEF StateRec, IsState
          <5> QED BY <1>2, <5>1
        <4>3. CASE i # 1
          <5>1. i - 1 \in DOMAIN g /\ g[i - 1] = f[i]
            BY <1>1, <4>3, SMTT(60)
          <5> QED BY <4>1, <5>1
        <4> QED BY <4>2, <4>3
      <3> QED BY <1>3, <3>1, <3>2
    <2> QED BY <1>1, <1>4, <1>7, <2>1, <2>2, <2>3, <2>4, <2>5 DEF FileSound, SameElection
  <1>9. WaitersSound(q, e)
    <2>1. DOMAIN r.waiters = 1 .. Len(r.waiters) /\ Len(r.waiters) \in Nat
      BY <1>0, ElemsDomain
    <2>2. DOMAIN ws = 1 .. Len(r.waiters)
      BY <2>1 DEF ws
    <2>3. IsSeq(ws)
      <3>1. ws \in [1 .. Len(r.waiters) -> Elems(ws)]
        BY <2>1 DEF ws, Elems
      <3> QED BY <2>1, <3>1, SMTT(60) DEF IsSeq
    <2>4. ASSUME NEW i \in DOMAIN ws
          PROVE  SoundWaiter(ws[i], g, e)
      <3> DEFINE w == r.waiters[i]
                 t == IF w.ticket > 0 THEN w.ticket - 1 ELSE 0
                 u == ws[i]
      <3>1. SoundWaiter(w, f, d)
        BY <1>0, <2>1, <2>2
      <3>2. u = [w EXCEPT !.ticket = t]
        BY <2>1, <2>2 DEF ws
      <3>3. DOMAIN w = WaiterFields /\ w.ticket \in Nat /\ w.term \in Nat
        BY <3>1 DEF SoundWaiter
      <3> HIDE DEF u, w
      <3>4. /\ DOMAIN u = WaiterFields /\ u.ticket = t /\ u.index = w.index /\ u.term = w.term
            /\ u.vote = w.vote /\ u.rpcs = w.rpcs /\ u.type = w.type
        BY <3>2, <3>3 DEF WaiterFields
      <3>5. t \in Nat
        BY <3>3, SMTT(60)
      <3>6. ASSUME u.type # "ENTRY"
            PROVE  \/ u.ticket = 0 /\ Reaches(u.term, u.vote, e.term, e.vote)
                   \/ u.ticket \in DOMAIN g /\ g[u.ticket] = StateRec(u.term, u.vote)
        <4>1. CASE w.ticket = 0 /\ Reaches(w.term, w.vote, d.term, d.vote)
          <5>1. Reaches(w.term, w.vote, e.term, e.vote)
            BY <1>t, <3>3, <4>1, ReachesTransitive
          <5> QED BY <3>4, <4>1, <5>1, SMTT(60)
        <4>2. CASE w.ticket \in DOMAIN f /\ f[w.ticket] = StateRec(w.term, w.vote)
          <5>1. CASE w.ticket = 1
            <6>1. IsState(f[1]) /\ f[1].term = w.term /\ f[1].vote = w.vote
              BY <4>2, <5>1, SMTT(60) DEF StateRec, IsState
            <6>2. e.term = w.term /\ e.vote = w.vote
              BY <1>2, <6>1
            <6>3. u.ticket = 0
              BY <3>4, <5>1, SMTT(60)
            <6> QED BY <3>4, <6>2, <6>3 DEF Reaches
          <5>2. CASE w.ticket # 1
            <6>1. w.ticket - 1 \in DOMAIN g /\ g[w.ticket - 1] = f[w.ticket] /\ t = w.ticket - 1
              BY <1>1, <3>3, <4>2, <5>2, SMTT(60)
            <6> QED BY <3>4, <4>2, <6>1
          <5> QED BY <5>1, <5>2
        <4> QED BY <3>1, <3>4, <3>6, <4>1, <4>2 DEF SoundWaiter
      <3>7. SoundWaiter(u, g, e)
        BY <3>1, <3>4, <3>5, <3>6 DEF SoundWaiter
      <3> QED BY <3>7 DEF u
    <2> QED BY <1>4, <2>3, <2>4 DEF WaitersSound
  <1>10. /\ IndexTypes(q) /\ VoteTypes(q) /\ SoundQueues(q.conns) /\ LogSound(q) /\ TallySound(q)
    BY <1>4 DEF Good, IndexTypes, SameIndexes, VoteTypes, SameElection, LogSound, TallySound
  <1>11. Good(q, e)
    BY <1>2, <1>8, <1>9, <1>10 DEF Good
  <1> QED BY <1>2, <1>4, <1>11, SameReplies, SameCounted, SMTT(60) DEF Keeps, SameElection

\* The state that raft_open() reads from a sound disk is sound.
LEMMA OpenedGood ==
    ASSUME NEW s \in Server, NEW d, DiskSound(d), NEW r, r = Opened(s, d)
    PROVE  /\ Good(r, d) /\ r.sid = s /\ r.role = "FOLLOWER" /\ r.conns = NoRpcs
           /\ r.complaints = {}
  <1>0. /\ DOMAIN d = DiskFields /\ d.term \in Nat /\ d.vote \in Sid /\ d.log_start \in Int
        /\ d.commit_index \in Int /\ LogSound(d)
    BY DEF DiskSound
  <1>1. /\ DOMAIN r = Fields /\ r.sid = s /\ r.term = d.term /\ r.vote = d.vote
        /\ r.synced_term = d.term /\ r.synced_vote = d.vote /\ r.entries = d.entries
        /\ r.log_start = d.log_start /\ r.role = "FOLLOWER" /\ r.commit_index = d.commit_index
        /\ r.last_applied = d.log_start - 2 /\ r.n_votes = 0
        /\ r.svote = [p \in Server |-> Zero] /\ r.next_index = [p \in Server |-> 0]
        /\ r.match_index = [p \in Server |-> 0] /\ r.waiters = <<>> /\ r.file = <<>>
        /\ r.conns = [p \in Server |-> <<>>] /\ r.complaints = {}
    BY DEF Opened, Fields
  <1>2. IndexTypes(r)
    BY <1>0, <1>1, SMTT(60) DEF IndexTypes
  <1>3. VoteTypes(r)
    BY <1>0, <1>1, SMTT(60) DEF VoteTypes, Sid
  <1>4. r.conns = NoRpcs /\ SoundQueues(r.conns)
    BY <1>1, NoRpcsSound DEF NoRpcs
  <1>5. LogSound(r) /\ TallySound(r)
    BY <1>0, <1>1 DEF LogSound, TallySound
  <1>6. FileSound(r, d)
    BY <1>1, SMTT(60) DEF FileSound, Reaches
  <1>7. WaitersSound(r, d)
    BY <1>1, SMTT(60) DEF WaitersSound, IsSeq, Elems
  <1> QED BY <1>1, <1>2, <1>3, <1>4, <1>5, <1>6, <1>7 DEF Good

\* raft_open(); no reply is on its way from a server that has just opened its
\* file, and nothing has been counted for another server.
LEMMA OpenGood ==
    ASSUME NEW s \in Server, NEW d, DiskSound(d), NEW r, r = raft_open(s, d)
    PROVE  /\ Good(r, d) /\ r.sid = s
           /\ \A a \in Replies(r) : a = <<d.term, d.vote>> /\ d.vote # Zero
           /\ \A p \in Server \ {s} : Counted(r, p) = {}
           /\ "vote" \notin r.complaints
  <1> DEFINE o == Opened(s, d)
  <1>1. Good(o, d) /\ o.sid = s /\ o.role = "FOLLOWER" /\ o.conns = NoRpcs /\ o.complaints = {}
    BY OpenedGood
  <1> HIDE DEF o
  <1>2. \A p \in Server \ {s} : Counted(o, p) = {}
    BY <1>1 DEF Counted
  <1>3. \A e \in Server : Elems(o.conns[e]) = {}
    BY <1>1, SMTT(60) DEF NoRpcs, Elems
  <1>4. Replies(o) = {}
    BY <1>3, InReplies
  <1>5. r \in {raft_start_election(o, FALSE), o}
    BY DEF raft_open, o
  <1>6. Keeps(o, r, d)
    BY <1>1, <1>5, StartElectionKeeps, KeepsRefl
  <1> QED BY <1>1, <1>2, <1>4, <1>6 DEF Keeps
=============================================================================
