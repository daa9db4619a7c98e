------------------------- MODULE RaftReplicaProofs -------------------------
(***************************************************************************)
(* What the functions that send RPCs, write the log, complete waiters,     *)
(* replicate, commit and install snapshots do to the invariant of          *)
(* RaftVotes: they change nothing that a vote depends on.                  *)
(***************************************************************************)
EXTENDS RaftVotes, WellFoundedInduction, TLAPS

\* A leaf that names no prover is tried with Zenon and then with SMT.
USE ZenonT(30), SMTT(120), ZenonT(120)

\* A typed sequence is one over its own elements.
LEMMA SeqIsSeq ==
    ASSUME NEW S, NEW q \in Seq(S)
    PROVE  IsSeq(q) /\ Elems(q) \subseteq S
  BY SMTT(60) DEF IsSeq, Elems

\* The domain and the elements of a sequence.
LEMMA ElemsDomain ==
    ASSUME NEW q, IsSeq(q)
    PROVE  /\ Len(q) \in Nat
           /\ DOMAIN q = 1 .. Len(q)
           /\ \A i \in DOMAIN q : q[i] \in Elems(q)
  BY SMTT(60) DEF IsSeq, Elems

\* A connection that carries nothing.
LEMMA EmptyConn == IsSeq(<<>>) /\ Elems(<<>>) = {}
  BY SMTT(60) DEF IsSeq, Elems

\* The elements after Append.
LEMMA AppendElems ==
    ASSUME NEW q, IsSeq(q), NEW x
    PROVE  IsSeq(Append(q, x)) /\ Elems(Append(q, x)) \subseteq Elems(q) \cup {x}
  <1>1. Append(q, x) \in Seq(Elems(q) \cup {x})
    BY SMTT(60) DEF IsSeq
  <1> QED BY <1>1, SeqIsSeq

\* The first element and those of the tail.
LEMMA TailElems ==
    ASSUME NEW q, IsSeq(q), q # <<>>
    PROVE  /\ IsSeq(Tail(q))
           /\ Elems(Tail(q)) \subseteq Elems(q)
           /\ Head(q) \in Elems(q)
           /\ Head(q) = q[1]
           /\ Len(q) > 0
  <1>1. Tail(q) \in Seq(Elems(q))
    BY SMTT(60) DEF IsSeq
  <1>2. Head(q) \in Elems(q) /\ Head(q) = q[1] /\ Len(q) > 0
    BY SMTT(60) DEF IsSeq
  <1> QED BY <1>1, <1>2, SeqIsSeq

\* A connection carries nothing but what was sent on it.
LEMMA CarryElems ==
    ASSUME NEW q, IsSeq(q), NEW ms, IsSeq(ms)
    PROVE  /\ IsSeq(Carry(q, ms))
           /\ Elems(Carry(q, ms)) \subseteq Elems(q) \cup Elems(ms)
  <1> DEFINE S == Elems(q) \cup Elems(ms)
             c == q \o ms
             n == MinOf(MaxChannel, Len(q) + Len(ms))
  <1>1. q \in Seq(S) /\ ms \in Seq(S)
    BY SMTT(60) DEF IsSeq
  <1>2. c \in Seq(S) /\ Len(c) = Len(q) + Len(ms)
    BY <1>1, SMTT(60)
  <1>3. n \in Nat /\ n <= Len(c)
    BY <1>1, <1>2, BoundAssumption, SMTT(60) DEF MinOf
  <1> HIDE DEF c, n
  <1>4. SubSeq(c, 1, n) \in Seq(S)
    BY <1>2, <1>3, SMTT(60)
  <1>5. Carry(q, ms) = SubSeq(c, 1, n)
    BY DEF Carry, c, n
  <1> QED BY <1>4, <1>5, SeqIsSeq

\* The length of a sequence to which another is appended.
LEMMA ConcatLength ==
    ASSUME NEW S, NEW q \in Seq(S), NEW c \in Seq(S)
    PROVE  Len(q \o c) = Len(q) + Len(c)
  BY SMTT(60)

\* A set of naturals has a least element.
LEMMA LeastNat ==
    ASSUME NEW S, S \subseteq Nat, S # {}
    PROVE  \E x \in S : \A y \in S : x <= y
  <1> DEFINE R == OpToRel(<, Nat)
  <1>1. \A x, y \in Nat : x < y => <<x, y>> \in R
    BY DEF OpToRel
  <1>2. IsWellFoundedOn(R, Nat)
    BY NatLessThanWellFounded
  <1> HIDE DEF R
  <1>3. PICK x \in S : \A y \in S : ~(<<y, x>> \in R)
    BY <1>2, WFMin
  <1>4. \A y \in S : x \in Nat /\ y \in Nat /\ ~(y < x)
    BY <1>1, <1>3
  <1>5. \A y \in S : x <= y
    BY <1>4, SMTT(60)
  <1> QED BY <1>5

\* The CHOICE of a least element, as raft_handle_append_entries() makes it.
LEMMA LeastOf ==
    ASSUME NEW S, S \subseteq Int, S # {}, NEW b \in Int, \A x \in S : b <= x
    PROVE  (CHOOSE x \in S : \A y \in S : x <= y) \in S
  <1> DEFINE T == {x - b : x \in S}
  <1>0. \A x \in S : x - b \in Nat
    BY SMTT(60)
  <1>1. T \subseteq Nat /\ T # {}
    BY <1>0
  <1> HIDE DEF T
  <1>2. PICK t \in T : \A y \in T : t <= y
    BY <1>1, LeastNat
  <1>3. PICK x \in S : t = x - b
    BY <1>2 DEF T
  <1>4. \A y \in S : x <= y
    <2> SUFFICES ASSUME NEW y \in S PROVE x <= y
      OBVIOUS
    <2>1. y - b \in T
      BY DEF T
    <2>2. x - b <= y - b
      BY <2>1, <1>2, <1>3
    <2> QED BY <2>2, SMTT(60)
  <1> QED BY <1>4

\* The CHOICE of a greatest element, as for the new commit index.
LEMMA GreatestOf ==
    ASSUME NEW S, S \subseteq Int, S # {}, NEW b \in Int, \A x \in S : x <= b
    PROVE  (CHOOSE x \in S : \A y \in S : y <= x) \in S
  <1> DEFINE T == {b - x : x \in S}
  <1>0. \A x \in S : b - x \in Nat
    BY SMTT(60)
  <1>1. T \subseteq Nat /\ T # {}
    BY <1>0
  <1> HIDE DEF T
  <1>2. PICK t \in T : \A y \in T : t <= y
    BY <1>1, LeastNat
  <1>3. PICK x \in S : t = b - x
    BY <1>2 DEF T
  <1>4. \A y \in S : y <= x
    <2> SUFFICES ASSUME NEW y \in S PROVE y <= x
      OBVIOUS
    <2>1. b - y \in T
      BY DEF T
    <2>2. b - x <= b - y
      BY <2>1, <1>2, <1>3
    <2> QED BY <2>2, SMTT(60)
  <1> QED BY <1>4

\* c is a part of the sequence q.
Slice(c, q, a, z) == a \in Int /\ z \in Int /\ a >= 1 /\ z <= Len(q) /\ c = SubSeq(q, a, z)

\* A slice of a sequence has only elements of it.
LEMMA SliceElems ==
    ASSUME NEW S, NEW q \in Seq(S), NEW a, NEW z, NEW c, Slice(c, q, a, z)
    PROVE  c \in Seq(S) /\ \A i \in DOMAIN c : \E k \in DOMAIN q : c[i] = q[k]
  <1>0. a \in Int /\ z \in Int
    BY DEF Slice
  <1>1. \A i \in a .. z : i \in DOMAIN q /\ q[i] \in S
    BY SMTT(60) DEF Slice
  <1>2. /\ c \in Seq(S)
        /\ Len(c) = IF a <= z THEN z - a + 1 ELSE 0
        /\ \A i \in 1 .. z - a + 1 : c[i] = q[a + i - 1]
    BY <1>0, <1>1, SMTT(60) DEF Slice
  <1>3. \A i \in DOMAIN c : c[i] = q[a + i - 1] /\ a + i - 1 \in a .. z
    BY <1>0, <1>2, SMTT(60)
  <1> QED BY <1>1, <1>2, <1>3

\* Terms stay bounded in a part of a log.
LEMMA SliceSound ==
    ASSUME NEW q \in Seq(LogEntry), NEW t, \A i \in DOMAIN q : q[i].term <= t,
           NEW a, NEW z, NEW c, Slice(c, q, a, z)
    PROVE  c \in Seq(LogEntry) /\ \A i \in DOMAIN c : c[i].term <= t
  <1>1. c \in Seq(LogEntry) /\ \A i \in DOMAIN c : \E k \in DOMAIN q : c[i] = q[k]
    BY SliceElems, SMTT(60)
  <1> QED BY <1>1

---------------------------------------------------------------------------
(* Changes of one server that create no vote.                              *)

\* Going from r to q, a server with disk d keeps its invariant, announces only
\* votes that are on its disk, and counts no vote of another server anew.
Keeps(r, q, d) ==
    /\ q.sid = r.sid
    /\ Good(q, d)
    /\ \A a \in Replies(q) : a \in Replies(r) \/ (a = <<d.term, d.vote>> /\ d.vote # Zero)
    /\ \A p \in Server \ {r.sid} : Counted(q, p) \subseteq Counted(r, p)
    /\ "vote" \in q.complaints => "vote" \in r.complaints

SameElection(r, q) ==
    /\ q.sid = r.sid /\ q.term = r.term /\ q.vote = r.vote
    /\ q.synced_term = r.synced_term /\ q.synced_vote = r.synced_vote
    /\ q.role = r.role /\ q.n_votes = r.n_votes /\ q.svote = r.svote
SameLog(r, q) == q.entries = r.entries /\ q.file = r.file
SameIndexes(r, q) ==
    /\ DOMAIN q = DOMAIN r
    /\ q.log_start = r.log_start /\ q.commit_index = r.commit_index
    /\ q.last_applied = r.last_applied /\ q.next_index = r.next_index
    /\ q.match_index = r.match_index /\ q.snap = r.snap
SameComplaint(r, q) == "vote" \in q.complaints => "vote" \in r.complaints

\* Two calls in a row keep what each of them keeps.
LEMMA KeepsTrans ==
    ASSUME NEW r, NEW q, NEW x, NEW d, Keeps(r, q, d), Keeps(q, x, d)
    PROVE  Keeps(r, x, d)
  BY DEF Keeps

\* A call that changes nothing.
LEMMA KeepsRefl ==
    ASSUME NEW r, NEW d, Good(r, d)
    PROVE  Keeps(r, r, d)
  BY DEF Keeps

\* Which votes the replies of a server announce.
LEMMA InReplies ==
    ASSUME NEW r, NEW a
    PROVE  a \in Replies(r) <=>
               \E e \in Server : \E m \in Elems(r.conns[e]) :
                   m.type = "VOTE_REPLY" /\ a = <<m.term, m.vote>>
  BY SMTT(60) DEF Replies

\* The replies depend on the connections only.
LEMMA SameReplies ==
    ASSUME NEW r, NEW q, q.conns = r.conns
    PROVE  Replies(q) = Replies(r)
  BY DEF Replies

\* The tally depends on the election state only.
LEMMA SameCounted ==
    ASSUME NEW r, NEW q, NEW p, SameElection(r, q)
    PROVE  Counted(q, p) = Counted(r, p)
  BY DEF Counted, SameElection

\* A change of anything but votes, log, waiters and connections.
LEMMA KeepsIndexes ==
    ASSUME NEW r, NEW q, NEW d, Good(r, d), IndexTypes(q), SameElection(r, q), SameLog(r, q),
           q.waiters = r.waiters, q.conns = r.conns, SameComplaint(r, q)
    PROVE  Keeps(r, q, d)
  <1>1. VoteTypes(q)
    BY DEF Good, VoteTypes, SameElection
  <1>2. SoundQueues(q.conns)
    BY DEF Good
  <1>3. LogSound(q)
    BY DEF Good, LogSound, SameElection, SameLog
  <1>4. FileSound(q, d)
    BY DEF Good, FileSound, SameElection, SameLog
  <1>5. WaitersSound(q, d)
    BY DEF Good, WaitersSound, SameLog
  <1>6. TallySound(q)
    BY DEF Good, TallySound, SameElection
  <1>7. Good(q, d)
    BY <1>1, <1>2, <1>3, <1>4, <1>5, <1>6 DEF Good
  <1> QED BY <1>7, SameReplies, SameCounted, SMTT(60) DEF Keeps, SameElection, SameComplaint

\* A change of what the connections carry.
LEMMA KeepsConns ==
    ASSUME NEW r, NEW q, NEW d, Good(r, d), SameIndexes(r, q), SameElection(r, q), SameLog(r, q),
           q.waiters = r.waiters, SameComplaint(r, q), DOMAIN q.conns = Server,
           \A e \in Server : /\ IsSeq(q.conns[e])
                             /\ \A m \in Elems(q.conns[e]) :
                                   \/ m \in Elems(r.conns[e])
                                   \/ /\ SoundRpc(m)
                                      /\ m.type = "VOTE_REPLY" => m.term = d.term /\ m.vote = d.vote
    PROVE  Keeps(r, q, d)
  <1>1. VoteTypes(q)
    BY DEF Good, VoteTypes, SameElection
  <1>2. SoundQueues(q.conns)
    BY DEF Good, SoundQueues
  <1>3. LogSound(q)
    BY DEF Good, LogSound, SameElection, SameLog
  <1>4. FileSound(q, d)
    BY DEF Good, FileSound, SameElection, SameLog
  <1>5. WaitersSound(q, d)
    BY DEF Good, WaitersSound, SameLog
  <1>6. TallySound(q)
    BY DEF Good, TallySound, SameElection
  <1>7. Good(q, d)
    BY <1>1, <1>2, <1>3, <1>4, <1>5, <1>6 DEF Good, IndexTypes, SameIndexes
  <1>8. ASSUME NEW a \in Replies(q)
        PROVE  a \in Replies(r) \/ (a = <<d.term, d.vote>> /\ d.vote # Zero)
    <2>1. PICK e \in Server : \E m \in Elems(q.conns[e]) :
                  m.type = "VOTE_REPLY" /\ a = <<m.term, m.vote>>
      BY <1>8, InReplies, SMTT(60)
    <2>2. PICK m \in Elems(q.conns[e]) : m.type = "VOTE_REPLY" /\ a = <<m.term, m.vote>>
      BY <2>1
    <2>3. CASE m \in Elems(r.conns[e])
      BY <2>2, <2>3, InReplies
    <2>4. CASE SoundRpc(m) /\ m.term = d.term /\ m.vote = d.vote
      BY <2>2, <2>4, ServerAssumption DEF SoundRpc
    <2> QED BY <2>2, <2>3, <2>4
  <1> QED BY <1>7, <1>8, SameCounted, SMTT(60) DEF Keeps, SameElection, SameComplaint

\* A change of the waiters.
LEMMA KeepsWaiters ==
    ASSUME NEW r, NEW q, NEW d, Good(r, d), SameIndexes(r, q), SameElection(r, q), SameLog(r, q),
           q.conns = r.conns, SameComplaint(r, q), WaitersSound(q, d)
    PROVE  Keeps(r, q, d)
  <1>1. VoteTypes(q)
    BY DEF Good, VoteTypes, SameElection
  <1>3. LogSound(q)
    BY DEF Good, LogSound, SameElection, SameLog
  <1>4. FileSound(q, d)
    BY DEF Good, FileSound, SameElection, SameLog
  <1>6. TallySound(q)
    BY DEF Good, TallySound, SameElection
  <1>7. Good(q, d)
    BY <1>1, <1>3, <1>4, <1>6 DEF Good, IndexTypes, SameIndexes
  <1> QED BY <1>7, SameReplies, SameCounted, SMTT(60) DEF Keeps, SameElection, SameComplaint

---------------------------------------------------------------------------
(* Sending.                                                                *)

Sent(r, q) == SameElection(r, q) /\ SameLog(r, q) /\ SameIndexes(r, q)

\* An RPC of the current state of r, and one that may be sent to the network.
OwnRpc(r, m) == /\ SoundRpc(m)
                /\ m.term = r.term
                /\ m.type = "VOTE_REPLY" => m.vote = r.vote

\* A synced reply announces the vote on disk: raft_is_rpc_synced() is sound.
LEMMA SyncedVote ==
    ASSUME NEW r, NEW d, Good(r, d), NEW m, SoundRpc(m), m.term >= r.term,
           raft_is_rpc_synced(r, m), m.type = "VOTE_REPLY"
    PROVE  m.term = d.term /\ m.vote = d.vote
  <1>1. m.term <= r.synced_term /\ m.vote = r.synced_vote
    BY DEF raft_is_rpc_synced
  <1>2. /\ Reaches(r.synced_term, r.synced_vote, d.term, d.vote)
        /\ Reaches(d.term, d.vote, r.term, r.vote)
    BY DEF Good, FileSound
  <1>3. /\ r.synced_term \in Nat /\ r.term \in Nat /\ d.term \in Nat /\ m.term \in Nat
        /\ m.vote # Zero
    BY ServerAssumption DEF Good, VoteTypes, DiskSound, SoundRpc
  <1> QED BY <1>1, <1>2, <1>3, SMTT(60) DEF Reaches

\* A complaint other than that of raft_accept_vote().
LEMMA ComplainKeeps ==
    ASSUME NEW r, NEW d, Good(r, d), NEW what, what # "vote"
    PROVE  /\ Keeps(r, Complain(r, what), d)
           /\ Sent(r, Complain(r, what))
  <1> DEFINE q == Complain(r, what)
  <1>1. DOMAIN r = Fields
    BY DEF Good, IndexTypes
  <1>2. Sent(r, q)
    BY <1>1 DEF Complain, Fields, Sent, SameElection, SameLog, SameIndexes
  <1>3. q.waiters = r.waiters /\ q.conns = r.conns /\ SameComplaint(r, q)
    BY <1>1 DEF Complain, Fields, SameComplaint
  <1>4. IndexTypes(q)
    BY <1>2 DEF Sent, Good, IndexTypes, SameIndexes
  <1> HIDE DEF q
  <1>5. Keeps(r, q, d)
    BY <1>2, <1>3, <1>4, KeepsIndexes DEF Sent
  <1> QED BY <1>2, <1>5 DEF q

\* The elements of a sequence of one.
LEMMA SingletonElems ==
    ASSUME NEW m
    PROVE  IsSeq(<<m>>) /\ Elems(<<m>>) = {m}
  BY SMTT(60) DEF IsSeq, Elems

\* raft_send_at() sends or defers; a vote that it sends is on disk.
LEMMA SendEachKeeps ==
    ASSUME NEW r, NEW d, Good(r, d), NEW f, DOMAIN f \subseteq Server,
           \A e \in DOMAIN f : OwnRpc(r, f[e])
    PROVE  /\ Keeps(r, raft_send_each(r, f), d)
           /\ Sent(r, raft_send_each(r, f))
  <1> DEFINE q == raft_send_each(r, f)
  <1>0. DOMAIN r = Fields /\ SoundQueues(r.conns) /\ WaitersSound(r, d)
    BY DEF Good, IndexTypes
  <1>1. CASE \A e \in DOMAIN f : raft_is_rpc_synced(r, f[e])
    <2> DEFINE c == [e \in Server |-> IF e \in DOMAIN f THEN Carry(r.conns[e], <<f[e]>>)
                                      ELSE r.conns[e]]
    <2>1. q = [r EXCEPT !.conns = c]
      BY <1>1 DEF raft_send_each
    <2> HIDE DEF c
    <2>2. Sent(r, q) /\ q.waiters = r.waiters /\ SameComplaint(r, q) /\ q.conns = c
      BY <2>1, <1>0, SMTT(60) DEF Fields, Sent, SameElection, SameLog, SameIndexes, SameComplaint
    <2>3. DOMAIN c = Server
      BY DEF c
    <2>4. ASSUME NEW e \in Server
          PROVE  /\ IsSeq(c[e])
                 /\ \A m \in Elems(c[e]) :
                       \/ m \in Elems(r.conns[e])
                       \/ /\ SoundRpc(m)
                          /\ m.type = "VOTE_REPLY" => m.term = d.term /\ m.vote = d.vote
      <3>1. CASE e \notin DOMAIN f
        BY <3>1, <1>0 DEF c, SoundQueues
      <3>2. CASE e \in DOMAIN f
        <4>1. c[e] = Carry(r.conns[e], <<f[e]>>)
          BY <3>2 DEF c
        <4>2. IsSeq(c[e]) /\ Elems(c[e]) \subseteq Elems(r.conns[e]) \cup {f[e]}
          BY <4>1, <1>0, CarryElems, SingletonElems, SMTT(60) DEF SoundQueues
        <4>3. SoundRpc(f[e]) /\ f[e].term >= r.term
          BY <3>2, SMTT(60) DEF OwnRpc, SoundRpc
        <4>4. f[e].type = "VOTE_REPLY" => f[e].term = d.term /\ f[e].vote = d.vote
          BY <3>2, <4>3, <1>1, SyncedVote, SMTT(60)
        <4> QED BY <4>2, <4>3, <4>4
      <3> QED BY <3>1, <3>2
    <2> HIDE DEF q
    <2>5. Keeps(r, q, d)
      BY <2>2, <2>3, <2>4, KeepsConns DEF Sent
    <2> QED BY <2>2, <2>5 DEF q
  <1>2. CASE ~(\A e \in DOMAIN f : raft_is_rpc_synced(r, f[e])) /\ r.waiters = <<>>
    BY <1>2, ComplainKeeps DEF raft_send_each
  <1>3. CASE ~(\A e \in DOMAIN f : raft_is_rpc_synced(r, f[e])) /\ r.waiters # <<>>
    <2> DEFINE n == Len(r.waiters)
               old == r.waiters[n].rpcs
               rpcs == [e \in Server |-> IF e \in DOMAIN f THEN Append(old[e], f[e]) ELSE old[e]]
               w == [r.waiters[n] EXCEPT !.rpcs = rpcs]
    <2>1. q = [r EXCEPT !.waiters = [@ EXCEPT ![n] = w]]
      BY <1>3 DEF raft_send_each
    <2>2. n \in DOMAIN r.waiters /\ IsSeq(r.waiters) /\ SoundWaiter(r.waiters[n], r.file, d)
      BY <1>0, <1>3, ElemsDomain, SMTT(60) DEF WaitersSound, IsSeq
    <2>3. DOMAIN r.waiters[n] = WaiterFields /\ SoundQueues(old)
      BY <2>2 DEF SoundWaiter
    <2>4. SoundQueues(rpcs)
      <3>1. ASSUME NEW e \in Server
            PROVE  IsSeq(rpcs[e]) /\ \A m \in Elems(rpcs[e]) : SoundRpc(m)
        BY <2>3, AppendElems, SMTT(60) DEF SoundQueues, OwnRpc
      <3> QED BY <3>1 DEF SoundQueues
    <2> HIDE DEF rpcs, old
    <2>5. SoundWaiter(w, r.file, d)
      BY <2>2, <2>3, <2>4 DEF SoundWaiter, WaiterFields
    <2> DEFINE ws == [r.waiters EXCEPT ![n] = w]
    <2> HIDE DEF w
    <2>6. ws \in Seq(Elems(r.waiters) \cup {w})
      BY <2>2, SMTT(60) DEF IsSeq
    <2>a. \A i \in DOMAIN ws : i \in DOMAIN r.waiters /\ ws[i] \in {w, r.waiters[i]}
      BY <2>2 DEF IsSeq
    <2>b. q = [r EXCEPT !.waiters = ws]
      BY <2>1
    <2> HIDE DEF ws
    <2>7. Sent(r, q) /\ q.conns = r.conns /\ SameComplaint(r, q)
          /\ q.waiters = ws /\ q.file = r.file
      BY <2>b, <1>0 DEF Fields, Sent, SameElection, SameLog, SameIndexes, SameComplaint
    <2> HIDE DEF q
    <2>8. WaitersSound(q, d)
      <3>1. IsSeq(q.waiters)
        BY <2>6, <2>7, SeqIsSeq
      <3>2. \A i \in DOMAIN q.waiters : SoundWaiter(q.waiters[i], q.file, d)
        BY <2>5, <2>7, <2>a, <1>0 DEF WaitersSound
      <3> QED BY <3>1, <3>2 DEF WaitersSound
    <2>9. Keeps(r, q, d)
      BY <2>7, <2>8, KeepsWaiters DEF Sent
    <2> QED BY <2>7, <2>9 DEF q
  <1> QED BY <1>1, <1>2, <1>3

\* raft_send() to one server.
LEMMA SendKeeps ==
    ASSUME NEW r, NEW d, Good(r, d), NEW e \in Server, NEW m, OwnRpc(r, m)
    PROVE  /\ Keeps(r, raft_send(r, e, m), d)
           /\ Sent(r, raft_send(r, e, m))
  <1> DEFINE f == [x \in {e} |-> m]
  <1>1. DOMAIN f \subseteq Server /\ \A x \in DOMAIN f : OwnRpc(r, f[x])
    OBVIOUS
  <1>2. raft_send(r, e, m) = raft_send_each(r, f)
    BY DEF raft_send
  <1> QED BY <1>1, <1>2, SendEachKeeps

\* raft_waiter_complete_rpc() sends only votes that are on disk.
LEMMA WaiterCompleteRpcKeeps ==
    ASSUME NEW r, NEW d, Good(r, d), NEW f, SoundQueues(f)
    PROVE  Keeps(r, raft_waiter_complete_rpc(r, f), d)
  <1> DEFINE q == raft_waiter_complete_rpc(r, f)
             late == \A e \in Server : \A i \in DOMAIN f[e] : f[e][i].term < r.term
             ready == \A e \in Server : \A i \in DOMAIN f[e] :
                          f[e][i].term >= r.term /\ raft_is_rpc_synced(r, f[e][i])
  <1>0. DOMAIN r = Fields /\ SoundQueues(r.conns)
    BY DEF Good, IndexTypes
  <1>1. CASE late
    BY <1>1, KeepsRefl DEF raft_waiter_complete_rpc
  <1>2. CASE ~late /\ ~ready
    BY <1>2, ComplainKeeps DEF raft_waiter_complete_rpc
  <1>3. CASE ~late /\ ready
    <2> DEFINE c == [e \in Server |-> Carry(r.conns[e], f[e])]
    <2>1. q = [r EXCEPT !.conns = c]
      BY <1>3 DEF raft_waiter_complete_rpc
    <2>3. DOMAIN c = Server
      OBVIOUS
    <2>4. ASSUME NEW e \in Server
          PROVE  /\ IsSeq(c[e])
                 /\ \A m \in Elems(c[e]) :
                       \/ m \in Elems(r.conns[e])
                       \/ /\ SoundRpc(m)
                          /\ m.type = "VOTE_REPLY" => m.term = d.term /\ m.vote = d.vote
      <3>1. IsSeq(c[e]) /\ Elems(c[e]) \subseteq Elems(r.conns[e]) \cup Elems(f[e])
        BY <1>0, CarryElems DEF SoundQueues
      <3>2. ASSUME NEW m \in Elems(f[e])
            PROVE  SoundRpc(m) /\ m.term >= r.term /\ raft_is_rpc_synced(r, m)
        BY <1>3 DEF SoundQueues, Elems
      <3> QED BY <3>1, <3>2, SyncedVote, SMTT(60)
    <2> HIDE DEF c
    <2>2. Sent(r, q) /\ q.waiters = r.waiters /\ SameComplaint(r, q) /\ q.conns = c
      BY <2>1, <1>0 DEF Fields, Sent, SameElection, SameLog, SameIndexes, SameComplaint
    <2> HIDE DEF q
    <2>5. Keeps(r, q, d)
      BY <2>2, <2>3, <2>4, KeepsConns DEF Sent
    <2> QED BY <2>5 DEF q
  <1> QED BY <1>1, <1>2, <1>3

---------------------------------------------------------------------------
(* Writing to the log.                                                     *)

\* A change of log, file and waiters.
LEMMA KeepsLog ==
    ASSUME NEW r, NEW q, NEW d, Good(r, d), IndexTypes(q), SameElection(r, q), LogSound(q),
           FileSound(q, d), WaitersSound(q, d), q.conns = r.conns, SameComplaint(r, q)
    PROVE  Keeps(r, q, d)
  <1>1. VoteTypes(q)
    BY DEF Good, VoteTypes, SameElection
  <1>2. TallySound(q)
    BY DEF Good, TallySound, SameElection
  <1>3. Good(q, d)
    BY <1>1, <1>2 DEF Good
  <1> QED BY <1>3, SameReplies, SameCounted, SMTT(60) DEF Keeps, SameElection, SameComplaint

\* Records that follow the others in the file, of entries and commit indexes.
LEMMA FileGrows ==
    ASSUME NEW r, NEW q, NEW d, VoteTypes(r), DiskSound(d), FileSound(r, d), SameElection(r, q),
           NEW fs \in Seq(FileRecord), q.file = r.file \o fs,
           \A i \in DOMAIN fs : ~IsState(fs[i]) /\ fs[i].term <= r.term
    PROVE  FileSound(q, d)
  <1> DEFINE n == Len(r.file)
             g == r.file \o fs
  <1>0. r.file \in Seq(FileRecord) /\ n \in Nat /\ DOMAIN r.file = 1 .. n
    BY SMTT(60) DEF FileSound
  <1>1. /\ g \in Seq(FileRecord)
        /\ DOMAIN g = 1 .. n + Len(fs)
        /\ \A i \in 1 .. n : g[i] = r.file[i]
        /\ \A i \in DOMAIN g : i > n => i - n \in DOMAIN fs /\ g[i] = fs[i - n]
    BY <1>0, SMTT(60)
  <1> HIDE DEF g, n
  <1>2. \A i \in DOMAIN g : IsState(g[i]) => i \in DOMAIN r.file /\ g[i] = r.file[i]
    BY <1>0, <1>1, SMTT(60)
  <1>3. DOMAIN r.file \subseteq DOMAIN g /\ DOMAIN r.file \subseteq Nat /\ DOMAIN g \subseteq Nat
    BY <1>0, <1>1, SMTT(60)
  <1>4. /\ Reaches(q.synced_term, q.synced_vote, d.term, d.vote)
        /\ Reaches(d.term, d.vote, q.term, q.vote)
        /\ \A i \in DOMAIN g : IsState(g[i]) =>
               /\ Reaches(d.term, d.vote, g[i].term, g[i].vote)
               /\ Reaches(g[i].term, g[i].vote, q.term, q.vote)
        /\ \A i, j \in DOMAIN g : (IsState(g[i]) /\ IsState(g[j]) /\ i < j) =>
               Reaches(g[i].term, g[i].vote, g[j].term, g[j].vote)
    BY <1>2 DEF FileSound, SameElection
  <1>5. \/ d.term = q.term /\ d.vote = q.vote
        \/ \E i \in DOMAIN r.file : r.file[i] = StateRec(q.term, q.vote)
    BY DEF FileSound, SameElection
  <1>6. \/ d.term = q.term /\ d.vote = q.vote
        \/ \E i \in DOMAIN g : g[i] = StateRec(q.term, q.vote)
    BY <1>0, <1>1, <1>3, <1>5
  <1>7. ASSUME NEW i \in DOMAIN g, g[i].type = "ENTRY"
        PROVE  \/ g[i].term <= d.term
               \/ \E j \in DOMAIN g : j < i /\ IsState(g[j]) /\ g[i].term <= g[j].term
    <2>1. CASE i \in DOMAIN r.file
      <3>1. g[i] = r.file[i]
        BY <2>1, <1>0, <1>1
      <3>2. \/ g[i].term <= d.term
            \/ \E j \in DOMAIN r.file : /\ j < i
                                        /\ IsState(r.file[j])
                                        /\ g[i].term <= r.file[j].term
        BY <3>1, <2>1, <1>7 DEF FileSound
      <3> QED BY <3>2, <1>0, <1>1, <1>3
    <2>2. CASE i \notin DOMAIN r.file
      <3>1. i > n /\ g[i].term <= r.term
        BY <2>2, <1>0, <1>1, SMTT(60)
      <3>2. CASE d.term = r.term
        BY <3>1, <3>2
      <3>3. CASE \E j \in DOMAIN r.file : r.file[j] = StateRec(r.term, r.vote)
        <4>1. PICK j \in DOMAIN r.file : r.file[j] = StateRec(r.term, r.vote)
          BY <3>3
        <4>2. j < i /\ j \in DOMAIN g /\ g[j] = r.file[j]
          BY <3>1, <1>0, <1>1, <1>3, SMTT(60)
        <4> QED BY <4>1, <4>2, <3>1, SMTT(60) DEF StateRec, IsState
      <3> QED BY <3>2, <3>3 DEF FileSound
    <2> QED BY <2>1, <2>2
  <1>8. q.file = g
    BY DEF g
  <1> QED BY <1>1, <1>4, <1>6, <1>7, <1>8 DEF FileSound

\* A waiter stays sound when the file grows.
LEMMA WaiterGrows ==
    ASSUME NEW file \in Seq(FileRecord), NEW fs \in Seq(FileRecord), NEW w, NEW d,
           SoundWaiter(w, file, d)
    PROVE  SoundWaiter(w, file \o fs, d)
  <1>1. \A i \in DOMAIN file : i \in DOMAIN (file \o fs) /\ (file \o fs)[i] = file[i]
    BY SMTT(60)
  <1> QED BY <1>1 DEF SoundWaiter

\* Waiters stay sound when the file grows and sound ones are added.
LEMMA WaitersGrow ==
    ASSUME NEW r, NEW q, NEW d, FileSound(r, d), WaitersSound(r, d),
           NEW fs \in Seq(FileRecord), q.file = r.file \o fs, IsSeq(q.waiters),
           \A w \in Elems(q.waiters) : w \in Elems(r.waiters) \/ SoundWaiter(w, q.file, d)
    PROVE  WaitersSound(q, d)
  <1>1. \A w \in Elems(r.waiters) : SoundWaiter(w, q.file, d)
    BY WaiterGrows DEF WaitersSound, FileSound, Elems
  <1> QED BY <1>1 DEF WaitersSound, Elems

\* raft_update_commit_index(), with its record in the file.
LEMMA UpdateCommitIndexKeeps ==
    ASSUME NEW r, NEW d, Good(r, d), NEW new \in Int
    PROVE  /\ Keeps(r, raft_update_commit_index(r, new), d)
           /\ SameElection(r, raft_update_commit_index(r, new))
           /\ raft_update_commit_index(r, new).next_index = r.next_index
  <1> DEFINE q == raft_update_commit_index(r, new)
             fs == <<CommitRec(new)>>
  <1>1. CASE new <= r.commit_index
    BY <1>1, KeepsRefl DEF raft_update_commit_index, SameElection
  <1>2. CASE ~(new <= r.commit_index)
    <2>0. DOMAIN r = Fields /\ r.file \in Seq(FileRecord)
      BY DEF Good, IndexTypes, FileSound
    <2>1. q = [r EXCEPT !.commit_index = new, !.file = Append(@, CommitRec(new))]
      BY <1>2 DEF raft_update_commit_index
    <2>2. fs \in Seq(FileRecord) /\ \A i \in DOMAIN fs : ~IsState(fs[i]) /\ fs[i].term = 0
      BY SMTT(60) DEF CommitRec, FileRecord, IsState
    <2>3. Append(r.file, CommitRec(new)) = r.file \o fs
      BY <2>0, SMTT(60)
    <2> HIDE DEF fs
    <2>4. /\ SameElection(r, q) /\ q.entries = r.entries /\ q.file = r.file \o fs
          /\ q.waiters = r.waiters /\ q.conns = r.conns /\ SameComplaint(r, q)
          /\ q.next_index = r.next_index
      BY <2>0, <2>1, <2>3 DEF Fields, SameElection, SameComplaint
    <2>5. IndexTypes(q)
      BY <2>0, <2>1 DEF Fields, IndexTypes, Good
    <2> HIDE DEF q
    <2>6. LogSound(q)
      BY <2>4 DEF Good, LogSound, SameElection
    <2>7. FileSound(q, d)
      <3>1. 0 <= r.term
        BY SMTT(60) DEF Good, VoteTypes
      <3> QED BY <3>1, <2>2, <2>4, FileGrows DEF Good
    <2>8. WaitersSound(q, d)
      BY <2>2, <2>4, WaitersGrow DEF Good, WaitersSound
    <2>9. Keeps(r, q, d)
      BY <2>4, <2>5, <2>6, <2>7, <2>8, KeepsLog
    <2> QED BY <2>4, <2>9 DEF q
  <1> QED BY <1>1, <1>2

\* A new waiter has no RPCs behind it.
LEMMA NoRpcsSound == SoundQueues(NoRpcs)
  BY SMTT(60) DEF SoundQueues, NoRpcs, IsSeq, Elems

\* raft_write_entry() for several entries, and their waiter.
LEMMA WriteEntriesKeeps ==
    ASSUME NEW r, NEW d, Good(r, d), NEW es \in Seq(LogEntry),
           \A i \in DOMAIN es : es[i].term <= r.term
    PROVE  /\ Keeps(r, raft_write_entries(r, es), d)
           /\ SameElection(r, raft_write_entries(r, es))
           /\ SameIndexes(r, raft_write_entries(r, es))
           /\ raft_write_entries(r, es).entries = r.entries \o es
  <1> DEFINE q == raft_write_entries(r, es)
             fs == [k \in DOMAIN es |-> EntryRec(LogEnd(r) + k - 1, es[k])]
             w == [type |-> "ENTRY", ticket |-> Len(r.file) + Len(es),
                   index |-> LogEnd(r) + Len(es) - 1, term |-> r.term, vote |-> Zero,
                   rpcs |-> NoRpcs]
  <1>0. /\ DOMAIN r = Fields /\ r.file \in Seq(FileRecord) /\ r.entries \in Seq(LogEntry)
        /\ r.log_start \in Int /\ r.term \in Nat /\ IsSeq(r.waiters)
    BY DEF Good, IndexTypes, FileSound, LogSound, VoteTypes, WaitersSound
  <1>1. LogEnd(r) \in Int
    BY <1>0, SMTT(60) DEF LogEnd
  <1>2. q = [r EXCEPT !.entries = @ \o es, !.file = @ \o fs, !.waiters = Append(@, w)]
    BY DEF raft_write_entries
  <1>3. /\ fs \in Seq(FileRecord)
        /\ \A i \in DOMAIN fs : ~IsState(fs[i]) /\ fs[i].term <= r.term
    <2>1. DOMAIN es = 1 .. Len(es) /\ Len(es) \in Nat
      BY SMTT(60)
    <2>2. ASSUME NEW k \in DOMAIN es
          PROVE  EntryRec(LogEnd(r) + k - 1, es[k]) \in FileRecord
      <3>1. es[k] \in LogEntry /\ k \in Int
        BY <2>1, SMTT(60)
      <3>2. es[k].term \in Nat /\ es[k].data \in Data
        BY <3>1 DEF LogEntry
      <3> QED BY <3>1, <3>2, <1>1, SMTT(60) DEF EntryRec, FileRecord
    <2>3. fs \in Seq(FileRecord)
      BY <2>1, <2>2, SMTT(60)
    <2> QED BY <2>3 DEF EntryRec, IsState
  <1> HIDE DEF fs
  <1>4. SoundWaiter(w, r.file \o fs, d)
    <2>1. w.ticket \in Nat /\ w.index \in Int
      BY <1>0, <1>1, SMTT(60)
    <2> QED BY <2>1, <1>0, NoRpcsSound DEF SoundWaiter, WaiterFields, Sid
  <1> HIDE DEF w
  <1>5. /\ SameElection(r, q) /\ q.entries = r.entries \o es /\ q.file = r.file \o fs
        /\ q.waiters = Append(r.waiters, w) /\ q.conns = r.conns /\ SameComplaint(r, q)
        /\ SameIndexes(r, q)
    BY <1>0, <1>2, SMTT(60) DEF Fields, SameElection, SameComplaint, SameIndexes
  <1> HIDE DEF q
  <1>6. IndexTypes(q)
    BY <1>5 DEF Good, IndexTypes, SameIndexes
  <1>7. LogSound(q)
    <2>1. /\ q.entries \in Seq(LogEntry)
          /\ \A i \in DOMAIN q.entries :
                \/ i \in DOMAIN r.entries /\ q.entries[i] = r.entries[i]
                \/ \E k \in DOMAIN es : q.entries[i] = es[k]
      BY <1>0, <1>5, SMTT(60)
    <2> QED BY <2>1, <1>5 DEF Good, LogSound, SameElection
  <1>8. FileSound(q, d)
    BY <1>3, <1>5, FileGrows DEF Good
  <1>9. WaitersSound(q, d)
    <2>1. IsSeq(q.waiters) /\ Elems(q.waiters) \subseteq Elems(r.waiters) \cup {w}
      BY <1>0, <1>5, AppendElems, SMTT(60)
    <2> QED BY <2>1, <1>3, <1>4, <1>5, WaitersGrow DEF Good
  <1>10. Keeps(r, q, d)
    BY <1>5, <1>6, <1>7, <1>8, <1>9, KeepsLog
  <1> QED BY <1>5, <1>10 DEF q

\* raft_truncate() within the log.
LEMMA TruncateKeeps ==
    ASSUME NEW r, NEW d, Good(r, d), NEW new_end \in Int, new_end >= r.log_start,
           new_end <= LogEnd(r)
    PROVE  /\ Keeps(r, raft_truncate(r, new_end), d)
           /\ SameElection(r, raft_truncate(r, new_end))
  <1> DEFINE q == raft_truncate(r, new_end)
             k == new_end - r.log_start
  <1>0. /\ DOMAIN r = Fields /\ r.entries \in Seq(LogEntry) /\ r.log_start \in Int
    BY DEF Good, IndexTypes, LogSound
  <1>1. k \in Nat /\ k <= Len(r.entries)
    BY <1>0, SMTT(60) DEF LogEnd
  <1>2. q = [r EXCEPT !.entries = SubSeq(@, 1, k)]
    BY DEF raft_truncate
  <1> HIDE DEF k
  <1>3. /\ SubSeq(r.entries, 1, k) \in Seq(LogEntry)
        /\ \A i \in DOMAIN SubSeq(r.entries, 1, k) :
              i \in DOMAIN r.entries /\ SubSeq(r.entries, 1, k)[i] = r.entries[i]
    BY <1>0, <1>1, SMTT(60)
  <1>4. /\ SameElection(r, q) /\ q.entries = SubSeq(r.entries, 1, k) /\ q.file = r.file
        /\ q.waiters = r.waiters /\ q.conns = r.conns /\ SameComplaint(r, q)
        /\ SameIndexes(r, q)
    BY <1>0, <1>2 DEF Fields, SameElection, SameComplaint, SameIndexes
  <1> HIDE DEF q
  <1>5. IndexTypes(q)
    BY <1>4 DEF Good, IndexTypes, SameIndexes
  <1>6. LogSound(q)
    BY <1>3, <1>4 DEF Good, LogSound, SameElection
  <1>7. FileSound(q, d) /\ WaitersSound(q, d)
    BY <1>4 DEF Good, FileSound, WaitersSound, SameElection
  <1>8. Keeps(r, q, d)
    BY <1>4, <1>5, <1>6, <1>7, KeepsLog
  <1> QED BY <1>4, <1>8 DEF q

---------------------------------------------------------------------------
(* The leader.                                                             *)

\* An append request carries the term of its sender and no later entries.
LEMMA AppendRequestOwn ==
    ASSUME NEW r, NEW d, Good(r, d), NEW p \in Server, NEW n \in Nat,
           n = 0 \/ (r.next_index[p] >= r.log_start /\ r.next_index[p] + n <= LogEnd(r))
    PROVE  OwnRpc(r, append_request(r, p, n))
  <1> DEFINE m == append_request(r, p, n)
             next == r.next_index[p]
             a == next - r.log_start + 1
             z == next - r.log_start + n
             es == SubSeq(r.entries, a, z)
  <1>0. /\ r.log_start \in Int /\ r.entries \in Seq(LogEntry) /\ r.term \in Nat
        /\ next \in Int /\ r.commit_index \in Int
        /\ \A i \in DOMAIN r.entries : r.entries[i].term <= r.term
    BY DEF Good, IndexTypes, LogSound, VoteTypes
  <1>1. /\ m.type = "APPEND_REQUEST" /\ m.term = r.term
        /\ m.prev_log_index = next - 1 /\ m.leader_commit = r.commit_index
        /\ m.entries = IF n = 0 THEN <<>> ELSE es
    BY DEF append_request
  <1> HIDE DEF m, es
  <1>2. m.entries \in Seq(LogEntry) /\ \A i \in DOMAIN m.entries : m.entries[i].term <= r.term
    <2>1. CASE n = 0
      BY <1>1, <2>1, SMTT(60)
    <2>2. CASE n # 0
      <3>1. Len(r.entries) \in Nat /\ LogEnd(r) = r.log_start + Len(r.entries)
        BY <1>0, SMTT(60) DEF LogEnd
      <3>2. Slice(es, r.entries, a, z)
        BY <3>1, <1>0, <2>2, SMTT(60) DEF Slice, es
      <3> HIDE DEF a, z
      <3>3. es \in Seq(LogEntry) /\ \A i \in DOMAIN es : es[i].term <= r.term
        BY <3>2, <1>0, SliceSound
      <3> QED BY <3>3, <1>1, <2>2
    <2> QED BY <2>1, <2>2
  <1>3. OwnRpc(r, m)
    BY <1>0, <1>1, <1>2, SMTT(60) DEF OwnRpc, SoundRpc
  <1> QED BY <1>3 DEF m

\* raft_send_append_request(), its assertion included.
LEMMA SendAppendRequestKeeps ==
    ASSUME NEW r, NEW d, Good(r, d), NEW p \in Server, NEW n \in Nat,
           n = 0 \/ (r.next_index[p] >= r.log_start /\ r.next_index[p] + n <= LogEnd(r))
    PROVE  Keeps(r, raft_send_append_request(r, p, n), d)
  <1>1. OwnRpc(r, append_request(r, p, n))
    BY AppendRequestOwn
  <1>2. Keeps(r, raft_send(r, p, append_request(r, p, n)), d)
    BY <1>1, SendKeeps
  <1>3. Keeps(r, Complain(r, "assert"), d)
    BY ComplainKeeps
  <1> QED BY <1>2, <1>3 DEF raft_send_append_request

\* raft_send_heartbeats().
LEMMA SendHeartbeatsKeeps ==
    ASSUME NEW r, NEW d, Good(r, d)
    PROVE  Keeps(r, raft_send_heartbeats(r), d) /\ Sent(r, raft_send_heartbeats(r))
  <1> DEFINE f == [p \in Peers(r) |-> append_request(r, p, 0)]
  <1>1. \A p \in Server : OwnRpc(r, append_request(r, p, 0))
    BY AppendRequestOwn
  <1>2. DOMAIN f \subseteq Server /\ \A e \in DOMAIN f : OwnRpc(r, f[e])
    BY <1>1 DEF Peers
  <1> HIDE DEF f
  <1>3. Keeps(r, raft_send_each(r, f), d) /\ Sent(r, raft_send_each(r, f))
    BY <1>2, SendEachKeeps
  <1>4. Keeps(r, Complain(r, "wrap"), d) /\ Sent(r, Complain(r, "wrap"))
    BY ComplainKeeps
  <1> QED BY <1>3, <1>4 DEF raft_send_heartbeats, f

\* raft_consider_updating_commit_index().
LEMMA ConsiderKeeps ==
    ASSUME NEW r, NEW d, Good(r, d)
    PROVE  Keeps(r, raft_consider_updating_commit_index(r), d)
  <1>1. CASE Committable(r) = {}
    BY <1>1, KeepsRefl DEF raft_consider_updating_commit_index
  <1>2. CASE Committable(r) # {}
    <2> DEFINE new == CHOOSE i \in Committable(r) : \A j \in Committable(r) : j <= i
               r1 == raft_update_commit_index(r, new)
    <2>1. r.log_start \in Int /\ r.commit_index \in Int /\ LogEnd(r) - 1 \in Int
      BY SMTT(60) DEF Good, IndexTypes, LogSound, LogEnd
    <2>2. Committable(r) \subseteq Int /\ \A i \in Committable(r) : i <= LogEnd(r) - 1
      BY <2>1, SMTT(60) DEF Committable, MaxOf
    <2>3. new \in Committable(r)
      BY <1>2, <2>1, <2>2, GreatestOf
    <2>4. new \in Int
      BY <2>2, <2>3
    <2> HIDE DEF new
    <2>5. Keeps(r, r1, d)
      BY <2>4, UpdateCommitIndexKeeps
    <2>6. Good(r1, d)
      BY <2>5 DEF Keeps
    <2> HIDE DEF r1
    <2>7. Keeps(r1, raft_send_heartbeats(r1), d)
      BY <2>6, SendHeartbeatsKeeps
    <2>8. Keeps(r, raft_send_heartbeats(r1), d)
      BY <2>5, <2>7, KeepsTrans
    <2> QED BY <2>8, <1>2 DEF raft_consider_updating_commit_index, new, r1
  <1> QED BY <1>1, <1>2

\* raft_update_match_index().
LEMMA UpdateMatchIndexKeeps ==
    ASSUME NEW r, NEW d, Good(r, d), NEW p \in Server, NEW i \in Int
    PROVE  Keeps(r, raft_update_match_index(r, p, i), d)
  <1>1. CASE ~(i > r.match_index[p])
    BY <1>1, KeepsRefl DEF raft_update_match_index
  <1>2. CASE i > r.match_index[p]
    <2> DEFINE match == [r.match_index EXCEPT ![p] = i]
               q == [r EXCEPT !.match_index[p] = i]
    <2>0. DOMAIN r = Fields /\ r.next_index \in [Server -> Int] /\ r.match_index \in [Server -> Int]
      BY DEF Good, IndexTypes
    <2>1. match \in [Server -> Int]
      BY <2>0
    <2>2. q = [r EXCEPT !.match_index = match]
      OBVIOUS
    <2>3. IndexTypes(q)
      BY <2>0, <2>1 DEF Good, IndexTypes, Fields
    <2> HIDE DEF match
    <2>4. /\ SameElection(r, q) /\ SameLog(r, q) /\ q.waiters = r.waiters /\ q.conns = r.conns
          /\ SameComplaint(r, q)
      BY <2>0, <2>2 DEF Fields, SameElection, SameLog, SameComplaint
    <2> HIDE DEF q
    <2>5. Keeps(r, q, d)
      BY <2>3, <2>4, KeepsIndexes
    <2>6. Keeps(q, raft_consider_updating_commit_index(q), d)
      BY <2>5, ConsiderKeeps DEF Keeps
    <2>7. Keeps(r, raft_consider_updating_commit_index(q), d)
      BY <2>5, <2>6, KeepsTrans
    <2> QED BY <2>7, <1>2 DEF raft_update_match_index, q
  <1> QED BY <1>1, <1>2

\* raft_command_initiate(): a new entry of the current term.
LEMMA CommandInitiateKeeps ==
    ASSUME NEW r, NEW d, Good(r, d), NEW data \in Data
    PROVE  Keeps(r, raft_command_initiate(r, data), d)
  <1> DEFINE index == LogEnd(r)
             es == <<[term |-> r.term, data |-> data]>>
             r1 == raft_write_entries(r, es)
             upToDate == {p \in Peers(r) : r.next_index[p] = index}
             f == [p \in upToDate |-> append_request(r1, p, 1)]
             r2 == raft_send_each(r1, f)
             next == [p \in Server |-> IF p \in upToDate THEN index + 1 ELSE r2.next_index[p]]
             q == [r2 EXCEPT !.next_index = next]
  <1>0. /\ r.term \in Nat /\ r.log_start \in Int /\ r.entries \in Seq(LogEntry)
        /\ r.next_index \in [Server -> Int]
    BY DEF Good, VoteTypes, IndexTypes, LogSound
  <1>1. raft_command_initiate(r, data) = q
    BY DEF raft_command_initiate
  <1>2. es \in Seq(LogEntry) /\ Len(es) = 1 /\ \A i \in DOMAIN es : es[i].term <= r.term
    BY <1>0, SMTT(60) DEF LogEntry
  <1> HIDE DEF es
  <1>3. Keeps(r, r1, d) /\ SameElection(r, r1) /\ SameIndexes(r, r1) /\ r1.entries = r.entries \o es
    BY <1>2, WriteEntriesKeeps
  <1> HIDE DEF r1
  <1>4. Good(r1, d) /\ LogEnd(r1) = index + 1 /\ index \in Int /\ index >= r.log_start
    <2>1. Good(r1, d)
      BY <1>3 DEF Keeps
    <2>2. Len(r.entries) \in Nat
      BY <1>0, SMTT(60)
    <2>3. Len(r.entries \o es) = Len(r.entries) + Len(es)
      BY <1>0, <1>2, ConcatLength
    <2>4. Len(r1.entries) = Len(r.entries) + 1
      BY <1>2, <1>3, <2>3
    <2>5. LogEnd(r1) = r.log_start + (Len(r.entries) + 1)
      BY <2>4, <1>3 DEF LogEnd, SameIndexes
    <2>6. index = r.log_start + Len(r.entries)
      BY DEF LogEnd
    <2> QED BY <2>1, <2>2, <2>5, <2>6, <1>0, SMTT(60)
  <1>5. \A p \in upToDate : p \in Server /\ OwnRpc(r1, append_request(r1, p, 1))
    <2> SUFFICES ASSUME NEW p \in upToDate
                 PROVE  p \in Server /\ OwnRpc(r1, append_request(r1, p, 1))
      OBVIOUS
    <2>1. p \in Server /\ r1.next_index[p] >= r1.log_start /\ r1.next_index[p] + 1 <= LogEnd(r1)
      BY <1>3, <1>4, SMTT(60) DEF Peers, SameIndexes
    <2> QED BY <2>1, <1>4, AppendRequestOwn
  <1>6. DOMAIN f \subseteq Server /\ \A e \in DOMAIN f : OwnRpc(r1, f[e])
    BY <1>5
  <1> HIDE DEF f
  <1>7. Keeps(r1, r2, d) /\ Sent(r1, r2)
    BY <1>4, <1>6, SendEachKeeps
  <1> HIDE DEF r2
  <1>8. Good(r2, d) /\ DOMAIN r2 = Fields /\ r2.next_index \in [Server -> Int]
    BY <1>7 DEF Keeps, Good, IndexTypes
  <1>9. next \in [Server -> Int]
    BY <1>4, <1>8, SMTT(60)
  <1> HIDE DEF next
  <1>10. /\ SameElection(r2, q) /\ SameLog(r2, q) /\ q.waiters = r2.waiters
         /\ q.conns = r2.conns /\ SameComplaint(r2, q)
    BY <1>8 DEF Fields, SameElection, SameLog, SameComplaint
  <1>11. IndexTypes(q)
    BY <1>8, <1>9 DEF Good, IndexTypes, Fields
  <1> HIDE DEF q
  <1>12. Keeps(r2, q, d)
    BY <1>8, <1>10, <1>11, KeepsIndexes
  <1>13. Keeps(r, q, d)
    BY <1>3, <1>7, <1>12, KeepsTrans
  <1> QED BY <1>1, <1>13

\* A change of the servers that are being sent a snapshot, or that have replied.
LEMMA PeerSetsKeep ==
    ASSUME NEW r, NEW d, Good(r, d), NEW S, NEW q,
           q \in {[r EXCEPT !.snapping = S], [r EXCEPT !.replied = S]}
    PROVE  Keeps(r, q, d) /\ Sent(r, q) /\ q.conns = r.conns
  <1>0. DOMAIN r = Fields
    BY DEF Good, IndexTypes
  <1>1. /\ Sent(r, q) /\ q.waiters = r.waiters /\ q.conns = r.conns /\ SameComplaint(r, q)
    BY <1>0, SMTT(60) DEF Fields, Sent, SameElection, SameLog, SameIndexes, SameComplaint
  <1>2. IndexTypes(q)
    BY <1>1 DEF Good, IndexTypes, Sent, SameIndexes
  <1> QED BY <1>1, <1>2, KeepsIndexes DEF Sent

\* raft_send_install_snapshot_request().
LEMMA SendInstallSnapshotRequestKeeps ==
    ASSUME NEW r, NEW d, Good(r, d), NEW p \in Server
    PROVE  Keeps(r, raft_send_install_snapshot_request(r, p), d)
  <1>1. CASE p \in r.snapping
    BY <1>1, KeepsRefl DEF raft_send_install_snapshot_request
  <1>2. CASE p \notin r.snapping
    <2> DEFINE m == [type |-> "INSTALL_SNAPSHOT_REQUEST", term |-> r.term,
                     last_index |-> r.log_start - 1, last_term |-> r.snap.term,
                     data |-> r.snap.data]
               r1 == raft_send(r, p, m)
               q == [r1 EXCEPT !.snapping = @ \cup {p}]
    <2>1. OwnRpc(r, m)
      BY SMTT(60) DEF OwnRpc, SoundRpc, Good, IndexTypes, VoteTypes
    <2> HIDE DEF m
    <2>2. Keeps(r, r1, d)
      BY <2>1, SendKeeps
    <2> HIDE DEF r1
    <2>3. Keeps(r1, q, d)
      BY <2>2, PeerSetsKeep DEF Keeps
    <2>4. Keeps(r, q, d)
      BY <2>2, <2>3, KeepsTrans
    <2> QED BY <2>4, <1>2 DEF raft_send_install_snapshot_request, r1, m
  <1> QED BY <1>1, <1>2

\* raft_handle_append_reply(), in its three cases.
LEMMA HandleAppendReplyKeeps ==
    ASSUME NEW r, NEW d, Good(r, d), NEW src \in Server, NEW m, SoundRpc(m),
           m.type = "APPEND_REPLY"
    PROVE  Keeps(r, raft_handle_append_reply(r, src, m), d)
  <1> DEFINE min_index == m.prev_log_index + m.n_entries + 1
             next == r.next_index[src]
             new == IF m.result = "OK" THEN MaxOf(next, min_index)
                    ELSE IF next > 0 THEN MinOf(next - 1, m.log_end) ELSE 0
             nexts == [r.next_index EXCEPT ![src] = new]
             r1 == [r EXCEPT !.replied = @ \cup {src}, !.next_index[src] = new]
             r2 == IF m.result = "OK" THEN raft_update_match_index(r1, src, min_index - 1) ELSE r1
  <1>0. /\ DOMAIN r = Fields /\ r.next_index \in [Server -> Int]
        /\ m.prev_log_index \in Int /\ m.n_entries \in Int /\ m.log_end \in Int
    BY DEF Good, IndexTypes, SoundRpc
  <1>1. min_index \in Int /\ min_index - 1 \in Int
    BY <1>0, SMTT(60)
  <1>2. new \in Int
    BY <1>0, <1>1, SMTT(60) DEF MaxOf, MinOf
  <1> HIDE DEF new, min_index
  <1>3. r1 = [r EXCEPT !.replied = @ \cup {src}, !.next_index = nexts] /\ nexts \in [Server -> Int]
    BY <1>0, <1>2
  <1> HIDE DEF nexts
  <1>4. /\ SameElection(r, r1) /\ SameLog(r, r1) /\ r1.waiters = r.waiters /\ r1.conns = r.conns
        /\ SameComplaint(r, r1)
    BY <1>0, <1>3 DEF Fields, SameElection, SameLog, SameComplaint
  <1>5. IndexTypes(r1)
    BY <1>0, <1>3 DEF Good, IndexTypes, Fields
  <1> HIDE DEF r1
  <1>6. Keeps(r, r1, d)
    BY <1>4, <1>5, KeepsIndexes
  <1>7. Keeps(r, r2, d)
    <2>1. Keeps(r1, raft_update_match_index(r1, src, min_index - 1), d)
      BY <1>1, <1>6, UpdateMatchIndexKeeps DEF Keeps
    <2>2. Keeps(r, raft_update_match_index(r1, src, min_index - 1), d)
      BY <1>6, <2>1, KeepsTrans
    <2> QED BY <1>6, <2>2
  <1> HIDE DEF r2
  <1>8. /\ Good(r2, d) /\ r2.next_index[src] \in Int /\ r2.log_start \in Int /\ LogEnd(r2) \in Int
    BY <1>7, SMTT(60) DEF Keeps, Good, IndexTypes, LogSound, LogEnd
  <1>9. CASE r.role # "LEADER"
    BY <1>9, KeepsRefl DEF raft_handle_append_reply
  <1>10. CASE r.role = "LEADER" /\ r2.next_index[src] < r2.log_start
    <2>1. Keeps(r, raft_send_install_snapshot_request(r2, src), d)
      BY <1>7, <1>8, SendInstallSnapshotRequestKeeps, KeepsTrans
    <2> QED BY <2>1, <1>10 DEF raft_handle_append_reply, r2, r1, new, min_index
  <1>11. CASE /\ r.role = "LEADER" /\ ~(r2.next_index[src] < r2.log_start)
              /\ r2.next_index[src] < LogEnd(r2)
    <2> DEFINE n == LogEnd(r2) - r2.next_index[src]
    <2>1. n \in Nat /\ r2.next_index[src] >= r2.log_start /\ r2.next_index[src] + n <= LogEnd(r2)
      BY <1>8, <1>11, SMTT(60)
    <2> HIDE DEF n
    <2>2. Keeps(r2, raft_send_append_request(r2, src, n), d)
      BY <2>1, <1>8, SendAppendRequestKeeps
    <2>3. Keeps(r, raft_send_append_request(r2, src, n), d)
      BY <2>2, <1>7, KeepsTrans
    <2> QED BY <2>3, <1>11 DEF raft_handle_append_reply, r2, r1, new, min_index, n
  <1>12. CASE /\ r.role = "LEADER" /\ ~(r2.next_index[src] < r2.log_start)
              /\ ~(r2.next_index[src] < LogEnd(r2))
    BY <1>7, <1>12 DEF raft_handle_append_reply, r2, r1, new, min_index
  <1> QED BY <1>9, <1>10, <1>11, <1>12

\* raft_handle_install_snapshot_reply(), at a leader or not.
LEMMA HandleInstallSnapshotReplyKeeps ==
    ASSUME NEW r, NEW d, Good(r, d), NEW src \in Server, NEW m
    PROVE  Keeps(r, raft_handle_install_snapshot_reply(r, src, m), d)
  <1> DEFINE r1 == [r EXCEPT !.snapping = @ \ {src}]
             nexts == [r1.next_index EXCEPT ![src] = r.log_start]
             r2 == [r1 EXCEPT !.next_index[src] = r.log_start]
             n == LogEnd(r) - r.log_start
  <1>1. Keeps(r, r1, d) /\ Sent(r, r1)
    BY PeerSetsKeep
  <1> HIDE DEF r1
  <1>2. /\ Good(r1, d) /\ DOMAIN r1 = Fields /\ r1.next_index \in [Server -> Int]
        /\ r1.log_start = r.log_start /\ r1.entries = r.entries /\ r.log_start \in Int
        /\ Len(r.entries) \in Nat
    BY <1>1, SMTT(60) DEF Keeps, Good, IndexTypes, Sent, SameIndexes, SameLog, LogSound
  <1>3. r2 = [r1 EXCEPT !.next_index = nexts] /\ nexts \in [Server -> Int]
        /\ nexts[src] = r.log_start
    BY <1>2
  <1> HIDE DEF nexts
  <1>4. /\ SameElection(r1, r2) /\ SameLog(r1, r2) /\ r2.waiters = r1.waiters
        /\ r2.conns = r1.conns /\ SameComplaint(r1, r2)
        /\ r2.log_start = r.log_start /\ r2.entries = r.entries /\ r2.next_index[src] = r.log_start
    BY <1>2, <1>3 DEF Fields, SameElection, SameLog, SameComplaint
  <1>5. IndexTypes(r2)
    BY <1>2, <1>3 DEF Good, IndexTypes, Fields
  <1> HIDE DEF r2
  <1>6. Keeps(r1, r2, d)
    BY <1>2, <1>4, <1>5, KeepsIndexes
  <1>7. n \in Nat /\ r2.next_index[src] >= r2.log_start /\ r2.next_index[src] + n <= LogEnd(r2)
    <2>1. LogEnd(r) = r.log_start + Len(r.entries) /\ LogEnd(r2) = r.log_start + Len(r.entries)
      BY <1>4 DEF LogEnd
    <2> QED BY <2>1, <1>2, <1>4, SMTT(60)
  <1> HIDE DEF n
  <1>8. Keeps(r, raft_send_append_request(r2, src, n), d)
    <2>1. Good(r2, d)
      BY <1>6 DEF Keeps
    <2>2. Keeps(r2, raft_send_append_request(r2, src, n), d)
      BY <1>7, <2>1, SendAppendRequestKeeps
    <2> QED BY <1>1, <1>6, <2>2, KeepsTrans
  <1>9. Keeps(r, raft_send_install_snapshot_request(r1, src), d)
    BY <1>1, <1>2, SendInstallSnapshotRequestKeeps, KeepsTrans
  <1> QED BY <1>8, <1>9 DEF raft_handle_install_snapshot_reply, r1, r2, n

---------------------------------------------------------------------------
(* The follower: entries.                                                  *)

\* raft_send_append_reply(), with the commit index that it may raise.
LEMMA SendAppendReplyKeeps ==
    ASSUME NEW r, NEW d, Good(r, d), NEW dst \in Server, NEW m, SoundRpc(m),
           m.type = "APPEND_REQUEST", NEW result
    PROVE  Keeps(r, raft_send_append_reply(r, dst, m, result), d)
  <1> DEFINE n == Len(m.entries)
             new == MinOf(m.leader_commit, m.prev_log_index + n)
             r1 == IF result = "OK" /\ m.leader_commit > r.commit_index
                   THEN raft_update_commit_index(r, new) ELSE r
             a == [type |-> "APPEND_REPLY", term |-> r1.term, log_end |-> LogEnd(r1),
                   prev_log_index |-> m.prev_log_index, n_entries |-> n, result |-> result]
  <1>0. m.prev_log_index \in Int /\ m.leader_commit \in Int /\ n \in Nat
    BY SMTT(60) DEF SoundRpc
  <1>1. new \in Int
    BY <1>0, SMTT(60) DEF MinOf
  <1> HIDE DEF new, n
  <1>2. Keeps(r, r1, d)
    BY <1>1, UpdateCommitIndexKeeps, KeepsRefl
  <1> HIDE DEF r1
  <1>3. Good(r1, d) /\ r1.term \in Nat /\ LogEnd(r1) \in Int
    <2>1. Good(r1, d)
      BY <1>2 DEF Keeps
    <2>2. r1.term \in Nat /\ r1.log_start \in Int /\ Len(r1.entries) \in Nat
      BY <2>1, SMTT(60) DEF Good, VoteTypes, IndexTypes, LogSound
    <2> QED BY <2>1, <2>2, SMTT(60) DEF LogEnd
  <1>4. OwnRpc(r1, a)
    BY <1>0, <1>3, SMTT(60) DEF OwnRpc, SoundRpc
  <1> HIDE DEF a
  <1>5. Keeps(r1, raft_send(r1, dst, a), d)
    BY <1>3, <1>4, SendKeeps
  <1>6. Keeps(r, raft_send(r1, dst, a), d)
    BY <1>2, <1>5, KeepsTrans
  <1> QED BY <1>6 DEF raft_send_append_reply, r1, a, new, n

\* raft_handle_append_entries(), whether it truncates, appends or refuses.
LEMMA HandleAppendEntriesKeeps ==
    ASSUME NEW r, NEW d, Good(r, d), NEW src \in Server, NEW m, SoundRpc(m),
           m.type = "APPEND_REQUEST", NEW prev \in Int, NEW prev_term,
           NEW es \in Seq(LogEntry), \A i \in DOMAIN es : es[i].term <= r.term
    PROVE  Keeps(r, raft_handle_append_entries(r, src, m, prev, prev_term, es), d)
  <1> DEFINE fresh == {k \in DOMAIN es : \/ prev + k >= LogEnd(r)
                                         \/ Entry(r, prev + k).term # es[k].term}
             first == CHOOSE k \in fresh : \A j \in fresh : k <= j
             r1 == IF prev + first < LogEnd(r) THEN raft_truncate(r, prev + first) ELSE r
             tail == SubSeq(es, first, Len(es))
             r2 == raft_write_entries(r1, tail)
  <1>1. CASE ~match_index_and_term(r, prev, prev_term)
    <2>1. Keeps(r, raft_send_append_reply(r, src, m, "INCONSISTENCY"), d)
      BY SendAppendReplyKeeps
    <2> QED BY <1>1, <2>1 DEF raft_handle_append_entries
  <1>2. CASE match_index_and_term(r, prev, prev_term) /\ fresh = {}
    <2>1. Keeps(r, raft_send_append_reply(r, src, m, "OK"), d)
      BY SendAppendReplyKeeps
    <2> QED BY <1>2, <2>1 DEF raft_handle_append_entries
  <1>3. CASE match_index_and_term(r, prev, prev_term) /\ fresh # {}
    <2>0. r.log_start \in Int /\ LogEnd(r) \in Int /\ prev >= r.log_start - 1
      BY <1>3, SMTT(60) DEF Good, IndexTypes, LogSound, LogEnd, match_index_and_term
    <2>1. fresh \subseteq Int /\ \A k \in fresh : 1 <= k /\ k <= Len(es)
      BY SMTT(60)
    <2> HIDE DEF fresh
    <2>2. first \in fresh
      <3>1. 1 \in Int /\ \A k \in fresh : 1 <= k
        BY <2>1, SMTT(60)
      <3> QED BY <1>3, <2>1, <3>1, LeastOf
    <2>3. first \in Int /\ first >= 1
      BY <2>1, <2>2
    <2> HIDE DEF first, fresh
    <2>4. Keeps(r, r1, d) /\ SameElection(r, r1)
      <3>1. CASE prev + first < LogEnd(r)
        <4>1. prev + first \in Int /\ prev + first >= r.log_start /\ prev + first <= LogEnd(r)
          BY <3>1, <2>0, <2>3, SMTT(60)
        <4>2. r1 = raft_truncate(r, prev + first)
          BY <3>1
        <4> QED BY <4>1, <4>2, TruncateKeeps
      <3>2. CASE ~(prev + first < LogEnd(r))
        BY <3>2, KeepsRefl DEF SameElection
      <3> QED BY <3>1, <3>2
    <2>5. tail \in Seq(LogEntry) /\ \A i \in DOMAIN tail : tail[i].term <= r.term
      <3>1. Slice(tail, es, first, Len(es))
        BY <2>3, SMTT(60) DEF Slice
      <3> HIDE DEF tail
      <3> QED BY <3>1, SliceSound
    <2> HIDE DEF r1, tail
    <2>6. Good(r1, d) /\ r1.term = r.term
      BY <2>4 DEF Keeps, SameElection
    <2>7. Keeps(r1, r2, d)
      BY <2>5, <2>6, WriteEntriesKeeps
    <2>8. Good(r2, d)
      BY <2>7 DEF Keeps
    <2> HIDE DEF r2
    <2>9. Keeps(r2, raft_send_append_reply(r2, src, m, "OK"), d)
      BY <2>8, SendAppendReplyKeeps
    <2>10. Keeps(r, raft_send_append_reply(r2, src, m, "OK"), d)
      BY <2>4, <2>7, <2>9, KeepsTrans
    <2> QED BY <1>3, <2>10 DEF raft_handle_append_entries, r2, r1, tail, first, fresh
  <1> QED BY <1>1, <1>2, <1>3

\* raft_update_leader() may end a candidacy, and keeps the vote.
LEMMA UpdateLeaderKeeps ==
    ASSUME NEW r, NEW d, Good(r, d), NEW src \in Server
    PROVE  /\ Keeps(r, raft_update_leader(r, src), d)
           /\ raft_update_leader(r, src).term = r.term
           /\ raft_update_leader(r, src).log_start = r.log_start
  <1> DEFINE r1 == IF r.leader_sid \in {Zero, src} THEN r ELSE Complain(r, "changed")
             role == IF r1.role = "CANDIDATE" THEN "FOLLOWER" ELSE r1.role
             q == [r1 EXCEPT !.leader_sid = src, !.role = role]
  <1>1. raft_update_leader(r, src) = q
    BY DEF raft_update_leader
  <1>2. Keeps(r, r1, d) /\ Sent(r, r1)
    BY ComplainKeeps, KeepsRefl, SMTT(60) DEF Sent, SameElection, SameLog, SameIndexes
  <1> HIDE DEF r1
  <1>3. Good(r1, d) /\ DOMAIN r1 = Fields /\ r1.role \in {"FOLLOWER", "CANDIDATE", "LEADER"}
    BY <1>2 DEF Keeps, Good, IndexTypes, VoteTypes
  <1>4. role \in {"FOLLOWER", "CANDIDATE", "LEADER"} /\ role \in {r1.role, "FOLLOWER"}
    BY <1>3
  <1> HIDE DEF role
  <1>5. /\ q.sid = r1.sid /\ q.term = r1.term /\ q.vote = r1.vote
        /\ q.synced_term = r1.synced_term /\ q.synced_vote = r1.synced_vote
        /\ q.role = role /\ q.n_votes = r1.n_votes /\ q.svote = r1.svote
        /\ SameLog(r1, q) /\ SameIndexes(r1, q) /\ q.waiters = r1.waiters /\ q.conns = r1.conns
        /\ SameComplaint(r1, q)
    BY <1>3 DEF Fields, SameLog, SameIndexes, SameComplaint
  <1> HIDE DEF q
  <1>6. Good(q, d)
    <2>1. IndexTypes(q)
      BY <1>3, <1>5 DEF Good, IndexTypes, SameIndexes
    <2>2. VoteTypes(q)
      BY <1>3, <1>4, <1>5 DEF Good, VoteTypes
    <2>3. LogSound(q)
      BY <1>3, <1>5 DEF Good, LogSound, SameLog
    <2>4. FileSound(q, d)
      <3>1. FileSound(r1, d)
        BY <1>3 DEF Good
      <3> QED BY <3>1, <1>5 DEF FileSound, SameLog
    <2>5. WaitersSound(q, d)
      BY <1>3, <1>5 DEF Good, WaitersSound, SameLog
    <2>6. TallySound(q)
      BY <1>3, <1>4, <1>5 DEF Good, TallySound
    <2> QED BY <2>1, <2>2, <2>3, <2>4, <2>5, <2>6, <1>3, <1>5 DEF Good
  <1>7. \A p : Counted(q, p) \subseteq Counted(r1, p)
    BY <1>4, <1>5 DEF Counted
  <1>8. Keeps(r1, q, d)
    BY <1>5, <1>6, <1>7, SameReplies DEF Keeps, SameComplaint
  <1> QED BY <1>1, <1>2, <1>5, <1>8, KeepsTrans DEF Sent, SameElection, SameIndexes

\* raft_handle_append_request(), in all its cases.
LEMMA HandleAppendRequestKeeps ==
    ASSUME NEW r, NEW d, Good(r, d), NEW src \in Server, NEW m, SoundRpc(m),
           m.type = "APPEND_REQUEST", m.term = r.term
    PROVE  Keeps(r, raft_handle_append_request(r, src, m), d)
  <1> DEFINE n == Len(m.entries)
             r1 == raft_update_leader(r, src)
             ofs == r.log_start - (m.prev_log_index + 1)
             es == SubSeq(m.entries, ofs + 1, n)
  <1>0. /\ m.prev_log_index \in Int /\ r.log_start \in Int /\ m.entries \in Seq(LogEntry)
        /\ \A i \in DOMAIN m.entries : m.entries[i].term <= r.term
        /\ n \in Nat
    BY SMTT(60) DEF Good, IndexTypes, SoundRpc
  <1>1. Keeps(r, r1, d) /\ Good(r1, d) /\ r1.term = r.term
    BY UpdateLeaderKeeps DEF Keeps
  <1> HIDE DEF r1
  <1>2. CASE r.role = "LEADER"
    <2>1. Keeps(r, Complain(r, "usurped"), d) /\ Good(Complain(r, "usurped"), d)
      BY ComplainKeeps DEF Keeps
    <2>2. Keeps(Complain(r, "usurped"),
                raft_send_append_reply(Complain(r, "usurped"), src, m, "INCONSISTENCY"), d)
      BY <2>1, SendAppendReplyKeeps
    <2> QED BY <1>2, <2>1, <2>2, KeepsTrans DEF raft_handle_append_request
  <1>3. CASE r.role # "LEADER" /\ m.prev_log_index + 1 >= r.log_start
    <2>1. Keeps(r1, raft_handle_append_entries(r1, src, m, m.prev_log_index, m.prev_log_term,
                                               m.entries), d)
      BY <1>0, <1>1, HandleAppendEntriesKeeps
    <2>2. Keeps(r, raft_handle_append_entries(r1, src, m, m.prev_log_index, m.prev_log_term,
                                              m.entries), d)
      BY <1>1, <2>1, KeepsTrans
    <2> QED BY <1>3, <2>2 DEF raft_handle_append_request, r1
  <1>4. \A result : Keeps(r, raft_send_append_reply(r1, src, m, result), d)
    BY <1>1, SendAppendReplyKeeps, KeepsTrans
  <1>5. CASE /\ r.role # "LEADER" /\ ~(m.prev_log_index + 1 >= r.log_start)
             /\ m.prev_log_index + n < r.log_start - 1
    BY <1>4, <1>5 DEF raft_handle_append_request, r1
  <1>6. CASE /\ r.role # "LEADER" /\ ~(m.prev_log_index + 1 >= r.log_start)
             /\ ~(m.prev_log_index + n < r.log_start - 1)
             /\ m.prev_log_index + n = r.log_start - 1
    BY <1>4, <1>6 DEF raft_handle_append_request, r1
  <1>7. CASE /\ r.role # "LEADER" /\ ~(m.prev_log_index + 1 >= r.log_start)
             /\ ~(m.prev_log_index + n < r.log_start - 1)
             /\ m.prev_log_index + n # r.log_start - 1
    <2>1. Slice(es, m.entries, ofs + 1, n) /\ r.log_start - 1 \in Int
      BY <1>0, <1>7, SMTT(60) DEF Slice
    <2> HIDE DEF es
    <2>2. es \in Seq(LogEntry) /\ \A i \in DOMAIN es : es[i].term <= r.term
      BY <2>1, <1>0, SliceSound
    <2>3. Keeps(r1, raft_handle_append_entries(r1, src, m, r.log_start - 1, m.entries[ofs].term, es),
                d)
      BY <1>1, <2>1, <2>2, HandleAppendEntriesKeeps
    <2>4. Keeps(r, raft_handle_append_entries(r1, src, m, r.log_start - 1, m.entries[ofs].term, es),
                d)
      BY <1>1, <2>3, KeepsTrans
    <2> QED BY <1>7, <2>4 DEF raft_handle_append_request, r1, es
  <1> QED BY <1>2, <1>3, <1>5, <1>6, <1>7

\* raft_get_next_entry() touches only last_applied.
LEMMA NextEntryKeeps ==
    ASSUME NEW r, NEW d, Good(r, d)
    PROVE  Keeps(r, raft_get_next_entry(r), d)
  <1> DEFINE unread == {i \in r.last_applied + 1 .. r.commit_index : Entry(r, i).data # NoData}
             least == CHOOSE i \in unread : \A j \in unread : i <= j
             new == IF r.log_start = r.last_applied + 2 THEN r.last_applied + 1
                    ELSE IF unread = {} THEN r.commit_index ELSE least
             q == [r EXCEPT !.last_applied = new]
  <1>0. DOMAIN r = Fields /\ r.last_applied \in Int /\ r.commit_index \in Int
    BY DEF Good, IndexTypes
  <1>1. raft_get_next_entry(r) = q
    BY DEF raft_get_next_entry
  <1>2. unread \subseteq Int /\ \A i \in unread : r.last_applied + 1 <= i
    BY <1>0, SMTT(60)
  <1> HIDE DEF unread
  <1>3. unread # {} => least \in unread
    <2>1. r.last_applied + 1 \in Int
      BY <1>0, SMTT(60)
    <2> QED BY <1>2, <2>1, LeastOf
  <1> HIDE DEF least
  <1>a. r.last_applied + 1 \in Int
    BY <1>0, SMTT(60)
  <1>b. unread # {} => least \in Int
    BY <1>2, <1>3
  <1>4. new \in Int
    <2>1. CASE r.log_start = r.last_applied + 2
      BY <2>1, <1>a
    <2>2. CASE r.log_start # r.last_applied + 2 /\ unread = {}
      BY <2>2, <1>0
    <2>3. CASE r.log_start # r.last_applied + 2 /\ unread # {}
      BY <2>3, <1>b
    <2> QED BY <2>1, <2>2, <2>3
  <1> HIDE DEF new
  <1>5. /\ SameElection(r, q) /\ SameLog(r, q) /\ q.waiters = r.waiters /\ q.conns = r.conns
        /\ SameComplaint(r, q)
    BY <1>0 DEF Fields, SameElection, SameLog, SameComplaint
  <1>6. IndexTypes(q)
    BY <1>0, <1>4 DEF Good, IndexTypes, Fields
  <1> HIDE DEF q
  <1> QED BY <1>1, <1>5, <1>6, KeepsIndexes

---------------------------------------------------------------------------
(* The follower: snapshots.                                                *)

\* A server whose file was just replaced by a snapshot of its state.
LEMMA ReplacedGood ==
    ASSUME NEW r, NEW d, Good(r, d), NEW x, IndexTypes(x), SameElection(r, x), LogSound(x),
           x.waiters = r.waiters, x.conns = r.conns, x.complaints = r.complaints
    PROVE  /\ Keeps(r, ReplaceLog(x), raft_write_snapshot(ReplaceLog(x)))
           /\ Reaches(d.term, d.vote, r.term, r.vote)
           /\ raft_write_snapshot(ReplaceLog(x)).term = r.term
           /\ raft_write_snapshot(ReplaceLog(x)).vote = r.vote
           /\ ReplaceLog(x).term = r.term
  <1> DEFINE ws == [i \in DOMAIN x.waiters |-> [x.waiters[i] EXCEPT !.ticket = 0]]
             q == ReplaceLog(x)
             e == raft_write_snapshot(q)
  <1>0. DOMAIN x = Fields /\ IsSeq(r.waiters)
    BY DEF IndexTypes, Good, WaitersSound
  <1>1. q = [x EXCEPT !.file = <<>>, !.waiters = ws, !.log_synced = LogEnd(x) - 1]
    BY DEF ReplaceLog
  <1>2. \A i \in DOMAIN ws : /\ i \in DOMAIN r.waiters
                             /\ ws[i] = [r.waiters[i] EXCEPT !.ticket = 0]
    OBVIOUS
  <1>3. IsSeq(ws)
    <2>1. DOMAIN ws = 1 .. Len(r.waiters) /\ Len(r.waiters) \in Nat
      BY <1>0, ElemsDomain
    <2>2. ws \in [1 .. Len(r.waiters) -> Elems(ws)]
      BY <2>1 DEF Elems
    <2> HIDE DEF ws
    <2>3. ws \in Seq(Elems(ws))
      BY <2>1, <2>2, SMTT(60)
    <2> QED BY <2>3 DEF IsSeq
  <1> HIDE DEF ws
  <1>4. /\ SameElection(x, q) /\ SameIndexes(x, q) /\ q.entries = x.entries /\ q.file = <<>>
        /\ q.waiters = ws /\ q.conns = x.conns /\ q.complaints = x.complaints
    BY <1>0, <1>1, SMTT(60) DEF Fields, SameElection, SameIndexes
  <1> HIDE DEF q
  <1>5. /\ DOMAIN e = DiskFields /\ e.term = q.term /\ e.vote = q.vote
        /\ e.log_start = q.log_start /\ e.commit_index = q.commit_index /\ e.entries = q.entries
    BY DEF raft_write_snapshot, DiskFields
  <1> HIDE DEF e
  <1>6. SameElection(r, q)
    BY <1>4 DEF SameElection
  <1>7. Reaches(d.term, d.vote, r.term, r.vote)
    BY DEF Good, FileSound
  <1>8. VoteTypes(q) /\ TallySound(q) /\ SoundQueues(q.conns)
    <2>1. VoteTypes(r) /\ TallySound(r) /\ SoundQueues(r.conns)
      BY DEF Good
    <2>2. VoteTypes(q)
      BY <1>6, <2>1 DEF VoteTypes, SameElection
    <2>3. TallySound(q)
      BY <1>6, <2>1 DEF TallySound, SameElection
    <2> QED BY <1>4, <2>1, <2>2, <2>3
  <1>9. IndexTypes(q)
    BY <1>4 DEF IndexTypes, SameIndexes
  <1>10. LogSound(q) /\ LogSound(e)
    BY <1>4, <1>5 DEF LogSound, SameElection
  <1>11. DiskSound(e)
    BY <1>5, <1>8, <1>9, <1>10 DEF DiskSound, VoteTypes, IndexTypes
  <1>12. Reaches(q.synced_term, q.synced_vote, e.term, e.vote)
    <2>1. Reaches(r.synced_term, r.synced_vote, d.term, d.vote)
      BY DEF Good, FileSound
    <2>2. /\ r.synced_term \in Nat /\ d.term \in Nat /\ r.term \in Nat
      BY DEF Good, VoteTypes, DiskSound
    <2>3. Reaches(r.synced_term, r.synced_vote, r.term, r.vote)
      BY <1>7, <2>1, <2>2, SMTT(60) DEF Reaches
    <2> QED BY <2>3, <1>5, <1>6 DEF SameElection
  <1>13. FileSound(q, e)
    <2>1. Reaches(e.term, e.vote, q.term, q.vote)
      BY <1>5 DEF Reaches
    <2>2. q.file \in Seq(FileRecord) /\ DOMAIN q.file = {}
      BY <1>4, SMTT(60)
    <2> QED BY <2>1, <2>2, <1>5, <1>12 DEF FileSound
  <1>14. WaitersSound(q, e)
    <2> SUFFICES ASSUME NEW i \in DOMAIN ws PROVE SoundWaiter(ws[i], q.file, e)
      BY <1>3, <1>4 DEF WaitersSound
    <2> DEFINE w == r.waiters[i]
               v == ws[i]
    <2>1. SoundWaiter(w, r.file, d) /\ v = [w EXCEPT !.ticket = 0]
      BY <1>2 DEF Good, WaitersSound
    <2>2. DOMAIN w = WaiterFields
      BY <2>1 DEF SoundWaiter
    <2> HIDE DEF w, v
    <2>3. /\ DOMAIN v = WaiterFields /\ v.ticket = 0 /\ v.index = w.index /\ v.term = w.term
          /\ v.vote = w.vote /\ v.rpcs = w.rpcs /\ v.type = w.type
      BY <2>1, <2>2 DEF WaiterFields
    <2>4. w.type # "ENTRY" => Reaches(w.term, w.vote, r.term, r.vote)
      <3> SUFFICES ASSUME w.type # "ENTRY" PROVE Reaches(w.term, w.vote, r.term, r.vote)
        OBVIOUS
      <3>1. CASE Reaches(w.term, w.vote, d.term, d.vote)
        <4>1. w.term \in Nat /\ d.term \in Nat /\ r.term \in Nat
          BY <2>1 DEF SoundWaiter, Good, DiskSound, VoteTypes
        <4> QED BY <3>1, <4>1, <1>7, SMTT(60) DEF Reaches
      <3>2. CASE w.ticket \in DOMAIN r.file /\ r.file[w.ticket] = StateRec(w.term, w.vote)
        <4>1. /\ IsState(r.file[w.ticket]) /\ r.file[w.ticket].term = w.term
              /\ r.file[w.ticket].vote = w.vote
          BY <3>2, SMTT(60) DEF IsState, StateRec
        <4>2. \A k \in DOMAIN r.file :
                  IsState(r.file[k]) => Reaches(r.file[k].term, r.file[k].vote, r.term, r.vote)
          BY DEF Good, FileSound
        <4> QED BY <3>2, <4>1, <4>2
      <3> QED BY <3>1, <3>2, <2>1 DEF SoundWaiter
    <2>5. SoundWaiter(v, q.file, e)
      BY <2>1, <2>3, <2>4, <1>5, <1>6, SMTT(60) DEF SoundWaiter, SameElection
    <2> QED BY <2>5 DEF v
  <1>15. Good(q, e)
    BY <1>8, <1>9, <1>10, <1>11, <1>13, <1>14 DEF Good
  <1>16. Keeps(r, q, e)
    BY <1>4, <1>6, <1>15, SameReplies, SameCounted, SMTT(60) DEF Keeps, SameElection
  <1> QED BY <1>5, <1>6, <1>7, <1>16 DEF q, e, SameElection

\* raft_store_snapshot(): the new file holds the term and vote of memory.
LEMMA StoreSnapshotKeeps ==
    ASSUME NEW r, NEW d, Good(r, d), r.last_applied >= r.log_start
    PROVE  LET q == raft_store_snapshot(r)
               e == raft_write_snapshot(q)
           IN  Keeps(r, q, e) /\ Reaches(d.term, d.vote, e.term, e.vote)
  <1> DEFINE new == r.last_applied + 1
             snap == [term |-> raft_get_term(r, new - 1), data |-> DataUpTo(r, new - 1)]
             es == SubSeq(r.entries, new - r.log_start + 1, Len(r.entries))
             x == [r EXCEPT !.snap = snap, !.entries = es, !.log_start = new]
             q == raft_store_snapshot(r)
             e == raft_write_snapshot(q)
  <1>0. /\ DOMAIN r = Fields /\ r.last_applied \in Int /\ r.log_start \in Int
        /\ r.entries \in Seq(LogEntry) /\ Len(r.entries) \in Nat
        /\ \A i \in DOMAIN r.entries : r.entries[i].term <= r.term
    BY SMTT(60) DEF Good, IndexTypes, LogSound
  <1>1. q = ReplaceLog(x)
    BY DEF raft_store_snapshot
  <1>2. new \in Int /\ Slice(es, r.entries, new - r.log_start + 1, Len(r.entries))
    BY <1>0, SMTT(60) DEF Slice
  <1> HIDE DEF es, new, snap
  <1>3. es \in Seq(LogEntry) /\ \A i \in DOMAIN es : es[i].term <= r.term
    BY <1>0, <1>2, SliceSound
  <1>4. /\ SameElection(r, x) /\ x.entries = es /\ x.waiters = r.waiters /\ x.conns = r.conns
        /\ x.complaints = r.complaints
    BY <1>0 DEF Fields, SameElection
  <1>5. IndexTypes(x)
    BY <1>0, <1>2 DEF Fields, Good, IndexTypes
  <1> HIDE DEF x
  <1>6. LogSound(x)
    BY <1>3, <1>4 DEF LogSound, SameElection
  <1> HIDE DEF q, e
  <1>7. Keeps(r, ReplaceLog(x), raft_write_snapshot(ReplaceLog(x)))
        /\ Reaches(d.term, d.vote, r.term, r.vote)
        /\ raft_write_snapshot(ReplaceLog(x)).term = r.term
        /\ raft_write_snapshot(ReplaceLog(x)).vote = r.vote
    BY <1>4, <1>5, <1>6, ReplacedGood
  <1>8. Keeps(r, q, e) /\ Reaches(d.term, d.vote, e.term, e.vote)
    BY <1>1, <1>7 DEF e
  <1> QED BY <1>8 DEF q, e

\* raft_handle_install_snapshot_request(), whether or not it installs.
LEMMA InstallSnapshotKeeps ==
    ASSUME NEW r, NEW d, Good(r, d), NEW src \in Server, NEW m, SoundRpc(m),
           m.type = "INSTALL_SNAPSHOT_REQUEST",
           NEW q, q = raft_handle_install_snapshot_request(r, src, m),
           NEW e, e = IF Installs(r, m) THEN raft_write_snapshot(q) ELSE d
    PROVE  Keeps(r, q, e) /\ Reaches(d.term, d.vote, e.term, e.vote)
  <1> DEFINE new == m.last_index + 1
             applied == IF r.last_applied < new - 1 THEN new - 2 ELSE r.last_applied
             snap == [term |-> m.last_term, data |-> m.data]
             r1 == [r EXCEPT !.log_start = new, !.entries = <<>>, !.commit_index = new - 1,
                             !.last_applied = applied, !.snap = snap]
             a == [type |-> "INSTALL_SNAPSHOT_REPLY", term |-> r.term,
                   last_index |-> m.last_index, last_term |-> m.last_term]
             x == ReplaceLog(r1)
  <1>0. /\ DOMAIN r = Fields /\ r.last_applied \in Int /\ m.last_index \in Int /\ r.term \in Nat
    BY DEF Good, IndexTypes, VoteTypes, SoundRpc
  <1>1. q = raft_send(IF Installs(r, m) THEN x ELSE r, src, a)
    BY DEF raft_handle_install_snapshot_request
  <1>2. CASE ~Installs(r, m)
    <2>1. OwnRpc(r, a)
      BY <1>0 DEF OwnRpc, SoundRpc
    <2> HIDE DEF a
    <2>2. Keeps(r, q, d) /\ e = d
      BY <1>1, <1>2, <2>1, SendKeeps
    <2> QED BY <2>2 DEF Reaches
  <1>3. CASE Installs(r, m)
    <2>1. new \in Int /\ new - 1 \in Int /\ applied \in Int
      BY <1>0, SMTT(60)
    <2> HIDE DEF new, applied, snap
    <2>2. /\ SameElection(r, r1) /\ r1.entries = <<>> /\ r1.waiters = r.waiters
          /\ r1.conns = r.conns /\ r1.complaints = r.complaints
      BY <1>0 DEF Fields, SameElection
    <2>3. IndexTypes(r1)
      BY <1>0, <2>1 DEF Fields, Good, IndexTypes
    <2> HIDE DEF r1
    <2>4. LogSound(r1)
      BY <2>2, SMTT(60) DEF LogSound
    <2>5. /\ Keeps(r, x, raft_write_snapshot(x))
          /\ Reaches(d.term, d.vote, r.term, r.vote)
          /\ raft_write_snapshot(x).term = r.term
          /\ raft_write_snapshot(x).vote = r.vote
          /\ x.term = r.term
      BY <2>2, <2>3, <2>4, ReplacedGood
    <2> HIDE DEF x
    <2>6. Good(x, raft_write_snapshot(x))
      BY <2>5 DEF Keeps
    <2>7. OwnRpc(x, a)
      BY <1>0, <2>5 DEF OwnRpc, SoundRpc
    <2> HIDE DEF a
    <2>8. q = raft_send(x, src, a) /\ e = raft_write_snapshot(q)
      BY <1>1, <1>3
    <2>9. Keeps(x, q, raft_write_snapshot(x)) /\ Sent(x, q)
      BY <2>6, <2>7, <2>8, SendKeeps
    <2>10. raft_write_snapshot(q) = raft_write_snapshot(x)
      BY <2>9 DEF raft_write_snapshot, Sent, SameElection, SameLog, SameIndexes
    <2>11. Keeps(r, q, e)
      BY <2>5, <2>8, <2>9, <2>10, KeepsTrans
    <2> QED BY <2>5, <2>8, <2>10, <2>11
  <1> QED BY <1>2, <1>3
=============================================================================
