-------------------------- MODULE RaftServeProofs --------------------------
(***************************************************************************)
(* What the functions of Raft do to the invariant of RaftHeard: one that   *)
(* replicates leaves a server what it is and lets it claim no other        *)
(* office, and one that changes term or role gives it only an office to    *)
(* which it was elected.                                                   *)
(***************************************************************************)
EXTENDS RaftElectionProofs, RaftHeard

\* A leaf that names no prover is tried with Zenon and then with SMT.
USE ZenonT(30), SMTT(120), ZenonT(120)

---------------------------------------------------------------------------
(* Changes of one server within a term of office.                          *)

\* The term that a server may announce to lead, and that of a leader.
Voice(r) == IF r.role = "LEADER" /\ r.term <= r.synced_term THEN {r.term} ELSE {}
Office(r) == IF r.role = "LEADER" THEN {r.term} ELSE {}

Errors == {"usurped", "changed"}

\* What stays the same besides connections and waiters.
Retains(r, q) ==
    /\ SameElection(r, q)
    /\ q.leader_sid = r.leader_sid
    /\ \A x \in Elems(q.file) : IsState(x) => x \in Elems(r.file)
    /\ \A c \in Errors : c \in q.complaints => c \in r.complaints

\* Going from r to q, a server keeps its office and claims no other.
Serves(r, q) ==
    /\ Retains(r, q)
    /\ Told(q) \subseteq Told(r) \cup Voice(r)
    /\ Deferred(q) \subseteq Deferred(r) \cup Office(r)

\* Two calls in a row.
LEMMA ServesTrans ==
    ASSUME NEW r, NEW q, NEW x, Serves(r, q), Serves(q, x)
    PROVE  Serves(r, x)
  <1>1. Voice(q) = Voice(r) /\ Office(q) = Office(r)
    BY DEF Serves, Retains, SameElection, Voice, Office
  <1>2. Retains(r, x)
    BY DEF Serves, Retains, SameElection
  <1> QED BY <1>1, <1>2 DEF Serves

\* A call that changes nothing.
LEMMA ServesRefl ==
    ASSUME NEW r
    PROVE  Serves(r, r)
  BY DEF Serves, Retains, SameElection

\* The claims in a set of queues.
LEMMA InClaims ==
    ASSUME NEW f, NEW t
    PROVE  t \in Claims(f) <=>
               \E e \in Server : \E m \in Elems(f[e]) : m.type = "APPEND_REQUEST" /\ t = m.term
  BY SMTT(60) DEF Claims

\* The claims behind the waiters.
LEMMA InDeferred ==
    ASSUME NEW r, NEW t
    PROVE  t \in Deferred(r) <=> \E w \in Elems(r.waiters) : t \in Claims(w.rpcs)
  BY DEF Deferred

\* A change of anything but connections and waiters.
LEMMA RetainsServes ==
    ASSUME NEW r, NEW q, Retains(r, q), q.conns = r.conns, q.waiters = r.waiters
    PROVE  Serves(r, q)
  BY DEF Serves, Told, Deferred

\* A change of the connections.
LEMMA ConnsServe ==
    ASSUME NEW r, NEW q, Retains(r, q), q.waiters = r.waiters,
           \A e \in Server : \A m \in Elems(q.conns[e]) :
               \/ m \in Elems(r.conns[e])
               \/ m.type = "APPEND_REQUEST" => m.term \in Voice(r)
    PROVE  Serves(r, q)
  <1>1. ASSUME NEW t \in Told(q) PROVE t \in Told(r) \cup Voice(r)
    BY <1>1, InClaims, SMTT(60) DEF Told
  <1> QED BY <1>1 DEF Serves, Deferred

\* A change of the waiters.
LEMMA WaitersServe ==
    ASSUME NEW r, NEW q, Retains(r, q), q.conns = r.conns,
           \A w \in Elems(q.waiters) : Claims(w.rpcs) \subseteq Deferred(r) \cup Office(r)
    PROVE  Serves(r, q)
  <1>1. ASSUME NEW t \in Deferred(q) PROVE t \in Deferred(r) \cup Office(r)
    BY <1>1, InDeferred
  <1> QED BY <1>1 DEF Serves, Told

\* What a waiter defers is deferred.
LEMMA WaiterDeferred ==
    ASSUME NEW r, NEW w \in Elems(r.waiters)
    PROVE  Claims(w.rpcs) \subseteq Deferred(r)
  BY InDeferred

\* A waiter with nothing behind it.
LEMMA NoClaims == Claims(NoRpcs) = {}
  <1>1. \A e \in Server : Elems(NoRpcs[e]) = {}
    BY SMTT(60) DEF NoRpcs, Elems
  <1> QED BY <1>1, InClaims

\* A complaint about something else.
LEMMA ComplainServes ==
    ASSUME NEW r, NEW d, Good(r, d), NEW what, what \notin Errors
    PROVE  Serves(r, Complain(r, what))
  <1> DEFINE q == Complain(r, what)
  <1>1. DOMAIN r = Fields
    BY DEF Good, IndexTypes
  <1>2. Retains(r, q) /\ q.conns = r.conns /\ q.waiters = r.waiters
    BY <1>1 DEF Complain, Fields, Retains, SameElection
  <1> HIDE DEF q
  <1>3. Serves(r, q)
    BY <1>2, RetainsServes
  <1> QED BY <1>3 DEF q

\* An RPC of the current term, which is an append request only at a leader.
LedRpc(r, m) == OwnRpc(r, m) /\ (m.type = "APPEND_REQUEST" => r.role = "LEADER")

\* raft_send_at(): what it sends, and what it defers.
LEMMA SendEachServes ==
    ASSUME NEW r, NEW d, Good(r, d), NEW f, DOMAIN f \subseteq Server,
           \A e \in DOMAIN f : LedRpc(r, f[e])
    PROVE  Serves(r, raft_send_each(r, f))
  <1> DEFINE q == raft_send_each(r, f)
  <1>0. DOMAIN r = Fields /\ SoundQueues(r.conns) /\ WaitersSound(r, d)
    BY DEF Good, IndexTypes
  <1>1. CASE \A e \in DOMAIN f : raft_is_rpc_synced(r, f[e])
    <2> DEFINE c == [e \in Server |-> IF e \in DOMAIN f THEN Carry(r.conns[e], <<f[e]>>)
                                      ELSE r.conns[e]]
    <2>1. q = [r EXCEPT !.conns = c]
      BY <1>1 DEF raft_send_each
    <2> HIDE DEF c
    <2>2. Retains(r, q) /\ q.waiters = r.waiters /\ q.conns = c
      BY <2>1, <1>0 DEF Fields, Retains, SameElection
    <2>3. ASSUME NEW e \in Server, NEW m \in Elems(c[e])
          PROVE  m \in Elems(r.conns[e]) \/ (m.type = "APPEND_REQUEST" => m.term \in Voice(r))
      <3>1. CASE e \notin DOMAIN f
        BY <3>1, <2>3 DEF c
      <3>2. CASE e \in DOMAIN f
        <4>1. c[e] = Carry(r.conns[e], <<f[e]>>)
          BY <3>2 DEF c
        <4>2. Elems(c[e]) \subseteq Elems(r.conns[e]) \cup {f[e]}
          BY <4>1, <1>0, CarryElems, SingletonElems DEF SoundQueues
        <4>3. f[e].type = "APPEND_REQUEST" => f[e].term \in Voice(r)
          <5>1. f[e].term = r.term /\ f[e].term <= r.synced_term
            BY <3>2, <1>1 DEF LedRpc, OwnRpc, raft_is_rpc_synced
          <5> QED BY <3>2, <5>1 DEF LedRpc, Voice
        <4> QED BY <2>3, <4>2, <4>3
      <3> QED BY <3>1, <3>2
    <2> HIDE DEF q
    <2>4. Serves(r, q)
      BY <2>2, <2>3, ConnsServe
    <2> QED BY <2>4 DEF q
  <1>2. CASE ~(\A e \in DOMAIN f : raft_is_rpc_synced(r, f[e])) /\ r.waiters = <<>>
    <2>1. "deferred" \notin Errors
      BY DEF Errors
    <2> QED BY <1>2, <2>1, ComplainServes DEF raft_send_each
  <1>3. CASE ~(\A e \in DOMAIN f : raft_is_rpc_synced(r, f[e])) /\ r.waiters # <<>>
    <2> DEFINE n == Len(r.waiters)
               old == r.waiters[n].rpcs
               rpcs == [e \in Server |-> IF e \in DOMAIN f THEN Append(old[e], f[e]) ELSE old[e]]
               w == [r.waiters[n] EXCEPT !.rpcs = rpcs]
               ws == [r.waiters EXCEPT ![n] = w]
    <2>1. q = [r EXCEPT !.waiters = ws]
      BY <1>3 DEF raft_send_each
    <2>2. n \in DOMAIN r.waiters /\ IsSeq(r.waiters) /\ SoundWaiter(r.waiters[n], r.file, d)
      BY <1>0, <1>3, ElemsDomain, SMTT(60) DEF WaitersSound, IsSeq
    <2>3. DOMAIN r.waiters[n] = WaiterFields /\ SoundQueues(old) /\ r.waiters[n] \in Elems(r.waiters)
      BY <2>2, ElemsDomain DEF SoundWaiter
    <2>4. ASSUME NEW t \in Claims(rpcs) PROVE t \in Claims(old) \cup Office(r)
      <3>1. PICK e \in Server : \E m \in Elems(rpcs[e]) : m.type = "APPEND_REQUEST" /\ t = m.term
        <4> HIDE DEF rpcs
        <4> QED BY <2>4, InClaims, SMTT(60)
      <3>2. PICK m \in Elems(rpcs[e]) : m.type = "APPEND_REQUEST" /\ t = m.term
        BY <3>1
      <3>3. CASE m \in Elems(old[e])
        BY <3>2, <3>3, InClaims
      <3>4. CASE e \in DOMAIN f /\ m = f[e]
        BY <3>2, <3>4 DEF LedRpc, OwnRpc, Office
      <3>5. e \in DOMAIN f => Elems(rpcs[e]) \subseteq Elems(old[e]) \cup {f[e]}
        BY <2>3, AppendElems DEF SoundQueues
      <3> QED BY <3>2, <3>3, <3>4, <3>5
    <2>5. Claims(old) \subseteq Deferred(r)
      BY <2>3, WaiterDeferred
    <2> HIDE DEF rpcs
    <2>6. w.rpcs = rpcs
      BY <2>3 DEF WaiterFields
    <2> HIDE DEF w, old
    <2>7. \A i \in DOMAIN ws : ws[i] = w \/ (i \in DOMAIN r.waiters /\ ws[i] = r.waiters[i])
      BY <2>2
    <2> HIDE DEF ws
    <2>8. \A u \in Elems(ws) : u = w \/ u \in Elems(r.waiters)
      BY <2>7 DEF Elems
    <2>9. Retains(r, q) /\ q.conns = r.conns /\ q.waiters = ws
      BY <2>1, <1>0 DEF Fields, Retains, SameElection
    <2> HIDE DEF q
    <2>10. \A u \in Elems(q.waiters) : Claims(u.rpcs) \subseteq Deferred(r) \cup Office(r)
      BY <2>4, <2>5, <2>6, <2>8, <2>9, WaiterDeferred
    <2>11. Serves(r, q)
      BY <2>9, <2>10, WaitersServe
    <2> QED BY <2>11 DEF q
  <1> QED BY <1>1, <1>2, <1>3

\* raft_send() to one server.
LEMMA SendServes ==
    ASSUME NEW r, NEW d, Good(r, d), NEW e \in Server, NEW m, LedRpc(r, m)
    PROVE  Serves(r, raft_send(r, e, m))
  <1> DEFINE f == [x \in {e} |-> m]
  <1>1. DOMAIN f \subseteq Server /\ \A x \in DOMAIN f : LedRpc(r, f[x])
    OBVIOUS
  <1>2. raft_send(r, e, m) = raft_send_each(r, f)
    BY DEF raft_send
  <1> QED BY <1>1, <1>2, SendEachServes

\* raft_waiter_complete_rpc(): what a waiter has deferred goes out only while the
\* server is still leader of the term.
LEMMA WaiterCompleteRpcServes ==
    ASSUME NEW r, NEW d, Good(r, d), NEW f, SoundQueues(f),
           \A t \in Claims(f) : t < r.term \/ (t = r.term /\ r.role = "LEADER")
    PROVE  Serves(r, raft_waiter_complete_rpc(r, f))
  <1> DEFINE q == raft_waiter_complete_rpc(r, f)
             late == \A e \in Server : \A i \in DOMAIN f[e] : f[e][i].term < r.term
             ready == \A e \in Server : \A i \in DOMAIN f[e] :
                          f[e][i].term >= r.term /\ raft_is_rpc_synced(r, f[e][i])
  <1>0. DOMAIN r = Fields /\ SoundQueues(r.conns) /\ r.term \in Nat
    BY DEF Good, IndexTypes, VoteTypes
  <1>1. CASE late
    BY <1>1, ServesRefl DEF raft_waiter_complete_rpc
  <1>2. CASE ~late /\ ~ready
    <2>1. "deferred" \notin Errors
      BY DEF Errors
    <2> QED BY <1>2, <2>1, ComplainServes DEF raft_waiter_complete_rpc
  <1>3. CASE ~late /\ ready
    <2> DEFINE c == [e \in Server |-> Carry(r.conns[e], f[e])]
    <2>1. q = [r EXCEPT !.conns = c]
      BY <1>3 DEF raft_waiter_complete_rpc
    <2>2. ASSUME NEW e \in Server, NEW m \in Elems(c[e])
          PROVE  m \in Elems(r.conns[e]) \/ (m.type = "APPEND_REQUEST" => m.term \in Voice(r))
      <3>1. Elems(c[e]) \subseteq Elems(r.conns[e]) \cup Elems(f[e])
        BY <1>0, CarryElems DEF SoundQueues
      <3>2. ASSUME m \in Elems(f[e]), m.type = "APPEND_REQUEST" PROVE m.term \in Voice(r)
        <4>1. m.term \in Nat /\ m.term >= r.term /\ m.term <= r.synced_term
          BY <1>3, <3>2 DEF SoundQueues, SoundRpc, Elems, raft_is_rpc_synced
        <4>2. m.term \in Claims(f)
          BY <3>2, InClaims
        <4>3. m.term = r.term /\ r.role = "LEADER"
          BY <1>0, <4>1, <4>2, SMTT(60)
        <4> QED BY <4>1, <4>3 DEF Voice
      <3> QED BY <2>2, <3>1, <3>2
    <2> HIDE DEF c
    <2>3. Retains(r, q) /\ q.waiters = r.waiters /\ q.conns = c
      BY <2>1, <1>0 DEF Fields, Retains, SameElection
    <2> HIDE DEF q
    <2>4. Serves(r, q)
      BY <2>2, <2>3, ConnsServe
    <2> QED BY <2>4 DEF q
  <1> QED BY <1>1, <1>2, <1>3

---------------------------------------------------------------------------
(* The log.                                                                *)

\* A file that grows by records that are no states.
LEMMA GrownStates ==
    ASSUME NEW g \in Seq(FileRecord), NEW fs \in Seq(FileRecord),
           \A i \in DOMAIN fs : ~IsState(fs[i])
    PROVE  \A x \in Elems(g \o fs) : IsState(x) => x \in Elems(g)
  <1>1. \A i \in DOMAIN (g \o fs) :
            \/ i \in DOMAIN g /\ (g \o fs)[i] = g[i]
            \/ \E k \in DOMAIN fs : (g \o fs)[i] = fs[k]
    <2> SUFFICES ASSUME NEW i \in DOMAIN (g \o fs), i \notin DOMAIN g
                 PROVE  \E k \in DOMAIN fs : (g \o fs)[i] = fs[k]
      BY SMTT(60)
    <2>1. i - Len(g) \in DOMAIN fs /\ (g \o fs)[i] = fs[i - Len(g)]
      BY SMTT(60)
    <2> QED BY <2>1
  <1> QED BY <1>1 DEF Elems

\* raft_update_commit_index().
LEMMA UpdateCommitIndexServes ==
    ASSUME NEW r, NEW d, Good(r, d), NEW new \in Int
    PROVE  Serves(r, raft_update_commit_index(r, new))
  <1> DEFINE q == raft_update_commit_index(r, new)
             fs == <<CommitRec(new)>>
  <1>1. CASE new <= r.commit_index
    BY <1>1, ServesRefl DEF raft_update_commit_index
  <1>2. CASE ~(new <= r.commit_index)
    <2>0. DOMAIN r = Fields /\ r.file \in Seq(FileRecord)
      BY DEF Good, IndexTypes, FileSound
    <2>1. q = [r EXCEPT !.commit_index = new, !.file = Append(@, CommitRec(new))]
      BY <1>2 DEF raft_update_commit_index
    <2>2. fs \in Seq(FileRecord) /\ \A i \in DOMAIN fs : ~IsState(fs[i])
      BY SMTT(60) DEF CommitRec, FileRecord, IsState
    <2>3. Append(r.file, CommitRec(new)) = r.file \o fs
      BY <2>0, SMTT(60)
    <2> HIDE DEF fs
    <2>4. \A x \in Elems(r.file \o fs) : IsState(x) => x \in Elems(r.file)
      BY <2>0, <2>2, GrownStates
    <2>5. /\ SameElection(r, q) /\ q.file = r.file \o fs /\ q.waiters = r.waiters
          /\ q.conns = r.conns /\ q.complaints = r.complaints /\ q.leader_sid = r.leader_sid
      BY <2>0, <2>1, <2>3 DEF Fields, SameElection
    <2> HIDE DEF q
    <2>6. Retains(r, q)
      BY <2>4, <2>5 DEF Retains
    <2>7. Serves(r, q)
      BY <2>5, <2>6, RetainsServes
    <2> QED BY <2>7 DEF q
  <1> QED BY <1>1, <1>2

\* raft_write_entry() for several entries, and their waiter.
LEMMA WriteEntriesServes ==
    ASSUME NEW r, NEW d, Good(r, d), NEW es \in Seq(LogEntry)
    PROVE  Serves(r, raft_write_entries(r, es))
  <1> DEFINE q == raft_write_entries(r, es)
             fs == [k \in DOMAIN es |-> EntryRec(LogEnd(r) + k - 1, es[k])]
             w == [type |-> "ENTRY", ticket |-> Len(r.file) + Len(es),
                   index |-> LogEnd(r) + Len(es) - 1, term |-> r.term, vote |-> Zero,
                   rpcs |-> NoRpcs]
  <1>0. /\ DOMAIN r = Fields /\ r.file \in Seq(FileRecord) /\ r.entries \in Seq(LogEntry)
        /\ r.log_start \in Int /\ IsSeq(r.waiters)
    BY DEF Good, IndexTypes, FileSound, LogSound, WaitersSound
  <1>1. LogEnd(r) \in Int
    BY <1>0, SMTT(60) DEF LogEnd
  <1>2. q = [r EXCEPT !.entries = @ \o es, !.file = @ \o fs, !.waiters = Append(@, w)]
    BY DEF raft_write_entries
  <1>3. fs \in Seq(FileRecord) /\ \A i \in DOMAIN fs : ~IsState(fs[i])
    <2>1. DOMAIN es = 1 .. Len(es) /\ Len(es) \in Nat
      BY SMTT(60)
    <2>2. ASSUME NEW k \in DOMAIN es
          PROVE  EntryRec(LogEnd(r) + k - 1, es[k]) \in FileRecord
      <3>1. es[k] \in LogEntry /\ k \in Int
        BY <2>1, SMTT(60)
      <3>2. es[k].term \in Nat /\ es[k].data \in Data
        BY <3>1 DEF LogEntry
      <3> QED BY <3>1, <3>2, <1>1, SMTT(60) DEF EntryRec, FileRecord
    <2>3. fs \in Seq(FileRecord)
      BY <2>1, <2>2, SMTT(60)
    <2> QED BY <2>3 DEF EntryRec, IsState
  <1>4. w.rpcs = NoRpcs
    OBVIOUS
  <1> HIDE DEF fs, w
  <1>5. \A x \in Elems(r.file \o fs) : IsState(x) => x \in Elems(r.file)
    BY <1>0, <1>3, GrownStates
  <1>6. /\ SameElection(r, q) /\ q.file = r.file \o fs /\ q.waiters = Append(r.waiters, w)
        /\ q.conns = r.conns /\ q.complaints = r.complaints /\ q.leader_sid = r.leader_sid
    BY <1>0, <1>2 DEF Fields, SameElection
  <1> HIDE DEF q
  <1>7. Retains(r, q)
    BY <1>5, <1>6 DEF Retains
  <1>8. \A u \in Elems(q.waiters) : Claims(u.rpcs) \subseteq Deferred(r) \cup Office(r)
    <2>1. Elems(q.waiters) \subseteq Elems(r.waiters) \cup {w}
      BY <1>0, <1>6, AppendElems
    <2> QED BY <2>1, <1>4, NoClaims, WaiterDeferred
  <1>9. Serves(r, q)
    BY <1>6, <1>7, <1>8, WaitersServe
  <1> QED BY <1>9 DEF q

\* raft_truncate().
LEMMA TruncateServes ==
    ASSUME NEW r, NEW d, Good(r, d), NEW new_end
    PROVE  Serves(r, raft_truncate(r, new_end))
  <1> DEFINE q == raft_truncate(r, new_end)
             es == SubSeq(r.entries, 1, new_end - r.log_start)
  <1>1. DOMAIN r = Fields
    BY DEF Good, IndexTypes
  <1>2. q = [r EXCEPT !.entries = es]
    BY DEF raft_truncate
  <1> HIDE DEF es
  <1>3. Retains(r, q) /\ q.conns = r.conns /\ q.waiters = r.waiters
    BY <1>1, <1>2 DEF Fields, Retains, SameElection
  <1> HIDE DEF q
  <1>4. Serves(r, q)
    BY <1>3, RetainsServes
  <1> QED BY <1>4 DEF q

\* A change of what the leader knows of its peers, or of what the client has read.
LEMMA IndexesServe ==
    ASSUME NEW r, NEW d, Good(r, d), NEW a, NEW b, NEW q,
           q \in {[r EXCEPT !.match_index = a], [r EXCEPT !.next_index = a],
                  [r EXCEPT !.snapping = a], [r EXCEPT !.replied = a],
                  [r EXCEPT !.replied = a, !.next_index = b],
                  [r EXCEPT !.last_applied = a], [r EXCEPT !.log_synced = a]}
    PROVE  Serves(r, q)
  <1>1. DOMAIN r = Fields
    BY DEF Good, IndexTypes
  <1>2. Retains(r, q) /\ q.conns = r.conns /\ q.waiters = r.waiters
    BY <1>1, ZenonT(60) DEF Fields, Retains, SameElection
  <1> QED BY <1>2, RetainsServes

---------------------------------------------------------------------------
(* The leader.                                                             *)

\* raft_send_append_request(), which only a leader does.
LEMMA SendAppendRequestServes ==
    ASSUME NEW r, NEW d, Good(r, d), NEW p \in Server, NEW n \in Nat,
           n = 0 \/ (r.next_index[p] >= r.log_start /\ r.next_index[p] + n <= LogEnd(r))
    PROVE  Serves(r, raft_send_append_request(r, p, n))
  <1>1. OwnRpc(r, append_request(r, p, n))
    BY AppendRequestOwn
  <1>2. r.role = "LEADER" => Serves(r, raft_send(r, p, append_request(r, p, n)))
    BY <1>1, SendServes DEF LedRpc
  <1>3. Serves(r, Complain(r, "assert"))
    <2>1. "assert" \notin Errors
      BY DEF Errors
    <2> QED BY <2>1, ComplainServes
  <1> QED BY <1>2, <1>3 DEF raft_send_append_request

\* raft_send_heartbeats(), by a leader.
LEMMA SendHeartbeatsServes ==
    ASSUME NEW r, NEW d, Good(r, d), r.role = "LEADER"
    PROVE  Serves(r, raft_send_heartbeats(r))
  <1> DEFINE f == [p \in Peers(r) |-> append_request(r, p, 0)]
  <1>1. \A p \in Server : OwnRpc(r, append_request(r, p, 0))
    BY AppendRequestOwn
  <1>2. DOMAIN f \subseteq Server /\ \A e \in DOMAIN f : LedRpc(r, f[e])
    BY <1>1 DEF Peers, LedRpc
  <1> HIDE DEF f
  <1>3. Serves(r, raft_send_each(r, f))
    BY <1>2, SendEachServes
  <1>4. Serves(r, Complain(r, "wrap"))
    <2>1. "wrap" \notin Errors
      BY DEF Errors
    <2> QED BY <2>1, ComplainServes
  <1> QED BY <1>3, <1>4 DEF raft_send_heartbeats, f

\* raft_consider_updating_commit_index(), by a leader.
LEMMA ConsiderServes ==
    ASSUME NEW r, NEW d, Good(r, d), r.role = "LEADER"
    PROVE  Serves(r, raft_consider_updating_commit_index(r))
  <1>1. CASE Committable(r) = {}
    BY <1>1, ServesRefl DEF raft_consider_updating_commit_index
  <1>2. CASE Committable(r) # {}
    <2> DEFINE new == CHOOSE i \in Committable(r) : \A j \in Committable(r) : j <= i
               r1 == raft_update_commit_index(r, new)
    <2>1. r.log_start \in Int /\ r.commit_index \in Int /\ LogEnd(r) - 1 \in Int
      BY SMTT(60) DEF Good, IndexTypes, LogSound, LogEnd
    <2>2. Committable(r) \subseteq Int /\ \A i \in Committable(r) : i <= LogEnd(r) - 1
      BY <2>1, SMTT(60) DEF Committable, MaxOf
    <2>3. new \in Committable(r)
      BY <1>2, <2>1, <2>2, GreatestOf
    <2>4. new \in Int
      BY <2>2, <2>3
    <2> HIDE DEF new
    <2>5. Good(r1, d) /\ Serves(r, r1)
      BY <2>4, UpdateCommitIndexKeeps, UpdateCommitIndexServes DEF Keeps
    <2> HIDE DEF r1
    <2>6. r1.role = "LEADER"
      BY <2>5 DEF Serves, Retains, SameElection
    <2>7. Serves(r1, raft_send_heartbeats(r1))
      BY <2>5, <2>6, SendHeartbeatsServes
    <2>8. Serves(r, raft_send_heartbeats(r1))
      BY <2>5, <2>7, ServesTrans
    <2> QED BY <2>8, <1>2 DEF raft_consider_updating_commit_index, new, r1
  <1> QED BY <1>1, <1>2

\* raft_update_match_index(), by a leader.
LEMMA UpdateMatchIndexServes ==
    ASSUME NEW r, NEW d, Good(r, d), r.role = "LEADER", NEW p \in Server, NEW i \in Int
    PROVE  Serves(r, raft_update_match_index(r, p, i))
  <1>1. CASE ~(i > r.match_index[p])
    BY <1>1, ServesRefl DEF raft_update_match_index
  <1>2. CASE i > r.match_index[p]
    <2> DEFINE match == [r.match_index EXCEPT ![p] = i]
               q == [r EXCEPT !.match_index[p] = i]
    <2>0. DOMAIN r = Fields /\ r.match_index \in [Server -> Int]
      BY DEF Good, IndexTypes
    <2>1. match \in [Server -> Int]
      BY <2>0
    <2>2. q = [r EXCEPT !.match_index = match]
      OBVIOUS
    <2>3. IndexTypes(q)
      BY <2>0, <2>1 DEF Good, IndexTypes, Fields
    <2> HIDE DEF match
    <2>4. /\ SameElection(r, q) /\ SameLog(r, q) /\ q.waiters = r.waiters /\ q.conns = r.conns
          /\ SameComplaint(r, q)
      BY <2>0, <2>2 DEF Fields, SameElection, SameLog, SameComplaint
    <2>5. Serves(r, q)
      BY <2>2, IndexesServe
    <2> HIDE DEF q
    <2>6. Good(q, d)
      BY <2>3, <2>4, KeepsIndexes DEF Keeps
    <2>7. q.role = "LEADER"
      BY <2>4 DEF SameElection
    <2>8. Serves(q, raft_consider_updating_commit_index(q))
      BY <2>6, <2>7, ConsiderServes
    <2>9. Serves(r, raft_consider_updating_commit_index(q))
      BY <2>5, <2>8, ServesTrans
    <2> QED BY <2>9, <1>2 DEF raft_update_match_index, q
  <1> QED BY <1>1, <1>2

\* raft_command_initiate(), by a leader.
LEMMA CommandInitiateServes ==
    ASSUME NEW r, NEW d, Good(r, d), r.role = "LEADER", NEW data \in Data
    PROVE  Serves(r, raft_command_initiate(r, data))
  <1> DEFINE index == LogEnd(r)
             es == <<[term |-> r.term, data |-> data]>>
             r1 == raft_write_entries(r, es)
             upToDate == {p \in Peers(r) : r.next_index[p] = index}
             f == [p \in upToDate |-> append_request(r1, p, 1)]
             r2 == raft_send_each(r1, f)
             next == [p \in Server |-> IF p \in upToDate THEN index + 1 ELSE r2.next_index[p]]
             q == [r2 EXCEPT !.next_index = next]
  <1>0. /\ r.term \in Nat /\ r.log_start \in Int /\ r.entries \in Seq(LogEntry)
        /\ r.next_index \in [Server -> Int]
    BY DEF Good, VoteTypes, IndexTypes, LogSound
  <1>1. raft_command_initiate(r, data) = q
    BY DEF raft_command_initiate
  <1>2. es \in Seq(LogEntry) /\ Len(es) = 1 /\ \A i \in DOMAIN es : es[i].term <= r.term
    BY <1>0, SMTT(60) DEF LogEntry
  <1> HIDE DEF es
  <1>3. /\ Good(r1, d) /\ SameElection(r, r1) /\ SameIndexes(r, r1)
        /\ r1.entries = r.entries \o es /\ Serves(r, r1)
    BY <1>2, WriteEntriesKeeps, WriteEntriesServes DEF Keeps
  <1> HIDE DEF r1
  <1>4. LogEnd(r1) = index + 1 /\ index \in Int /\ index >= r.log_start
    <2>1. Len(r.entries) \in Nat
      BY <1>0, SMTT(60)
    <2>2. Len(r.entries \o es) = Len(r.entries) + Len(es)
      BY <1>0, <1>2, ConcatLength
    <2>3. Len(r1.entries) = Len(r.entries) + 1
      BY <1>2, <1>3, <2>2
    <2>4. LogEnd(r1) = r.log_start + (Len(r.entries) + 1)
      BY <2>3, <1>3 DEF LogEnd, SameIndexes
    <2>5. index = r.log_start + Len(r.entries)
      BY DEF LogEnd
    <2> QED BY <2>1, <2>4, <2>5, <1>0, SMTT(60)
  <1>5. \A p \in upToDate : p \in Server /\ LedRpc(r1, append_request(r1, p, 1))
    <2> SUFFICES ASSUME NEW p \in upToDate
                 PROVE  p \in Server /\ LedRpc(r1, append_request(r1, p, 1))
      OBVIOUS
    <2>1. p \in Server /\ r1.next_index[p] >= r1.log_start /\ r1.next_index[p] + 1 <= LogEnd(r1)
      BY <1>3, <1>4, SMTT(60) DEF Peers, SameIndexes
    <2>2. OwnRpc(r1, append_request(r1, p, 1))
      BY <2>1, <1>3, AppendRequestOwn
    <2> QED BY <2>1, <2>2, <1>3 DEF LedRpc, SameElection
  <1>6. DOMAIN f \subseteq Server /\ \A e \in DOMAIN f : LedRpc(r1, f[e])
    BY <1>5
  <1> HIDE DEF f
  <1>7. Good(r2, d) /\ Serves(r1, r2)
    BY <1>3, <1>6, SendEachKeeps, SendEachServes DEF Keeps, LedRpc
  <1> HIDE DEF r2, next
  <1>8. Serves(r2, q)
    BY <1>7, IndexesServe
  <1> QED BY <1>1, <1>3, <1>7, <1>8, ServesTrans

\* raft_send_install_snapshot_request().
LEMMA SendInstallSnapshotRequestServes ==
    ASSUME NEW r, NEW d, Good(r, d), NEW p \in Server
    PROVE  Serves(r, raft_send_install_snapshot_request(r, p))
  <1>1. CASE p \in r.snapping
    BY <1>1, ServesRefl DEF raft_send_install_snapshot_request
  <1>2. CASE p \notin r.snapping
    <2> DEFINE m == [type |-> "INSTALL_SNAPSHOT_REQUEST", term |-> r.term,
                     last_index |-> r.log_start - 1, last_term |-> r.snap.term,
                     data |-> r.snap.data]
               r1 == raft_send(r, p, m)
               S == r1.snapping \cup {p}
               q == [r1 EXCEPT !.snapping = S]
    <2>1. LedRpc(r, m)
      BY SMTT(60) DEF LedRpc, OwnRpc, SoundRpc, Good, IndexTypes, VoteTypes
    <2>2. raft_send_install_snapshot_request(r, p) = [r1 EXCEPT !.snapping = @ \cup {p}]
      BY <1>2 DEF raft_send_install_snapshot_request
    <2> HIDE DEF m
    <2>3. Good(r1, d) /\ Serves(r, r1)
      BY <2>1, SendKeeps, SendServes DEF LedRpc, Keeps
    <2>4. DOMAIN r1 = Fields
      BY <2>3 DEF Good, IndexTypes
    <2>5. raft_send_install_snapshot_request(r, p) = q
      BY <2>2, <2>4 DEF Fields
    <2> HIDE DEF r1, S
    <2>6. Serves(r1, q)
      BY <2>3, IndexesServe
    <2> QED BY <2>3, <2>5, <2>6, ServesTrans
  <1> QED BY <1>1, <1>2

\* raft_handle_append_reply().
LEMMA HandleAppendReplyServes ==
    ASSUME NEW r, NEW d, Good(r, d), NEW src \in Server, NEW m, SoundRpc(m),
           m.type = "APPEND_REPLY"
    PROVE  Serves(r, raft_handle_append_reply(r, src, m))
  <1> DEFINE min_index == m.prev_log_index + m.n_entries + 1
             next == r.next_index[src]
             new == IF m.result = "OK" THEN MaxOf(next, min_index)
                    ELSE IF next > 0 THEN MinOf(next - 1, m.log_end) ELSE 0
             nexts == [r.next_index EXCEPT ![src] = new]
             S == r.replied \cup {src}
             r1 == [r EXCEPT !.replied = @ \cup {src}, !.next_index[src] = new]
             r2 == IF m.result = "OK" THEN raft_update_match_index(r1, src, min_index - 1) ELSE r1
  <1>0. /\ DOMAIN r = Fields /\ r.next_index \in [Server -> Int]
        /\ m.prev_log_index \in Int /\ m.n_entries \in Int /\ m.log_end \in Int
    BY DEF Good, IndexTypes, SoundRpc
  <1>1. min_index \in Int /\ min_index - 1 \in Int
    BY <1>0, SMTT(60)
  <1>2. new \in Int
    BY <1>0, <1>1, SMTT(60) DEF MaxOf, MinOf
  <1> HIDE DEF new, min_index
  <1>3. r1 = [r EXCEPT !.replied = S, !.next_index = nexts] /\ nexts \in [Server -> Int]
    BY <1>0, <1>2
  <1> HIDE DEF nexts, S
  <1>4. /\ SameElection(r, r1) /\ SameLog(r, r1) /\ r1.waiters = r.waiters /\ r1.conns = r.conns
        /\ SameComplaint(r, r1)
    BY <1>0, <1>3 DEF Fields, SameElection, SameLog, SameComplaint
  <1>5. IndexTypes(r1)
    BY <1>0, <1>3 DEF Good, IndexTypes, Fields
  <1>6. Serves(r, r1)
    BY <1>3, IndexesServe
  <1> HIDE DEF r1
  <1>7. Good(r1, d)
    BY <1>4, <1>5, KeepsIndexes DEF Keeps
  <1>8. CASE r.role # "LEADER"
    BY <1>8, ServesRefl DEF raft_handle_append_reply
  <1>9. CASE r.role = "LEADER"
    <2>1. r1.role = "LEADER"
      BY <1>4, <1>9 DEF SameElection
    <2>2. /\ Good(raft_update_match_index(r1, src, min_index - 1), d)
          /\ Serves(r1, raft_update_match_index(r1, src, min_index - 1))
      BY <1>1, <1>7, <2>1, UpdateMatchIndexKeeps, UpdateMatchIndexServes DEF Keeps
    <2>3. Good(r2, d) /\ Serves(r, r2)
      BY <1>6, <1>7, <2>2, ServesTrans
    <2> HIDE DEF r2
    <2>4. r2.next_index[src] \in Int /\ r2.log_start \in Int /\ LogEnd(r2) \in Int
      BY <2>3, SMTT(60) DEF Good, IndexTypes, LogSound, LogEnd
    <2>5. CASE r2.next_index[src] < r2.log_start
      <3>1. Serves(r, raft_send_install_snapshot_request(r2, src))
        BY <2>3, SendInstallSnapshotRequestServes, ServesTrans
      <3> QED BY <3>1, <1>9, <2>5 DEF raft_handle_append_reply, r2, r1, new, min_index
    <2>6. CASE ~(r2.next_index[src] < r2.log_start) /\ r2.next_index[src] < LogEnd(r2)
      <3> DEFINE n == LogEnd(r2) - r2.next_index[src]
      <3>1. n \in Nat /\ r2.next_index[src] >= r2.log_start /\ r2.next_index[src] + n <= LogEnd(r2)
        BY <2>4, <2>6, SMTT(60)
      <3> HIDE DEF n
      <3>2. Serves(r2, raft_send_append_request(r2, src, n))
        BY <3>1, <2>3, SendAppendRequestServes
      <3>3. Serves(r, raft_send_append_request(r2, src, n))
        BY <3>2, <2>3, ServesTrans
      <3> QED BY <3>3, <1>9, <2>6 DEF raft_handle_append_reply, r2, r1, new, min_index, n
    <2>7. CASE ~(r2.next_index[src] < r2.log_start) /\ ~(r2.next_index[src] < LogEnd(r2))
      BY <1>9, <2>3, <2>7 DEF raft_handle_append_reply, r2, r1, new, min_index
    <2> QED BY <2>5, <2>6, <2>7
  <1> QED BY <1>8, <1>9

\* raft_handle_install_snapshot_reply().
LEMMA HandleInstallSnapshotReplyServes ==
    ASSUME NEW r, NEW d, Good(r, d), NEW src \in Server, NEW m
    PROVE  Serves(r, raft_handle_install_snapshot_reply(r, src, m))
  <1> DEFINE S == r.snapping \ {src}
             r1 == [r EXCEPT !.snapping = @ \ {src}]
             nexts == [r1.next_index EXCEPT ![src] = r.log_start]
             r2 == [r1 EXCEPT !.next_index[src] = r.log_start]
             n == LogEnd(r) - r.log_start
  <1>0. DOMAIN r = Fields
    BY DEF Good, IndexTypes
  <1>a. r1 = [r EXCEPT !.snapping = S]
    BY <1>0 DEF Fields
  <1> HIDE DEF S
  <1>1. Keeps(r, r1, d) /\ Sent(r, r1) /\ Serves(r, r1)
    BY <1>a, PeerSetsKeep, IndexesServe
  <1> HIDE DEF r1
  <1>2. /\ Good(r1, d) /\ DOMAIN r1 = Fields /\ r1.next_index \in [Server -> Int]
        /\ r1.log_start = r.log_start /\ r1.entries = r.entries /\ r.log_start \in Int
        /\ Len(r.entries) \in Nat
    BY <1>1, SMTT(60) DEF Keeps, Good, IndexTypes, Sent, SameIndexes, SameLog, LogSound
  <1>3. r2 = [r1 EXCEPT !.next_index = nexts] /\ nexts \in [Server -> Int]
        /\ nexts[src] = r.log_start
    BY <1>2
  <1> HIDE DEF nexts
  <1>4. /\ SameElection(r1, r2) /\ SameLog(r1, r2) /\ r2.waiters = r1.waiters
        /\ r2.conns = r1.conns /\ SameComplaint(r1, r2)
        /\ r2.log_start = r.log_start /\ r2.entries = r.entries /\ r2.next_index[src] = r.log_start
    BY <1>2, <1>3 DEF Fields, SameElection, SameLog, SameComplaint
  <1>5. IndexTypes(r2)
    BY <1>2, <1>3 DEF Good, IndexTypes, Fields
  <1>6. Serves(r1, r2)
    BY <1>2, <1>3, IndexesServe
  <1> HIDE DEF r2
  <1>7. Good(r2, d)
    BY <1>2, <1>4, <1>5, KeepsIndexes DEF Keeps
  <1>8. n \in Nat /\ r2.next_index[src] >= r2.log_start /\ r2.next_index[src] + n <= LogEnd(r2)
    <2>1. LogEnd(r) = r.log_start + Len(r.entries) /\ LogEnd(r2) = r.log_start + Len(r.entries)
      BY <1>4 DEF LogEnd
    <2> QED BY <2>1, <1>2, <1>4, SMTT(60)
  <1> HIDE DEF n
  <1>9. Serves(r, raft_send_append_request(r2, src, n))
    <2>1. Serves(r2, raft_send_append_request(r2, src, n))
      BY <1>7, <1>8, SendAppendRequestServes
    <2> QED BY <1>1, <1>6, <2>1, ServesTrans
  <1>10. Serves(r, raft_send_install_snapshot_request(r1, src))
    BY <1>1, <1>2, SendInstallSnapshotRequestServes, ServesTrans
  <1> QED BY <1>9, <1>10 DEF raft_handle_install_snapshot_reply, r1, r2, n

---------------------------------------------------------------------------
(* The follower.                                                           *)

\* raft_send_append_reply().
LEMMA SendAppendReplyServes ==
    ASSUME NEW r, NEW d, Good(r, d), NEW dst \in Server, NEW m, SoundRpc(m),
           m.type = "APPEND_REQUEST", NEW result
    PROVE  Serves(r, raft_send_append_reply(r, dst, m, result))
  <1> DEFINE n == Len(m.entries)
             new == MinOf(m.leader_commit, m.prev_log_index + n)
             r1 == IF result = "OK" /\ m.leader_commit > r.commit_index
                   THEN raft_update_commit_index(r, new) ELSE r
             a == [type |-> "APPEND_REPLY", term |-> r1.term, log_end |-> LogEnd(r1),
                   prev_log_index |-> m.prev_log_index, n_entries |-> n, result |-> result]
  <1>0. m.prev_log_index \in Int /\ m.leader_commit \in Int /\ n \in Nat
    BY SMTT(60) DEF SoundRpc
  <1>1. new \in Int
    BY <1>0, SMTT(60) DEF MinOf
  <1> HIDE DEF new, n
  <1>2. Good(r1, d) /\ Serves(r, r1)
    BY <1>1, UpdateCommitIndexKeeps, UpdateCommitIndexServes, ServesRefl DEF Keeps
  <1> HIDE DEF r1
  <1>3. r1.term \in Nat /\ LogEnd(r1) \in Int
    <2>1. r1.term \in Nat /\ r1.log_start \in Int /\ Len(r1.entries) \in Nat
      BY <1>2, SMTT(60) DEF Good, VoteTypes, IndexTypes, LogSound
    <2> QED BY <2>1, SMTT(60) DEF LogEnd
  <1>4. LedRpc(r1, a)
    BY <1>0, <1>3, SMTT(60) DEF LedRpc, OwnRpc, SoundRpc
  <1> HIDE DEF a
  <1>5. Serves(r1, raft_send(r1, dst, a))
    BY <1>2, <1>4, SendServes
  <1>6. Serves(r, raft_send(r1, dst, a))
    BY <1>2, <1>5, ServesTrans
  <1> QED BY <1>6 DEF raft_send_append_reply, r1, a, new, n

\* raft_handle_append_entries().
LEMMA HandleAppendEntriesServes ==
    ASSUME NEW r, NEW d, Good(r, d), NEW src \in Server, NEW m, SoundRpc(m),
           m.type = "APPEND_REQUEST", NEW prev \in Int, NEW prev_term,
           NEW es \in Seq(LogEntry), \A i \in DOMAIN es : es[i].term <= r.term
    PROVE  Serves(r, raft_handle_append_entries(r, src, m, prev, prev_term, es))
  <1> DEFINE fresh == {k \in DOMAIN es : \/ prev + k >= LogEnd(r)
                                         \/ Entry(r, prev + k).term # es[k].term}
             first == CHOOSE k \in fresh : \A j \in fresh : k <= j
             r1 == IF prev + first < LogEnd(r) THEN raft_truncate(r, prev + first) ELSE r
             tail == SubSeq(es, first, Len(es))
             r2 == raft_write_entries(r1, tail)
  <1>1. CASE ~match_index_and_term(r, prev, prev_term)
    <2>1. Serves(r, raft_send_append_reply(r, src, m, "INCONSISTENCY"))
      BY SendAppendReplyServes
    <2> QED BY <1>1, <2>1 DEF raft_handle_append_entries
  <1>2. CASE match_index_and_term(r, prev, prev_term) /\ fresh = {}
    <2>1. Serves(r, raft_send_append_reply(r, src, m, "OK"))
      BY SendAppendReplyServes
    <2> QED BY <1>2, <2>1 DEF raft_handle_append_entries
  <1>3. CASE match_index_and_term(r, prev, prev_term) /\ fresh # {}
    <2>0. r.log_start \in Int /\ LogEnd(r) \in Int /\ prev >= r.log_start - 1
      BY <1>3, SMTT(60) DEF Good, IndexTypes, LogSound, LogEnd, match_index_and_term
    <2>1. fresh \subseteq Int /\ \A k \in fresh : 1 <= k /\ k <= Len(es)
      BY SMTT(60)
    <2> HIDE DEF fresh
    <2>2. first \in fresh
      <3>1. 1 \in Int /\ \A k \in fresh : 1 <= k
        BY <2>1, SMTT(60)
      <3> QED BY <1>3, <2>1, <3>1, LeastOf
    <2>3. first \in Int /\ first >= 1
      BY <2>1, <2>2
    <2> HIDE DEF first
    <2>4. Good(r1, d) /\ Serves(r, r1) /\ r1.term = r.term
      <3>1. CASE prev + first < LogEnd(r)
        <4>1. prev + first \in Int /\ prev + first >= r.log_start /\ prev + first <= LogEnd(r)
          BY <3>1, <2>0, <2>3, SMTT(60)
        <4>2. r1 = raft_truncate(r, prev + first)
          BY <3>1
        <4> QED BY <4>1, <4>2, TruncateKeeps, TruncateServes, SMTT(60) DEF Keeps, SameElection
      <3>2. CASE ~(prev + first < LogEnd(r))
        BY <3>2, ServesRefl
      <3> QED BY <3>1, <3>2
    <2>5. tail \in Seq(LogEntry) /\ \A i \in DOMAIN tail : tail[i].term <= r.term
      <3>1. Slice(tail, es, first, Len(es))
        BY <2>3, SMTT(60) DEF Slice
      <3> HIDE DEF tail
      <3> QED BY <3>1, SliceSound
    <2> HIDE DEF r1, tail
    <2>6. Good(r2, d) /\ Serves(r1, r2)
      BY <2>4, <2>5, WriteEntriesKeeps, WriteEntriesServes DEF Keeps
    <2> HIDE DEF r2
    <2>7. Serves(r2, raft_send_append_reply(r2, src, m, "OK"))
      BY <2>6, SendAppendReplyServes
    <2>8. Serves(r, raft_send_append_reply(r2, src, m, "OK"))
      BY <2>4, <2>6, <2>7, ServesTrans
    <2> QED BY <1>3, <2>8 DEF raft_handle_append_entries, r2, r1, tail, first, fresh
  <1> QED BY <1>1, <1>2, <1>3

\* raft_get_next_entry().
LEMMA NextEntryServes ==
    ASSUME NEW r, NEW d, Good(r, d)
    PROVE  Serves(r, raft_get_next_entry(r))
  <1> DEFINE unread == {i \in r.last_applied + 1 .. r.commit_index : Entry(r, i).data # NoData}
             new == IF r.log_start = r.last_applied + 2 THEN r.last_applied + 1
                    ELSE IF unread = {} THEN r.commit_index
                    ELSE CHOOSE i \in unread : \A j \in unread : i <= j
             q == raft_get_next_entry(r)
  <1>1. q = [r EXCEPT !.last_applied = new]
    BY DEF raft_get_next_entry
  <1> HIDE DEF new, q
  <1>2. DOMAIN r = Fields
    BY DEF Good, IndexTypes
  <1>3. Retains(r, q) /\ q.conns = r.conns /\ q.waiters = r.waiters
    BY <1>1, <1>2 DEF Fields, Retains, SameElection
  <1>4. Serves(r, q)
    BY <1>3, RetainsServes
  <1> QED BY <1>4 DEF q

\* ovsdb_log_replace_commit() of the file of x, which differs from r in its log.
LEMMA ReplacedServes ==
    ASSUME NEW r, NEW d, Good(r, d), NEW x, DOMAIN x = Fields, SameElection(r, x),
           x.waiters = r.waiters, x.conns = r.conns, x.complaints = r.complaints,
           x.leader_sid = r.leader_sid
    PROVE  Serves(r, ReplaceLog(x))
  <1> DEFINE ws == [i \in DOMAIN x.waiters |-> [x.waiters[i] EXCEPT !.ticket = 0]]
             q == ReplaceLog(x)
  <1>1. q = [x EXCEPT !.file = <<>>, !.waiters = ws, !.log_synced = LogEnd(x) - 1]
    BY DEF ReplaceLog
  <1>2. \A i \in DOMAIN ws : ws[i].rpcs = r.waiters[i].rpcs /\ i \in DOMAIN r.waiters
    BY DEF Good, WaitersSound, SoundWaiter, WaiterFields
  <1> HIDE DEF ws
  <1>3. \A w \in Elems(ws) : Claims(w.rpcs) \subseteq Deferred(r)
    BY <1>2, WaiterDeferred DEF Elems
  <1>4. /\ SameElection(x, q) /\ q.file = <<>> /\ q.waiters = ws /\ q.conns = x.conns
        /\ q.complaints = x.complaints /\ q.leader_sid = x.leader_sid
    BY <1>1, SMTT(60) DEF Fields, SameElection
  <1> HIDE DEF q
  <1>5. Retains(r, q)
    BY <1>4, SMTT(60) DEF Retains, SameElection, Elems
  <1>6. Serves(r, q)
    BY <1>3, <1>4, <1>5, WaitersServe
  <1> QED BY <1>6 DEF q

\* raft_store_snapshot().
LEMMA StoreSnapshotServes ==
    ASSUME NEW r, NEW d, Good(r, d)
    PROVE  Serves(r, raft_store_snapshot(r))
  <1> DEFINE new == r.last_applied + 1
             snap == [term |-> raft_get_term(r, new - 1), data |-> DataUpTo(r, new - 1)]
             es == SubSeq(r.entries, new - r.log_start + 1, Len(r.entries))
             x == [r EXCEPT !.snap = snap, !.entries = es, !.log_start = new]
  <1>0. DOMAIN r = Fields
    BY DEF Good, IndexTypes
  <1>1. raft_store_snapshot(r) = ReplaceLog(x)
    BY DEF raft_store_snapshot
  <1> HIDE DEF es, new, snap
  <1>2. /\ SameElection(r, x) /\ x.waiters = r.waiters /\ x.conns = r.conns /\ DOMAIN x = Fields
        /\ x.complaints = r.complaints /\ x.leader_sid = r.leader_sid
    BY <1>0 DEF Fields, SameElection
  <1> HIDE DEF x
  <1> QED BY <1>1, <1>2, ReplacedServes

\* raft_handle_install_snapshot_request().
LEMMA InstallSnapshotServes ==
    ASSUME NEW r, NEW d, Good(r, d), NEW src \in Server, NEW m, SoundRpc(m),
           m.type = "INSTALL_SNAPSHOT_REQUEST"
    PROVE  Serves(r, raft_handle_install_snapshot_request(r, src, m))
  <1> DEFINE new == m.last_index + 1
             applied == IF r.last_applied < new - 1 THEN new - 2 ELSE r.last_applied
             snap == [term |-> m.last_term, data |-> m.data]
             r1 == [r EXCEPT !.log_start = new, !.entries = <<>>, !.commit_index = new - 1,
                             !.last_applied = applied, !.snap = snap]
             a == [type |-> "INSTALL_SNAPSHOT_REPLY", term |-> r.term,
                   last_index |-> m.last_index, last_term |-> m.last_term]
             x == ReplaceLog(r1)
             q == raft_handle_install_snapshot_request(r, src, m)
  <1>0. /\ DOMAIN r = Fields /\ r.last_applied \in Int /\ m.last_index \in Int /\ r.term \in Nat
    BY DEF Good, IndexTypes, VoteTypes, SoundRpc
  <1>1. q = raft_send(IF Installs(r, m) THEN x ELSE r, src, a)
    BY DEF raft_handle_install_snapshot_request
  <1>2. \A y : y.term = r.term => LedRpc(y, a)
    BY <1>0 DEF LedRpc, OwnRpc, SoundRpc
  <1> HIDE DEF a, q
  <1>3. CASE ~Installs(r, m)
    <2>1. Serves(r, q)
      BY <1>1, <1>2, <1>3, SendServes
    <2> QED BY <2>1 DEF q
  <1>4. CASE Installs(r, m)
    <2>1. new \in Int /\ new - 1 \in Int /\ applied \in Int
      BY <1>0, SMTT(60)
    <2> HIDE DEF new, applied, snap
    <2>2. /\ SameElection(r, r1) /\ r1.entries = <<>> /\ r1.waiters = r.waiters
          /\ r1.conns = r.conns /\ r1.complaints = r.complaints /\ r1.leader_sid = r.leader_sid
      BY <1>0 DEF Fields, SameElection
    <2>3. IndexTypes(r1)
      BY <1>0, <2>1 DEF Fields, Good, IndexTypes
    <2> HIDE DEF r1
    <2>4. LogSound(r1)
      BY <2>2, SMTT(60) DEF LogSound
    <2>5. Good(x, raft_write_snapshot(x)) /\ x.term = r.term
      BY <2>2, <2>3, <2>4, ReplacedGood DEF Keeps
    <2>6. Serves(r, x)
      BY <2>2, <2>3, ReplacedServes DEF IndexTypes
    <2> HIDE DEF x
    <2>7. Serves(x, raft_send(x, src, a))
      BY <1>2, <2>5, SendServes
    <2>8. Serves(r, q)
      BY <1>1, <1>4, <2>6, <2>7, ServesTrans
    <2> QED BY <2>8 DEF q
  <1> QED BY <1>3, <1>4

\* What a server has on a connection becomes less, or is reordered, or grows by
\* an RPC that claims nothing.
LEMMA ConnServes ==
    ASSUME NEW r, NEW d, Good(r, d), NEW p \in Server, NEW c,
           \A m \in Elems(c) : m \in Elems(r.conns[p]) \/ m.type # "APPEND_REQUEST",
           NEW S, NEW q,
           q \in {[r EXCEPT !.conns[p] = c], [r EXCEPT !.conns[p] = c, !.snapping = S]}
    PROVE  Serves(r, q)
  <1> DEFINE cs == [r.conns EXCEPT ![p] = c]
  <1>0. DOMAIN r = Fields /\ DOMAIN r.conns = Server
    BY DEF Good, IndexTypes, SoundQueues
  <1>1. cs[p] = c /\ \A e \in Server \ {p} : cs[e] = r.conns[e]
    BY <1>0
  <1>2. q \in {[r EXCEPT !.conns = cs], [r EXCEPT !.conns = cs, !.snapping = S]}
    BY DEF cs
  <1> HIDE DEF cs
  <1>3. /\ SameElection(r, q) /\ q.file = r.file /\ q.waiters = r.waiters
        /\ q.complaints = r.complaints /\ q.leader_sid = r.leader_sid /\ q.conns = cs
    BY <1>0, <1>2, ZenonT(60) DEF Fields, SameElection
  <1>4. Retains(r, q)
    BY <1>3 DEF Retains
  <1>5. \A e \in Server : \A m \in Elems(q.conns[e]) :
            m \in Elems(r.conns[e]) \/ m.type # "APPEND_REQUEST"
    BY <1>1, <1>3
  <1> QED BY <1>3, <1>4, <1>5, ConnsServe, SMTT(60)

---------------------------------------------------------------------------
(* Changes of leader and term.                                             *)

\* Going from r to q with disk e, a server claims nothing but its own office, and
\* takes another for leader only if it did so before or if the other is in L.
Heeds(r, q, e, L) ==
    /\ q.sid = r.sid
    /\ LeaderSound(q, e)
    /\ Told(q) \subseteq Told(r) \cup Voice(q)
    /\ \/ q.leader_sid \in L \cup {Zero, q.sid}
       \/ q.leader_sid = r.leader_sid /\ q.term = r.term
    /\ \A c \in Errors : c \in q.complaints => c \in r.complaints

\* Two calls in a row.
LEMMA HeedsTrans ==
    ASSUME NEW r, NEW q, NEW x, NEW d, NEW e, NEW L, Heeds(r, q, d, L), Heeds(q, x, e, L),
           Voice(q) \subseteq Voice(x)
    PROVE  Heeds(r, x, e, L)
  BY DEF Heeds

\* A server that does nothing.
LEMMA HeedsRefl ==
    ASSUME NEW r, NEW d, LeaderSound(r, d), NEW L
    PROVE  Heeds(r, r, d, L)
  BY DEF Heeds

\* It may heed more.
LEMMA HeedsMore ==
    ASSUME NEW r, NEW q, NEW e, NEW L, NEW M, Heeds(r, q, e, L), L \subseteq M
    PROVE  Heeds(r, q, e, M)
  BY DEF Heeds

\* Keeping one's office keeps what is known of leaders.
LEMMA ServesHeeds ==
    ASSUME NEW r, NEW d, LeaderSound(r, d), NEW q, Serves(r, q), NEW e, NEW L,
           (r.role # "FOLLOWER" /\ e.term = r.term) => e.vote = r.sid
    PROVE  Heeds(r, q, e, L) /\ Voice(q) = Voice(r)
  <1>1. /\ q.sid = r.sid /\ q.term = r.term /\ q.role = r.role /\ q.synced_term = r.synced_term
        /\ q.leader_sid = r.leader_sid
        /\ \A x \in Elems(q.file) : IsState(x) => x \in Elems(r.file)
    BY DEF Serves, Retains, SameElection
  <1>2. Voice(q) = Voice(r)
    BY <1>1 DEF Voice
  <1>3. \A t \in Deferred(q) : t < q.term \/ (t = q.term /\ q.role = "LEADER")
    BY <1>1 DEF Serves, LeaderSound, Office
  <1>4. LeaderSound(q, e)
    BY <1>1, <1>3 DEF LeaderSound
  <1> QED BY <1>1, <1>2, <1>4 DEF Heeds, Serves, Retains

\* The same, with an unchanged disk.
LEMMA ServesStays ==
    ASSUME NEW r, NEW d, LeaderSound(r, d), NEW q, Serves(r, q), NEW L
    PROVE  Heeds(r, q, d, L) /\ Voice(q) = Voice(r)
  <1>1. (r.role # "FOLLOWER" /\ d.term = r.term) => d.vote = r.sid
    BY DEF LeaderSound
  <1> QED BY <1>1, ServesHeeds

\* What is deferred does not change when a waiter for a term is added.
LEMMA TermWaiterDeferred ==
    ASSUME NEW r, IsSeq(r.waiters), NEW q, NEW w, w.rpcs = NoRpcs,
           q.waiters = Append(r.waiters, w)
    PROVE  Deferred(q) \subseteq Deferred(r)
  <1>1. Elems(q.waiters) \subseteq Elems(r.waiters) \cup {w}
    BY AppendElems
  <1> QED BY <1>1, NoClaims, InDeferred

\* The states in a file after raft_set_term().
LEMMA StateAdded ==
    ASSUME NEW f \in Seq(FileRecord), NEW rec
    PROVE  Elems(Append(f, rec)) \subseteq Elems(f) \cup {rec}
  <1>1. IsSeq(f)
    BY SeqIsSeq
  <1> QED BY <1>1, AppendElems

\* The terms of deferred claims are numbers.
LEMMA DeferredNat ==
    ASSUME NEW r, NEW d, Good(r, d), NEW t \in Deferred(r)
    PROVE  t \in Nat
  <1>1. PICK w \in Elems(r.waiters) : t \in Claims(w.rpcs)
    BY InDeferred
  <1>2. SoundQueues(w.rpcs)
    BY DEF Good, WaitersSound, SoundWaiter, Elems
  <1> QED BY <1>1, <1>2, InClaims, SMTT(60) DEF SoundQueues, SoundRpc

\* raft_receive_term__(): the server forgets the leader of an earlier term.
LEMMA ReceiveTermHeeds ==
    ASSUME NEW r, NEW d, Good(r, d), LeaderSound(r, d), NEW t \in Nat, t >= r.term,
           NEW q, q = raft_receive_term(r, t)
    PROVE  /\ Heeds(r, q, d, {}) /\ Voice(q) \subseteq Voice(r)
           /\ q = r \/ (q.role = "FOLLOWER" /\ q.leader_sid = Zero)
  <1>0. r.term \in Nat /\ DOMAIN r = Fields /\ IsSeq(r.waiters) /\ r.sid \in Server
        /\ Zero \in Sid /\ Zero \notin Server
    BY ServerAssumption DEF Good, VoteTypes, IndexTypes, WaitersSound, Sid
  <1>1. CASE t > r.term
    <2> DEFINE r1 == raft_set_term(r, t, Zero)
               w == [type |-> "TERM", ticket |-> Len(r.file) + 1, index |-> 0, term |-> t,
                     vote |-> Zero, rpcs |-> NoRpcs]
    <2>1. q = [r1 EXCEPT !.leader_sid = Zero, !.role = "FOLLOWER"]
      BY <1>1 DEF raft_receive_term, raft_become_follower
    <2>2. /\ DOMAIN r1 = Fields /\ r1.sid = r.sid /\ r1.term = t /\ r1.conns = r.conns
          /\ r1.complaints = r.complaints /\ r1.waiters = Append(r.waiters, w)
      BY <1>0, SetTermFields, SMTT(60)
    <2>3. w.rpcs = NoRpcs
      OBVIOUS
    <2> HIDE DEF r1, w
    <2>4. /\ q.sid = r.sid /\ q.term = t /\ q.conns = r.conns /\ q.complaints = r.complaints
          /\ q.waiters = Append(r.waiters, w) /\ q.role = "FOLLOWER" /\ q.leader_sid = Zero
      BY <2>1, <2>2 DEF Fields
    <2>5. Deferred(q) \subseteq Deferred(r)
      BY <1>0, <2>3, <2>4, TermWaiterDeferred
    <2>6. \A u \in Deferred(r) : u < t
      BY <1>0, <1>1, DeferredNat, SMTT(60) DEF LeaderSound
    <2>7. LeaderSound(q, d)
      BY <1>0, <2>4, <2>5, <2>6 DEF LeaderSound
    <2> QED BY <2>4, <2>7 DEF Heeds, Told, Voice
  <1>2. CASE ~(t > r.term)
    BY <1>2, HeedsRefl DEF raft_receive_term
  <1> QED BY <1>1, <1>2

\* raft_handle_vote_request__(): a vote says nothing of leaders.
LEMMA HandleVoteRequestHeeds ==
    ASSUME NEW r, NEW d, Good(r, d), LeaderSound(r, d), NEW src \in Server, NEW m
    PROVE  LET q == raft_handle_vote_request(r, src, m)
           IN  Heeds(r, q, d, {}) /\ Voice(q) = Voice(r)
  <1> DEFINE r1 == IF r.vote = Zero THEN raft_set_term(r, r.term, src) ELSE r
             a == [type |-> "VOTE_REPLY", term |-> r1.term, vote |-> r1.vote]
             q == raft_handle_vote_request(r, src, m)
  <1>0. /\ r.term \in Nat /\ r.vote \in Sid /\ r.sid \in Server /\ src \in Sid /\ Zero \notin Server
        /\ DOMAIN r = Fields /\ IsSeq(r.waiters)
    BY ServerAssumption DEF Good, VoteTypes, Sid, IndexTypes, WaitersSound
  <1>1. /\ Good(r1, d) /\ Heeds(r, r1, d, {}) /\ Voice(r1) = Voice(r)
        /\ r1.vote \in Server /\ r1.term \in Nat
    <2>1. CASE r.vote = Zero
      <3> DEFINE w == [type |-> "TERM", ticket |-> Len(r.file) + 1, index |-> 0,
                       term |-> r.term, vote |-> src, rpcs |-> NoRpcs]
                 rec == StateRec(r.term, src)
      <3>1. r1 = raft_set_term(r, r.term, src)
        BY <2>1
      <3>2. r1 = [r EXCEPT !.term = r.term, !.vote = src, !.file = Append(@, rec),
                           !.waiters = Append(@, w)]
        BY <3>1 DEF raft_set_term
      <3>3. w.rpcs = NoRpcs
        OBVIOUS
      <3>4. Good(r1, d)
        BY <2>1, <3>1, VoteGivenKeeps DEF Keeps
      <3> HIDE DEF r1, w, rec
      <3>5. /\ r1.sid = r.sid /\ r1.term = r.term /\ r1.vote = src /\ r1.conns = r.conns
            /\ r1.complaints = r.complaints /\ r1.waiters = Append(r.waiters, w)
            /\ r1.role = r.role /\ r1.leader_sid = r.leader_sid
            /\ r1.synced_term = r.synced_term
        BY <1>0, <3>2 DEF Fields
      <3>6. r.role = "FOLLOWER"
        BY <2>1, <1>0 DEF Good, TallySound
      <3>7. Deferred(r1) \subseteq Deferred(r)
        BY <1>0, <3>3, <3>5, TermWaiterDeferred
      <3>8. LeaderSound(r1, d)
        BY <3>5, <3>6, <3>7 DEF LeaderSound
      <3> QED BY <1>0, <3>4, <3>5, <3>6, <3>8 DEF Heeds, Told, Voice
    <2>2. CASE r.vote # Zero
      BY <2>2, <1>0, HeedsRefl DEF Sid
    <2> QED BY <2>1, <2>2
  <1> HIDE DEF r1
  <1>2. LedRpc(r1, a)
    BY <1>1 DEF LedRpc, OwnRpc, SoundRpc
  <1> HIDE DEF a
  <1>3. Serves(r1, raft_send(r1, src, a))
    BY <1>1, <1>2, SendServes
  <1>4. LeaderSound(r1, d)
    BY <1>1 DEF Heeds
  <1> DEFINE x == raft_send(r1, src, a)
  <1>5. Heeds(r1, x, d, {}) /\ Voice(x) = Voice(r1)
    BY <1>3, <1>4, ServesStays
  <1>6. q \in {r, x}
    BY DEF raft_handle_vote_request, r1, a
  <1> HIDE DEF x, q
  <1>7. Heeds(r, q, d, {}) /\ Voice(q) = Voice(r)
    BY <1>1, <1>5, <1>6, HeedsTrans, HeedsRefl, SMTT(60)
  <1> QED BY <1>7 DEF q

\* raft_become_leader(): the new leader takes itself for the leader, and has
\* nothing deferred from an earlier time in office in this term.
LEMMA BecomeLeaderHeeds ==
    ASSUME NEW r, NEW d, Good(r, d), LeaderSound(r, d), r.role = "CANDIDATE",
           r.n_votes > N \div 2, NEW L
    PROVE  Heeds(r, raft_become_leader(r), d, L)
  <1> DEFINE next == [p \in Server |-> LogEnd(r)]
             match == [p \in Server |-> 0]
             r1 == [r EXCEPT !.role = "LEADER", !.leader_sid = r.sid, !.next_index = next,
                             !.match_index = match, !.replied = {}, !.snapping = {}]
             i == LogEnd(r) - 1
             r2 == raft_update_match_index(r1, r.sid, i)
             q == raft_command_initiate(r2, NoData)
  <1>0. r.sid \in Server /\ r.log_start \in Int /\ r.entries \in Seq(LogEntry)
    BY DEF Good, IndexTypes, VoteTypes, LogSound
  <1>1. LogEnd(r) \in Int
    BY <1>0, SMTT(60) DEF LogEnd
  <1>2. next \in [Server -> Int] /\ match \in [Server -> Int] /\ i \in Int
    BY <1>1, SMTT(60)
  <1>3. NoData \in Data
    BY DEF Data
  <1>4. raft_become_leader(r) = q
    BY DEF raft_become_leader
  <1> HIDE DEF next, match, i
  <1>a. DOMAIN r = Fields
    BY DEF Good, IndexTypes
  <1>b. Keeps(r, r1, d)
    BY <1>2, TakesOfficeKeeps
  <1>5. /\ Keeps(r, r1, d) /\ r1.role = "LEADER" /\ r1.leader_sid = r.sid
        /\ r1.sid = r.sid /\ r1.term = r.term /\ r1.file = r.file /\ r1.waiters = r.waiters
        /\ r1.conns = r.conns /\ r1.complaints = r.complaints
    BY <1>a, <1>b DEF Fields
  <1> HIDE DEF r1
  <1>6. Deferred(r1) = Deferred(r) /\ Told(r1) = Told(r)
    BY <1>5 DEF Deferred, Told
  <1>7. LeaderSound(r1, d)
    BY <1>0, <1>5, <1>6 DEF LeaderSound, Sid
  <1>8. Heeds(r, r1, d, L)
    BY <1>5, <1>6, <1>7 DEF Heeds
  <1>9. Good(r1, d)
    BY <1>5 DEF Keeps
  <1>10. Good(r2, d) /\ Serves(r1, r2)
    BY <1>0, <1>2, <1>5, <1>9, UpdateMatchIndexKeeps, UpdateMatchIndexServes DEF Keeps
  <1> HIDE DEF r2
  <1>11. r2.role = "LEADER"
    BY <1>5, <1>10 DEF Serves, Retains, SameElection
  <1>12. Serves(r2, q)
    BY <1>3, <1>10, <1>11, CommandInitiateServes
  <1> HIDE DEF q
  <1>13. Serves(r1, q)
    BY <1>10, <1>12, ServesTrans
  <1>14. Heeds(r1, q, d, L) /\ Voice(q) = Voice(r1)
    BY <1>7, <1>13, ServesStays
  <1> QED BY <1>4, <1>8, <1>14, HeedsTrans

\* raft_accept_vote().
LEMMA AcceptVoteHeeds ==
    ASSUME NEW r, NEW d, Good(r, d), LeaderSound(r, d), r.role = "CANDIDATE",
           NEW p \in Server, NEW v \in Server, r.svote[p] \in {Zero, v}, NEW L
    PROVE  Heeds(r, raft_accept_vote(r, p, v), d, L)
  <1> DEFINE r2 == VoteCounted(r, p, v)
  <1>1. CASE r.svote[p] = v
    <2>1. raft_accept_vote(r, p, v) = r
      BY <1>1 DEF raft_accept_vote
    <2> QED BY <2>1, HeedsRefl
  <1>2. CASE r.svote[p] # v
    <2>1. r.svote[p] = Zero
      BY <1>2
    <2>3. /\ Tallies(r, r2, d, p, v) /\ r2.role = "CANDIDATE"
          /\ r2.sid = r.sid /\ r2.term = r.term /\ r2.file = r.file /\ r2.waiters = r.waiters
          /\ r2.conns = r.conns /\ r2.complaints = r.complaints /\ r2.leader_sid = r.leader_sid
          /\ raft_accept_vote(r, p, v) =
                 IF v = r.sid /\ r2.n_votes > N \div 2 THEN raft_become_leader(r2) ELSE r2
      BY <2>1, VoteCountedTallies, SMTT(60)
    <2> HIDE DEF r2
    <2>4. Deferred(r2) = Deferred(r) /\ Told(r2) = Told(r)
      BY <2>3 DEF Deferred, Told
    <2>5. LeaderSound(r2, d) /\ Good(r2, d)
      BY <2>3, <2>4 DEF LeaderSound, Tallies
    <2>6. Heeds(r, r2, d, L) /\ Voice(r2) = {}
      BY <2>3, <2>4, <2>5 DEF Heeds, Voice
    <2>7. ASSUME r2.n_votes > N \div 2 PROVE Heeds(r, raft_become_leader(r2), d, L)
      <3>1. Heeds(r2, raft_become_leader(r2), d, L)
        BY <2>3, <2>5, <2>7, BecomeLeaderHeeds
      <3> QED BY <3>1, <2>6, HeedsTrans
    <2> QED BY <2>3, <2>6, <2>7
  <1> QED BY <1>1, <1>2

\* raft_start_election(): whatever the server claimed before was in an earlier
\* term.
LEMMA StartElectionHeeds ==
    ASSUME NEW r, NEW d, Good(r, d), \A t \in Deferred(r) : t <= r.term, NEW transfer, NEW L
    PROVE  Heeds(r, raft_start_election(r, transfer), d, L)
  <1> DEFINE r1 == [raft_set_term(r, r.term + 1, r.sid)
                    EXCEPT !.leader_sid = Zero, !.role = "CANDIDATE", !.n_votes = 0,
                           !.svote = [p \in Server |-> Zero]]
             rq == [type |-> "VOTE_REQUEST", term |-> r1.term, last_log_index |-> LogEnd(r1) - 1,
                    last_log_term |-> LastTerm(r1), leadership_transfer |-> transfer]
             f == [p \in Peers(r) |-> rq]
             r2 == raft_send_each(r1, f)
             q == raft_accept_vote(r2, r.sid, r.sid)
             rec == StateRec(r.term + 1, r.sid)
             w == [type |-> "TERM", ticket |-> Len(r.file) + 1, index |-> 0,
                   term |-> r.term + 1, vote |-> r.sid, rpcs |-> NoRpcs]
  <1>0. /\ r.sid \in Server /\ r.term \in Nat /\ r.term + 1 \in Nat /\ d.term \in Nat
        /\ IsSeq(r.waiters) /\ r.file \in Seq(FileRecord)
        /\ Zero \in Sid /\ Zero \notin Server
    <2>1. VoteTypes(r) /\ DiskSound(d) /\ WaitersSound(r, d) /\ FileSound(r, d)
      BY DEF Good
    <2>2. r.sid \in Server /\ r.term \in Nat
      BY <2>1 DEF VoteTypes
    <2>3. d.term \in Nat
      BY <2>1 DEF DiskSound
    <2>4. IsSeq(r.waiters)
      BY <2>1 DEF WaitersSound
    <2>5. r.file \in Seq(FileRecord)
      BY <2>1 DEF FileSound
    <2>6. Zero \in Sid /\ Zero \notin Server
      BY ServerAssumption DEF Sid
    <2> QED BY <2>2, <2>3, <2>4, <2>5, <2>6, SMTT(60)
  <1>1. raft_start_election(r, transfer) = q
    BY DEF raft_start_election
  <1>2. /\ Keeps(r, r1, d) /\ r1.role = "CANDIDATE" /\ r1.leader_sid = Zero
        /\ r1.sid = r.sid /\ r1.term = r.term + 1 /\ r1.conns = r.conns
        /\ r1.complaints = r.complaints /\ r1.svote = [p \in Server |-> Zero]
        /\ r1.file = Append(r.file, rec) /\ r1.waiters = Append(r.waiters, w)
    BY CandidateKeeps
  <1>3. w.rpcs = NoRpcs /\ rec.vote = r.sid
    BY DEF StateRec
  <1> HIDE DEF r1, w, rec
  <1>4. Good(r1, d)
    BY <1>2 DEF Keeps
  <1>5. \A t \in Deferred(r1) : t < r1.term
    <2>1. Deferred(r1) \subseteq Deferred(r)
      BY <1>0, <1>2, <1>3, TermWaiterDeferred
    <2> SUFFICES ASSUME NEW t \in Deferred(r) PROVE t < r.term + 1
      BY <1>2, <2>1
    <2>2. t \in Nat /\ t <= r.term
      BY DeferredNat
    <2> QED BY <2>2, <1>0, SMTT(60)
  <1>6. d.term # r1.term
    <2>1. Reaches(d.term, d.vote, r.term, r.vote)
      BY DEF Good, FileSound
    <2> QED BY <1>0, <1>2, <2>1, SMTT(60) DEF Reaches
  <1>7. \A x \in Elems(r1.file) : (IsState(x) /\ x.term = r1.term) => x.vote = r1.sid
    <2>1. \A x \in Elems(r.file) : IsState(x) => x.term # r1.term
      <3> SUFFICES ASSUME NEW k \in DOMAIN r.file, IsState(r.file[k])
                   PROVE  r.file[k].term # r1.term
        BY DEF Elems
      <3>1. Reaches(r.file[k].term, r.file[k].vote, r.term, r.vote)
        BY DEF Good, FileSound
      <3>2. r.file[k] \in FileRecord
        BY <1>0, SMTT(60)
      <3>3. r.file[k].term \in Nat
        BY <3>2, SMTT(60) DEF FileRecord
      <3> QED BY <1>0, <1>2, <3>1, <3>3, SMTT(60) DEF Reaches
    <2>2. Elems(r1.file) \subseteq Elems(r.file) \cup {rec}
      BY <1>0, <1>2, StateAdded
    <2> QED BY <1>2, <1>3, <2>1, <2>2
  <1>8. LeaderSound(r1, d)
    BY <1>0, <1>2, <1>5, <1>6, <1>7 DEF LeaderSound
  <1>9. Heeds(r, r1, d, L) /\ Voice(r1) = {}
    BY <1>2, <1>8 DEF Heeds, Told, Voice
  <1>10. LedRpc(r1, rq)
    BY <1>0, <1>2 DEF LedRpc, OwnRpc, SoundRpc
  <1> HIDE DEF rq
  <1>11. /\ DOMAIN f \subseteq Server /\ \A e \in DOMAIN f : LedRpc(r1, f[e])
         /\ \A e \in DOMAIN f : OwnRpc(r1, f[e])
    BY <1>10 DEF Peers, LedRpc
  <1> HIDE DEF f
  <1>12. Keeps(r1, r2, d) /\ Serves(r1, r2)
    BY <1>4, <1>11, SendEachKeeps, SendEachServes
  <1> HIDE DEF r2
  <1>13. /\ Good(r2, d) /\ r2.role = "CANDIDATE" /\ r2.sid = r.sid /\ r2.svote[r.sid] = Zero
    BY <1>0, <1>2, <1>12 DEF Keeps, Serves, Retains, SameElection
  <1>14. Heeds(r1, r2, d, L) /\ Voice(r2) = Voice(r1)
    BY <1>8, <1>12, ServesStays
  <1>15. LeaderSound(r2, d)
    BY <1>14 DEF Heeds
  <1>16. Heeds(r2, q, d, L)
    BY <1>0, <1>13, <1>15, AcceptVoteHeeds
  <1> HIDE DEF q
  <1>17. Heeds(r, r2, d, L)
    BY <1>9, <1>14, HeedsTrans
  <1> QED BY <1>1, <1>9, <1>14, <1>16, <1>17, HeedsTrans

\* What a sound server has deferred is of no later term.
LEMMA DeferredPast ==
    ASSUME NEW r, NEW d, Good(r, d), LeaderSound(r, d)
    PROVE  \A t \in Deferred(r) : t <= r.term
  <1>1. \A t \in Deferred(r) : t \in Nat /\ (t < r.term \/ t = r.term)
    BY DeferredNat DEF LeaderSound
  <1>2. r.term \in Nat
    BY DEF Good, VoteTypes
  <1> QED BY <1>1, <1>2, SMTT(60)

\* The election timer: of a leader that was not heard, and of the others.
LEMMA TimeoutHeeds ==
    ASSUME NEW r, NEW d, Good(r, d), LeaderSound(r, d), NEW transfer, NEW L
    PROVE  /\ Heeds(r, raft_start_election(r, transfer), d, L)
           /\ Heeds(r, raft_start_election(raft_become_follower(r), transfer), d, L)
  <1> DEFINE r1 == raft_become_follower(r)
             q == raft_start_election(r1, transfer)
  <1>0. DOMAIN r = Fields
    BY DEF Good, IndexTypes
  <1>1. \A t \in Deferred(r) : t <= r.term
    BY DeferredPast
  <1>2. /\ r1.sid = r.sid /\ r1.term = r.term /\ r1.waiters = r.waiters /\ r1.conns = r.conns
        /\ r1.complaints = r.complaints /\ r1.leader_sid = Zero
    BY <1>0 DEF raft_become_follower, Fields
  <1>3. Good(r1, d)
    BY BecomeFollowerKeeps DEF Keeps
  <1> HIDE DEF r1
  <1>4. Deferred(r1) = Deferred(r) /\ Told(r1) = Told(r)
    BY <1>2 DEF Deferred, Told
  <1>5. Heeds(r1, q, d, L)
    BY <1>1, <1>2, <1>3, <1>4, StartElectionHeeds
  <1> HIDE DEF q
  <1>6. Heeds(r, q, d, L)
    BY <1>2, <1>4, <1>5 DEF Heeds
  <1>7. Heeds(r, raft_start_election(r, transfer), d, L)
    BY <1>1, StartElectionHeeds
  <1> QED BY <1>6, <1>7 DEF q, r1

\* raft_waiter_complete(): when its term is on disk, a leader is heard.
LEMMA WaiterCompleteHeeds ==
    ASSUME NEW r, NEW d, Good(r, d), LeaderSound(r, d), r.waiters # <<>>,
           Head(r.waiters).ticket = 0, NEW L
    PROVE  Heeds(r, raft_waiter_complete(r), d, L)
  <1> DEFINE w == Head(r.waiters)
             r1 == [r EXCEPT !.waiters = Tail(@)]
             r2 == IF r.role = "LEADER" THEN raft_update_match_index(r1, r.sid, w.index) ELSE r1
             x == IF w.type = "ENTRY" THEN [r2 EXCEPT !.log_synced = w.index]
                  ELSE [r1 EXCEPT !.synced_term = w.term, !.synced_vote = w.vote]
             q == raft_waiter_complete_rpc(x, w.rpcs)
  <1>0. r.sid \in Server
    BY DEF Good, VoteTypes
  <1>1. raft_waiter_complete(r) = q
    BY DEF raft_waiter_complete
  <1>2. /\ Keeps(r, r1, d) /\ SameElection(r, r1) /\ r1.leader_sid = r.leader_sid
        /\ r1.file = r.file /\ r1.conns = r.conns /\ r1.complaints = r.complaints
        /\ Elems(r1.waiters) \subseteq Elems(r.waiters) /\ w \in Elems(r.waiters)
        /\ SoundWaiter(w, r.file, d) /\ w.ticket = 0
    BY WaiterTakenKeeps
  <1> HIDE DEF w, r1
  <1>3. Good(r1, d)
    BY <1>2 DEF Keeps
  <1>4. w.index \in Int /\ w.term \in Nat /\ w.vote \in Sid /\ SoundQueues(w.rpcs)
    BY <1>2 DEF SoundWaiter
  <1>5. Serves(r, r1)
    <2>1. Retains(r, r1)
      BY <1>2 DEF Retains
    <2>2. \A u \in Elems(r1.waiters) : Claims(u.rpcs) \subseteq Deferred(r)
      BY <1>2, WaiterDeferred
    <2> QED BY <1>2, <2>1, <2>2, WaitersServe
  <1>6. Heeds(r, r1, d, L) /\ Voice(r1) = Voice(r)
    BY <1>5, ServesStays
  <1>7. LeaderSound(r1, d)
    BY <1>6 DEF Heeds
  <1>8. Heeds(r, x, d, L) /\ Good(x, d) /\ x.term = r.term /\ x.role = r.role
    <2>1. CASE w.type = "ENTRY"
      <3>1. Keeps(r1, r2, d) /\ Serves(r1, r2)
        <4>1. r1.role = r.role /\ r1.sid = r.sid
          BY <1>2 DEF SameElection
        <4>2. CASE r.role = "LEADER"
          BY <1>0, <1>3, <1>4, <4>1, <4>2, UpdateMatchIndexKeeps, UpdateMatchIndexServes
        <4>3. CASE r.role # "LEADER"
          BY <1>3, <4>3, KeepsRefl, ServesRefl
        <4> QED BY <4>2, <4>3
      <3> HIDE DEF r2
      <3>2. Good(r2, d)
        BY <3>1 DEF Keeps
      <3>3. Keeps(r2, x, d) /\ Serves(r2, x)
        BY <2>1, <3>2, IndexSyncedKeeps, IndexesServe
      <3> HIDE DEF x
      <3>4. Serves(r, x)
        BY <1>5, <3>1, <3>3, ServesTrans
      <3> QED BY <3>3, <3>4, ServesStays DEF Keeps, Serves, Retains, SameElection
    <2>2. CASE w.type # "ENTRY"
      <3>1. Reaches(w.term, w.vote, d.term, d.vote)
        BY <1>2, <2>2, WaitedReaches
      <3>2. x = [r1 EXCEPT !.synced_term = w.term, !.synced_vote = w.vote]
        BY <2>2
      <3>a. DOMAIN r1 = Fields
        BY <1>3 DEF Good, IndexTypes
      <3>b. Keeps(r1, x, d)
        BY <1>3, <1>4, <2>2, <3>1, TermSyncedKeeps
      <3> HIDE DEF x
      <3>3. /\ Keeps(r1, x, d) /\ x.sid = r1.sid /\ x.term = r1.term /\ x.role = r1.role
            /\ x.leader_sid = r1.leader_sid /\ x.file = r1.file /\ x.waiters = r1.waiters
            /\ x.conns = r1.conns /\ x.complaints = r1.complaints
        BY <3>2, <3>a, <3>b DEF Fields
      <3>4. Deferred(x) = Deferred(r1) /\ Told(x) = Told(r1)
        BY <3>3 DEF Deferred, Told
      <3>5. LeaderSound(x, d)
        BY <1>7, <3>3, <3>4 DEF LeaderSound
      <3>6. Told(x) = Told(r)
        BY <1>2, <3>4 DEF Told
      <3> QED BY <1>2, <3>3, <3>5, <3>6 DEF Heeds, Keeps, SameElection
    <2> QED BY <2>1, <2>2
  <1> HIDE DEF x
  <1>9. \A t \in Claims(w.rpcs) : t < x.term \/ (t = x.term /\ x.role = "LEADER")
    BY <1>2, <1>8, WaiterDeferred DEF LeaderSound
  <1>10. Serves(x, q)
    BY <1>4, <1>8, <1>9, WaiterCompleteRpcServes
  <1>11. Heeds(x, q, d, L) /\ Voice(q) = Voice(x)
    BY <1>8, <1>10, ServesStays DEF Heeds
  <1> HIDE DEF q
  <1> QED BY <1>1, <1>8, <1>11, HeedsTrans

\* One more record is synced: a candidate finds on disk only the vote it gave
\* itself.
LEMMA SyncedHeeds ==
    ASSUME NEW r, NEW d, Good(r, d), LeaderSound(r, d), r.file # <<>>,
           NEW e, e = raft_apply_record(d, Head(r.file)), NEW L
    PROVE  Heeds(r, Synced1(r), e, L)
  <1> DEFINE ws == [i \in DOMAIN r.waiters |->
                       [r.waiters[i] EXCEPT !.ticket = IF @ > 0 THEN @ - 1 ELSE 0]]
             q == Synced1(r)
             h == Head(r.file)
  <1>0. DOMAIN r = Fields /\ r.file \in Seq(FileRecord)
    BY DEF Good, IndexTypes, FileSound
  <1>1. Elems(Tail(r.file)) \subseteq Elems(r.file) /\ h \in Elems(r.file)
    BY <1>0, SeqIsSeq, TailElems
  <1>2. /\ IsState(h) => e.term = h.term /\ e.vote = h.vote
        /\ ~IsState(h) => e.term = d.term /\ e.vote = d.vote
    BY ApplyRecordSound, SMTT(60)
  <1> HIDE DEF h
  <1>3. \A i \in DOMAIN ws : ws[i].rpcs = r.waiters[i].rpcs /\ i \in DOMAIN r.waiters
    BY DEF Good, WaitersSound, SoundWaiter, WaiterFields
  <1>4. /\ SameElection(r, q) /\ q.leader_sid = r.leader_sid /\ q.file = Tail(r.file)
        /\ q.waiters = ws /\ q.conns = r.conns /\ q.complaints = r.complaints
    BY <1>0 DEF Synced1, Fields, SameElection
  <1> HIDE DEF ws, q
  <1>5. \A w \in Elems(ws) : Claims(w.rpcs) \subseteq Deferred(r)
    BY <1>3, WaiterDeferred DEF Elems
  <1>6. Retains(r, q)
    BY <1>1, <1>4 DEF Retains
  <1>7. Serves(r, q)
    BY <1>4, <1>5, <1>6, WaitersServe
  <1>8. (r.role # "FOLLOWER" /\ e.term = r.term) => e.vote = r.sid
    BY <1>1, <1>2 DEF LeaderSound
  <1>9. Heeds(r, q, e, L)
    BY <1>7, <1>8, ServesHeeds
  <1> QED BY <1>9 DEF q

\* The file that a snapshot puts in the place of the old one.
LEMMA SnapshotHeeds ==
    ASSUME NEW r, NEW d, Good(r, d), LeaderSound(r, d), NEW q, Serves(r, q), NEW L
    PROVE  Heeds(r, q, raft_write_snapshot(q), L) /\ Voice(q) = Voice(r)
  <1> DEFINE e == raft_write_snapshot(q)
  <1>1. e.term = r.term /\ e.vote = r.vote
    BY DEF raft_write_snapshot, Serves, Retains, SameElection
  <1>2. r.role # "FOLLOWER" => r.vote = r.sid
    BY DEF Good, TallySound
  <1> HIDE DEF e
  <1>3. Heeds(r, q, e, L) /\ Voice(q) = Voice(r)
    BY <1>1, <1>2, ServesHeeds
  <1> QED BY <1>3 DEF e

\* raft_open(): the server has claimed nothing and knows of no leader; if it is
\* alone it is elected at once.
LEMMA OpenHeeds ==
    ASSUME NEW s \in Server, NEW d, DiskSound(d)
    PROVE  LET o == Opened(s, d)
           IN  Heeds(o, raft_open(s, d), d, {}) /\ o.leader_sid = Zero /\ Told(o) = {}
               /\ o.sid = s /\ o.complaints = {}
  <1> DEFINE o == Opened(s, d)
  <1>1. Good(o, d) /\ o.sid = s /\ o.role = "FOLLOWER" /\ o.conns = NoRpcs /\ o.complaints = {}
    BY OpenedGood
  <1>2. o.leader_sid = Zero /\ o.waiters = <<>>
    BY DEF Opened
  <1>3. raft_open(s, d) \in {raft_start_election(o, FALSE), o}
    BY DEF raft_open
  <1> HIDE DEF o
  <1>4. Told(o) = {} /\ Deferred(o) = {}
    BY <1>1, <1>2, NoClaims, InDeferred, EmptyConn DEF Told
  <1>5. LeaderSound(o, d)
    BY <1>1, <1>2, <1>4, ServerAssumption DEF LeaderSound, Sid
  <1>6. Heeds(o, raft_open(s, d), d, {})
    BY <1>1, <1>3, <1>4, <1>5, StartElectionHeeds, HeedsRefl
  <1> QED BY <1>1, <1>2, <1>4, <1>6 DEF o

\* raft_handle_append_request() of a server that is not leader and knows of no
\* other leader than the sender.
LEMMA HandleAppendRequestHeeds ==
    ASSUME NEW r, NEW d, Good(r, d), LeaderSound(r, d), NEW src \in Server, src # r.sid,
           NEW m, SoundRpc(m), m.type = "APPEND_REQUEST", m.term = r.term,
           r.role # "LEADER", r.leader_sid \in {Zero, src},
           NEW q, q = raft_handle_append_request(r, src, m)
    PROVE  Heeds(r, q, d, {src}) /\ q.term = r.term
  <1> DEFINE n == Len(m.entries)
             r1 == raft_update_leader(r, src)
             ofs == r.log_start - (m.prev_log_index + 1)
             es == SubSeq(m.entries, ofs + 1, n)
  <1>0. /\ m.prev_log_index \in Int /\ r.log_start \in Int /\ m.entries \in Seq(LogEntry)
        /\ \A i \in DOMAIN m.entries : m.entries[i].term <= r.term
        /\ n \in Nat /\ DOMAIN r = Fields /\ r.role \in {"FOLLOWER", "CANDIDATE"}
    <2>1. VoteTypes(r) /\ IndexTypes(r)
      BY DEF Good
    <2>2. /\ m.prev_log_index \in Int /\ m.entries \in Seq(LogEntry)
          /\ \A i \in DOMAIN m.entries : m.entries[i].term <= r.term
      BY DEF SoundRpc
    <2>3. DOMAIN r = Fields /\ r.log_start \in Int
      BY <2>1 DEF IndexTypes
    <2>4. r.role \in {"FOLLOWER", "CANDIDATE"}
      BY <2>1 DEF VoteTypes
    <2>5. n \in Nat
      BY <2>2, SMTT(60)
    <2> QED BY <2>2, <2>3, <2>4, <2>5
  <1>1. Good(r1, d) /\ r1.term = r.term
    BY UpdateLeaderKeeps DEF Keeps
  <1>2. /\ r1.sid = r.sid /\ r1.role = "FOLLOWER" /\ r1.leader_sid = src /\ r1.file = r.file
        /\ r1.waiters = r.waiters /\ r1.conns = r.conns /\ r1.complaints = r.complaints
    BY <1>0 DEF raft_update_leader, Fields
  <1> HIDE DEF r1
  <1>3. Deferred(r1) = Deferred(r) /\ Told(r1) = Told(r)
    BY <1>2 DEF Deferred, Told
  <1>4. LeaderSound(r1, d)
    BY <1>1, <1>2, <1>3 DEF LeaderSound, Sid
  <1>5. Heeds(r, r1, d, {src}) /\ Voice(r1) = {}
    BY <1>2, <1>3, <1>4 DEF Heeds, Voice
  <1>6. Serves(r1, q)
    <2>1. CASE m.prev_log_index + 1 >= r.log_start
      <3>1. Serves(r1, raft_handle_append_entries(r1, src, m, m.prev_log_index, m.prev_log_term,
                                                  m.entries))
        BY <1>0, <1>1, HandleAppendEntriesServes
      <3> QED BY <2>1, <3>1 DEF raft_handle_append_request, r1
    <2>2. \A result : Serves(r1, raft_send_append_reply(r1, src, m, result))
      BY <1>1, SendAppendReplyServes
    <2>3. CASE /\ ~(m.prev_log_index + 1 >= r.log_start)
               /\ m.prev_log_index + n < r.log_start - 1
      BY <2>2, <2>3 DEF raft_handle_append_request, r1
    <2>4. CASE /\ ~(m.prev_log_index + 1 >= r.log_start)
               /\ ~(m.prev_log_index + n < r.log_start - 1)
               /\ m.prev_log_index + n = r.log_start - 1
      BY <2>2, <2>4 DEF raft_handle_append_request, r1
    <2>5. CASE /\ ~(m.prev_log_index + 1 >= r.log_start)
               /\ ~(m.prev_log_index + n < r.log_start - 1)
               /\ m.prev_log_index + n # r.log_start - 1
      <3>1. Slice(es, m.entries, ofs + 1, n) /\ r.log_start - 1 \in Int
        BY <1>0, <2>5, SMTT(60) DEF Slice
      <3> HIDE DEF es
      <3>2. es \in Seq(LogEntry) /\ \A i \in DOMAIN es : es[i].term <= r.term
        BY <3>1, <1>0, SliceSound
      <3>3. Serves(r1, raft_handle_append_entries(r1, src, m, r.log_start - 1,
                                                  m.entries[ofs].term, es))
        BY <1>1, <3>1, <3>2, HandleAppendEntriesServes
      <3> QED BY <2>5, <3>3 DEF raft_handle_append_request, r1, es
    <2> QED BY <2>1, <2>3, <2>4, <2>5
  <1>7. Heeds(r1, q, d, {src}) /\ Voice(q) = Voice(r1)
    BY <1>4, <1>6, ServesStays
  <1>8. q.term = r1.term
    BY <1>6 DEF Serves, Retains, SameElection
  <1> QED BY <1>1, <1>5, <1>7, <1>8, HeedsTrans
=============================================================================
