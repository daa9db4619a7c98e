----------------------------- MODULE RaftVotes -----------------------------
(***************************************************************************)
(* Why at most one server is elected in a term: the inductive invariant    *)
(* behind ElectionSafety.  A vote passes through four places, in this      *)
(* order: raft->vote, the unsynced tail of the log file, the disk (and, a  *)
(* little later, raft->synced_vote), and a VOTE_REPLY or the tally of a    *)
(* candidate.  The invariant says how the contents of these places agree,  *)
(* whatever was lost in a crash.                                           *)
(***************************************************************************)
EXTENDS Raft

Fields == {"sid", "term", "vote", "synced_term", "synced_vote", "entries", "log_start", "snap",
           "log_synced", "role", "commit_index", "last_applied", "leader_sid", "n_votes", "svote",
           "next_index", "match_index", "replied", "snapping", "waiters", "file", "conns",
           "complaints"}
DiskFields == {"term", "vote", "log_start", "snap", "entries", "commit_index", "readable"}
WaiterFields == {"type", "ticket", "index", "term", "vote", "rpcs"}

FileRecord == [type : {"STATE"}, term : Nat, vote : Sid]
              \cup [type : {"ENTRY"}, term : Nat, index : Int, data : Data]
              \cup [type : {"COMMIT"}, term : {0}, index : Int]

Elems(q) == {q[i] : i \in DOMAIN q}
IsSeq(q) == q \in Seq(Elems(q))

\* A server that has voted v in term t may be found to have voted w in term u
\* later on.
Reaches(t, v, u, w) == t < u \/ (t = u /\ v \in {Zero, w})

\* What the argument needs to know about an RPC.
SoundRpc(m) ==
    /\ m.term \in Nat
    /\ m.type = "VOTE_REPLY" => m.vote \in Server
    /\ m.type = "APPEND_REQUEST" =>
           /\ m.prev_log_index \in Int
           /\ m.leader_commit \in Int
           /\ m.entries \in Seq(LogEntry)
           /\ \A i \in DOMAIN m.entries : m.entries[i].term <= m.term
    /\ m.type = "APPEND_REPLY" =>
           m.prev_log_index \in Int /\ m.n_entries \in Int /\ m.log_end \in Int
    /\ m.type = "INSTALL_SNAPSHOT_REQUEST" => m.last_index \in Int

SoundQueues(f) == /\ DOMAIN f = Server
                  /\ \A d \in Server : /\ IsSeq(f[d])
                                       /\ \A m \in Elems(f[d]) : SoundRpc(m)

\* The fields that no vote depends on.
IndexTypes(r) ==
    /\ DOMAIN r = Fields
    /\ r.log_start \in Int
    /\ r.commit_index \in Int
    /\ r.last_applied \in Int
    /\ r.next_index \in [Server -> Int]
    /\ r.match_index \in [Server -> Int]

VoteTypes(r) ==
    /\ r.sid \in Server
    /\ r.term \in Nat
    /\ r.vote \in Sid
    /\ r.synced_term \in Nat
    /\ r.synced_vote \in Sid
    /\ r.role \in {"FOLLOWER", "CANDIDATE", "LEADER"}
    /\ r.n_votes \in Nat
    /\ r.svote \in [Server -> Sid]

\* No entry is of a later term than its log.
LogSound(r) == /\ r.entries \in Seq(LogEntry)
               /\ \A i \in DOMAIN r.entries : r.entries[i].term <= r.term

DiskSound(d) == /\ DOMAIN d = DiskFields
                /\ d.term \in Nat
                /\ d.vote \in Sid
                /\ d.log_start \in Int
                /\ d.commit_index \in Int
                /\ LogSound(d)

\* The states in the file lead, in order, from that on disk to that in memory;
\* reading an entry never raises the term, which would clear the vote.
IsState(rec) == rec.type = "STATE"
FileSound(r, d) ==
    /\ r.file \in Seq(FileRecord)
    /\ Reaches(r.synced_term, r.synced_vote, d.term, d.vote)
    /\ Reaches(d.term, d.vote, r.term, r.vote)
    /\ \A i \in DOMAIN r.file : IsState(r.file[i]) =>
           /\ Reaches(d.term, d.vote, r.file[i].term, r.file[i].vote)
           /\ Reaches(r.file[i].term, r.file[i].vote, r.term, r.vote)
    /\ \A i, j \in DOMAIN r.file : (IsState(r.file[i]) /\ IsState(r.file[j]) /\ i < j) =>
           Reaches(r.file[i].term, r.file[i].vote, r.file[j].term, r.file[j].vote)
    /\ \A i \in DOMAIN r.file : r.file[i].type = "ENTRY" =>
           \/ r.file[i].term <= d.term
           \/ \E j \in DOMAIN r.file : /\ j < i
                                       /\ IsState(r.file[j])
                                       /\ r.file[i].term <= r.file[j].term
    /\ \/ d.term = r.term /\ d.vote = r.vote
       \/ \E i \in DOMAIN r.file : r.file[i] = StateRec(r.term, r.vote)

\* A waiter for a term and vote waits for the record that holds them.
SoundWaiter(w, file, d) ==
    /\ DOMAIN w = WaiterFields
    /\ w.ticket \in Nat
    /\ w.index \in Int
    /\ w.term \in Nat
    /\ w.vote \in Sid
    /\ SoundQueues(w.rpcs)
    /\ w.type # "ENTRY" =>
           \/ w.ticket = 0 /\ Reaches(w.term, w.vote, d.term, d.vote)
           \/ w.ticket \in DOMAIN file /\ file[w.ticket] = StateRec(w.term, w.vote)
WaitersSound(r, d) == /\ IsSeq(r.waiters)
                      /\ \A i \in DOMAIN r.waiters : SoundWaiter(r.waiters[i], r.file, d)

\* S has n elements: they can be numbered from 1 to n.
Numbered(S, n) == \E f \in [1 .. n -> S] :
                     /\ \A i, j \in 1 .. n : f[i] = f[j] => i = j
                     /\ \A x \in S : \E i \in 1 .. n : f[i] = x

\* A candidate has voted for itself and counts each vote once; a leader has a
\* majority.
TallySound(r) ==
    /\ r.role # "FOLLOWER" =>
           r.vote = r.sid /\ Numbered({p \in Server : r.svote[p] = r.sid}, r.n_votes)
    /\ r.role = "LEADER" => r.n_votes > N \div 2

\* The invariant of one server and its disk.
Good(r, d) == /\ IndexTypes(r)
              /\ VoteTypes(r)
              /\ SoundQueues(r.conns)
              /\ LogSound(r)
              /\ DiskSound(d)
              /\ FileSound(r, d)
              /\ WaitersSound(r, d)
              /\ TallySound(r)

\* The votes, as pairs of term and vote, that the replies of r announce, and that
\* r has counted for p.
Replies(r) ==
    UNION {{<<m.term, m.vote>> : m \in {x \in Elems(r.conns[d]) : x.type = "VOTE_REPLY"}} :
           d \in Server}
Counted(r, p) ==
    IF r.role # "FOLLOWER" /\ r.svote[p] # Zero THEN {<<r.term, r.svote[p]>>} ELSE {}
Announced(p) == Replies(raft[p]) \cup UNION {Counted(raft[x], p) : x \in Server \ {p}}

\* No server is ever known to have voted twice in a term, and every vote that is
\* known is on the disk of its voter.
VotesAgree ==
    \A p \in Server : \A a, b \in Announced(p) :
        /\ a[1] = b[1] => a[2] = b[2]
        /\ a[2] # Zero
        /\ DurableVote(p, a[1], a[2])

\* The inductive invariant: votes pass in order from raft->vote through the file
\* and the disk to the replies and tallies of raft_handle_vote_request__() and
\* raft_accept_vote(), for all interleavings with syncs, crashes and snapshots.
VoteInv == /\ \A s \in Server : raft[s].sid = s /\ Good(raft[s], disk[s])
           /\ DOMAIN raft = Server /\ DOMAIN disk = Server
           /\ VotesAgree
=============================================================================
