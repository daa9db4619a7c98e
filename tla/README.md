# TLA+ models and proofs for the Open vSwitch gateway

The repository is a copy of Open vSwitch 2.14.1 (`openvswitch-2.14.1/`) with two
gateway actions added to it, a BPF program for source NAT (`bpf_snat.c`), and notes
and configuration for OpenStack. This directory models the parts in which several
processes or threads interact, starting with the one where a mistake costs most: the
Raft cluster that stores the OVSDB databases. Then come what Raft stands on (the log file
and its fsync thread, sequence numbers), RCU, the locks and sessions of the database
server, the flow cache of the switch, and the BPF program.

Source paths below are relative to `openvswitch-2.14.1/`.

## 1. The system

| part | where | state | operations | talks to |
|---|---|---|---|---|
| Raft | `ovsdb/raft.c`, `raft-rpc.c`, `raft-private.[ch]` | term, vote, log, snapshot, indexes, role, the leader's view of each peer, waiters, pending commands | RPC handlers, election and ping timers, commands, snapshots, membership changes, restart | peers over JSON-RPC; the log file; storage |
| log file | `ovsdb/log.c` | records, the fsync thread and its tickets | write, commit, replace, read | Raft, disk |
| storage | `ovsdb/storage.c` | one Raft or one stand-alone log | read, write, store a snapshot | Raft, log, ovsdb-server |
| OVSDB server | `ovsdb/server.c`, `jsonrpc-server.c`, `monitor.c`, `trigger.c`, `transaction.c`, `replication.c` | sessions, locks, monitors, triggers | requests of clients, notifications | storage, clients |
| connections | `lib/reconnect.c`, `jsonrpc.c`, `rconn.c` | state, back-off, probe timer, queue | connected, disconnected, activity, run | all network users |
| synchronisation | `lib/seq.c`, `ovs-rcu.c`, `cmap.c`, `fat-rwlock.c` | sequence numbers, waiters, quiescent states, postponed callbacks | read/wait/change; quiesce/synchronize/postpone | all threads |
| upcalls | `ofproto/ofproto-dpif-upcall.c` | ukeys and their states, dump sequence | install, revalidate, sweep, delete | datapath, translation |
| flow tables, translation | `ofproto/`, `lib/classifier.c` | rules, versions, caches | flow mods, bundles, translation of packets | controller, datapath |
| link protocols, bonds | `lib/lacp.c`, `bfd.c`, `cfm.c`, `stp.c`, `rstp*.c`, `ofproto/bond.c` | protocol state of each port | receive, timers | the peer on the link |
| datapaths | `datapath/`, `lib/dpif-netdev.c`, `lib/conntrack.c`, `lib/ipf.c` | flow tables, meters, connections | packets, netlink requests | kernel, DPDK |
| gateway additions | `config_gw` and `handle_gw` in `lib/ofp-actions.c`, `ofproto/ofproto-dpif-xlate.c`, `lib/odp-execute.c`, `datapath/actions.c`; `OVS_DP_ATTR_GW_*` in `datapath/datapath.c`, `lib/dpctl.c` | none of its own (the kernel side logs its parameters) | encode, decode, translate, execute | as the other actions |
| BPF SNAT | `bpf_snat.c` (top level) | a table of connections, which it only reads | translate a packet in either direction | tc |

`PROJECT.json` lists them as components, with the reason for each that is not modelled,
and the hazards of each, with the line where they bite.

What makes Raft hard here, beyond the protocol itself, is how this program does I/O.
Records are appended to a file that a thread syncs later, and the program goes on in the
meantime. An RPC that announces something not yet on disk is put behind a *waiter*
(`raft_send_at`) and sent when the fsync of that waiter is done. Three copies of the state
are then in play: memory, what memory believes to be synced (`synced_term`, `synced_vote`,
`log_synced`), and the disk. A crash goes back to the third.

## 2. The modules

| module | what it is |
|---|---|
| `Raft` | the model of `raft.c` with its file and its connections, the properties, and the mutated operators (each marked `Mutant:`) used to test that the properties can fail |
| `RaftVotes` | the inductive invariant behind election safety, `VoteInv` |
| `RaftHeard` | the one behind `OneLeaderHeard`, `HeardInv` |
| `LogCommit` | abstract: what `ovsdb/log.c` promises to Raft |
| `AfSync` | `ovsdb/log.c` with its fsync thread, which implements `LogCommit` |
| `OvsSeq` | the operations of `lib/seq.c`, used by `AfSync` and `OvsRcu` |
| `Grace` | abstract: what `lib/ovs-rcu.h` promises |
| `OvsRcu` | `lib/ovs-rcu.c`, which implements `Grace` |
| `OvsRcuProofs` | the proof of that, and of the order of the calls |
| `Udpif` | `ofproto-dpif-upcall.c`: handlers, revalidators, ukeys; freeing is that of `Grace` |
| `UdpifProofs` | the proofs about ukeys |
| `Locks` | locks: `ovsdb/server.c`, `ovsdb/jsonrpc-server.c` and the client in `lib/ovsdb-idl.c` |
| `OvsdbProofs` | the proofs about the two modules of the database server, `AfSync` and `Locks` |
| `Reconnect` | `lib/reconnect.c` under a session of `lib/jsonrpc.c` in a main loop |
| `Snat` | `bpf_snat.c` |
| `Bounds` | the budget of events: how often something that the environment does may happen |
| `MCRaft`, `MCDeferred`, `MCParts`, `MCUdpif`, `MCDatapath` | budgets, view, symmetry and fairness for TLC |
| `RaftReplicaProofs` | lemmas on records, sequences, queues, waiters and sending; what replication, snapshots and reading keep of `VoteInv`, at the leader and at a follower |
| `RaftElectionProofs` | what terms, votes, elections, waiters, fsync and restart keep of it |
| `RaftVotesProofs` | one lemma for each group of actions, and the theorems about votes |
| `RaftServeProofs` | what each function does to what is said and known of leaders |
| `RaftHeardProofs` | one lemma for each group of actions, and the theorems about leaders |

Two abstract specifications tie modules together. `Raft` uses `log.c` as a file whose records
become durable in order and whose commits are reported when they are (`LogSync`); `AfSync`
implements exactly this (`LogCommit`). `Udpif` frees ukeys with the actions of `Grace`, and
`OvsRcu` implements `Grace`.

## 2.1 Raft

### State

`raft[s]` is the `struct raft` of server `s` under the names of its fields (`term`, `vote`,
`synced_term`, `synced_vote`, `entries`, `log_start`, `log_synced`, `snap`, `role`,
`commit_index`, `last_applied`, `leader_sid`, `n_votes`, `waiters`). The fields of
`struct raft_server` are functions on the servers (`svote`, `next_index`, `match_index`) or
sets of them (`replied`; `snapping` for `install_snapshot_request_in_progress`). To these
the model adds

* `file`, the records written and not yet on disk;
* `conns[d]`, the RPCs on their way to `d`;
* `complaints`, which of the errors that the code logs or asserts against have occurred:
  `deferred` (`raft_waiter_complete_rpc`, "This is a bug"), `vote` (`raft_accept_vote`,
  a changed vote), `usurped` and `changed` (`raft_update_leader`), `assert`
  (`raft_send_append_request`), `wrap` (`next_index - 1` with `next_index` 0).

`disk[s]` is what `raft_open()` would read now: the header, and the synced records applied
by `raft_apply_record()`. `readable` says whether it accepted all of them.

### Actions

An operator `raft_...(r, ...)` is the C function of that name, from the struct before to
the struct after, all calls it makes included. An action is one call from the main loop:

| action | code |
|---|---|
| `LeaderTimeout`, `ElectionTimeout`, `Ping` | the timers in `raft_run()` |
| `Command` | `raft_command_execute()` at the leader |
| `TransferLeadership` | `raft_transfer_leadership()` |
| `Handle...`, `RejectStale` | `raft_handle_rpc()`, by type of RPC and for a stale term |
| `LogSync` | `afsync_thread()` and `ovsdb_log_commit_progress()`: one more record is on disk |
| `WaitersRun` | one round of the loop in `raft_waiters_run()` |
| `NextEntry`, `StoreSnapshot` | `raft_next_entry()`, `raft_store_snapshot()` as the storage calls them |
| `Disconnect`, `Overtake` | a connection is lost with what it carries; a new one overtakes the old one |
| `Crash` | the process dies, the unsynced tail is lost, `raft_open()` |

### Abstractions

* Time: a timer may expire at any moment. Whether a follower heard from a leader lately,
  which decides if it suppresses a vote request, is a free choice.
* Data: an entry holds a value or none. A snapshot holds the sequence of the values up to
  it, which stands for the database that the client builds from them.
* Membership is fixed. The cluster starts as one that was built by adding its servers one
  after the other and then took a snapshot, hence the first index N + 4.
* Connections are FIFO queues that may lose everything, lose what does not fit
  (`MaxChannel`), or let a later RPC overtake.
* A `RAFT_W_RPC` waiter completes with the waiter it was queued behind, so the model keeps
  its RPC in that one. If there is none to queue behind, the RPC is one that would be found
  not ready, and the model notes `deferred`.
* `RAFT_REC_LEADER` and `RAFT_REC_NOTE` records carry nothing that is read again.
* Writes and fsyncs do not fail. A server whose file cannot be read does not restart.

## 2.2 The log file: `AfSync`, `LogCommit`, `OvsSeq`

The main thread writes records, starts commits, replaces the file and waits in its loop; the
thread `log_fsync` waits for requests and syncs. A step is at most one access to shared state
(`cur`, `next`, `fd`, a seq), and `main.pc` and `thread.pc` name the place between two accesses.
`Write`, `CommitStart`/`CommitAdd`/`CommitNotify`, `WaitersRun`, `Wait...`, `Poll...`,
`ReplaceCommit` and `Destroy...` are the main thread, `Thread...` the other, `Crash` both.
`afsync_create()` starts the thread before it stores `fd`: until the thread has seen `next`
grow it may read the zero of fresh memory (`FdRead`). Writes and fsyncs may fail, a crash loses
an unsynced tail and may leave a torn record. A failing replacement changes nothing. The seqs'
global counter is modelled as one per seq: only "has it changed" is ever asked.

## 2.3 RCU: `OvsRcu`, `Grace`

Threads register, renew their `seqno` in `ovsrcu_quiesce()`, leave, and postpone callbacks in
their own set; the thread `urcu` takes the sets that were flushed, scans the other threads and
blocks on `global_seqno` (`ovsrcu_synchronize()`), then calls. A step is one
critical section of `seq_mutex`, `ovsrcu_threads_mutex` or the mutex of `flushed_cbsets`.

## 2.4 Flows: `Udpif`

`th[t]` is where a handler, a revalidator or the main thread is in `recv_upcalls()` /
`handle_upcalls()`, `revalidate()`, `revalidator_sweep__()` or `upcall/purge`, with its locals.
A step is a critical section of a ukey's or the umap's mutex, a datapath call, or a read of a
shared version. Phases of the revalidators are separated by their barriers (`Barrier`).
`transition_ukey()` aborts on a step back (`trouble = "abort"`). Freed ukeys may be allocated again.

## 2.5 Locks: `Locks`

`queue[l]` is `lock->waiters`, `mode[s][l]` the session's waiter. Requests and replies are FIFO
for each session; a connection may break before or after the server notices, and the client
comes back with a new session. Clients with an IDL follow `ovsdb_idl_db_set_lock()` and
`ovsdb_idl_db_process_lock_replies()`; a run of `ovsdb-client` may steal.

## 2.6 Sessions: `Reconnect`

`js` joins `struct reconnect` and `struct jsonrpc_session`, with times as ages capped where
nothing distinguishes them. One round of the main loop is `Run`, `Recv`, `Wait`, `Poll`; time
passes (`Tick`), a peer answers, refuses, calls, sends, closes or falls silent in between. The
loop may be woken by something else (`OtherWake`).

## 2.7 Source NAT: `Snat`

A packet goes out through `tc_egress`, the server or a router answers with a reply or an ICMP
error, that comes in through `tc_ingress`, and the client may send an error in turn. All
operators of the file on checksums are there with words of `WordBits` bits; the properties
compare with an independent definition (all words add up to a multiple of 0xffff). Packets may
be cut off, be of other protocols, or belong to no connection in the table. External, from how
they are used: the helpers of BPF, the table's two entries, and the mark that IPVS sets.
IP options are left out: the code assumes there are none in an ICMP error ("XXX Check!!").

## 3. What TLC checks

All runs have `CHECK_DEADLOCK FALSE`, because a run ends when its budget of events is used up.

### Raft

These runs use `MCRaft` and one value, `raft_replicas` two. Servers are symmetric, except in
`raft_deferred`. The view leaves out fields that are reset before they are read again (votes at
a follower, the leader's fields at others) and, when no election is left, `replied`, which only
an expired election timer reads. Terms end at 3, in `raft_election` with a crash at 2, in
`raft_replicas` with rivals at 4.

| run | servers | MaxLogEnd | MaxChannel | events (one alternative a behaviour) | checks |
|---|---|---|---|---|---|
| `raft_election` | 3 | 8 | 1 | 2 elections; 2 elections, a crash | `VoteInv`, `HeardInv`, `AnnouncedVotesDurable`, `ElectionSafety`, `OneLeaderHeard`, `VotesCounted`, `DurableStateKept` |
| `raft_replicas` | 3, restarted | 10 | 1 | rivals: election, crash; settled: election, 2 reads, snapshot | `TypeOK`, `IndexOrder`, `LogReadable`, `LogMatching`, `LeaderCompleteness`, `StateMachineSafety`, `CommittedKept` |
| `raft_pair` | 2 | 9 | 2 | election, command, ping, disconnection, 2 overtakings; election, transfer, command, 4 reads, 2 snapshots, crash | `MatchIndexSound`, `LogReadable` |

They have 314 742, 304 340 and 452 975 states.

Why these bounds: two elections are what two rivals, or a re-election, take; a crash
lets a voter forget between its two rivals; with one RPC in flight in each direction a
second one is lost, and `raft_pair` has two so that they can be reordered.

**`raft_replicas` starts in the middle of a history** (`RestartSpec`), because from a new
cluster a conflict, its resolution and another leader take more elections than TLC can follow.
All three servers restart from files that are on disk in some behaviour of `Spec` (TLC found
one for each):

* *rivals*: the leader of term 2 wrote a no-op and a command and reached nobody; another server
  was elected in term 3 by the third, wrote its own no-op and another command at the same
  indexes and reached nobody either, or lost them. In term 4 each of the two, or in the second
  case any of the three, may win; the winner goes back in the others' logs until they match and
  has them cut, and one server may crash at any moment. An entry of an earlier term then has a
  majority without being committed by it.
* *settled*: the leader of term 2 committed a command with one follower, which has it in its
  snapshot and has no entry left, so that the snapshot's term decides its vote; the third server
  has nothing, must not be elected, and gets the entries or a snapshot.

`LeaderCompleteness` looks past the next election: it also asks, of the disks alone, who could
be elected if all servers crashed now (`Electable`). So one election from these files shows what
takes two elections and several crashes to go wrong.

`LeaderCompleteness` rests on acknowledgements being durable, which they are not always
(`raft_ack` below): without more it is **false** of this code. TLC refutes it under the bounds of
`raft_ack` (29 states), and from the files of *rivals* in 17. The run therefore has the
`CONSTRAINT` `AcksDurable`: it follows a behaviour only for as long as every acknowledgement on
its way is of entries on disk, crashes included, and shows that nothing else breaks the property.
The constraint leaves out 2 800 of 307 140 states; on all of these the other six properties of
the run hold as well. They cannot be expected to hold beyond: a leader that lacks a committed
entry may commit another one in its place.

### The other parts

`parts` (module `MCParts`, 165 624 states) puts four modules into one run: a behaviour is one of
the log, of RCU, of the locks or of a session, and its budget says which.

| part | instance | checks |
|---|---|---|
| log | up to 2 writes, 2 commits, a replacement, a failure, a crash | `LogInv` (the inductive invariant of section 4), `CommitRefinement` (implements `LogCommit`), `CommitsComplete`, `ReplaceEnds` |
| RCU | 2 threads and `urcu`, up to 2 callbacks | `RcuInv` (again the inductive invariant), `GraceRefinement` (implements `Grace`), `CallOrder`, `CallbacksRun` |
| locks | one lock, 2 clients, 2 runs of the tool, 3 connections in all; up to 3 changes of mind, a broken connection | `QueueSound`, `ViewConverges`, `OwnerKnows` |
| session | 2 remotes, back-off 1 to 3, probes after 2 units, up to 3 failures | `AliveTries`, `LivePeerKept`, `ProbesWhenWoken` |

`datapath` (module `MCDatapath`, 331 558 states): `Udpif` with two handlers, two revalidators,
the main thread, one flow and three ukeys, for `UkeyInv`, `UkeysAllocated`, `UmapSound`,
`EvictedLeaves`, `OrphansAdopted`; or `Snat` with words of 3 bits, two addresses and two ports
for client and balancer, for `ChecksumsRight` and `TranslatedBack`. Three bits are enough for
carries out of each addition and for both zeros; the operators treat all widths alike.
The flow cache has, in one behaviour: two packets and a failed put; a packet, a purge and a failed
put; a packet, a change of the tables and a flow that a dump misses; or a change, such a flow and
one left in the datapath by an earlier process. Two packets together with a purge, which is what
`ukey_abort` needs, are not in this run; the theorems of section 4 on `Udpif` hold for any number.

Each property has a mutant (`PROJECT.json`) that the same run, with the same bounds, refutes.

**Fairness** is weak fairness of each thread's own steps, nothing of the environment's: the
scheduler runs every thread that can run, a main loop comes back to `poll_block()`, `urcu`
calls what it may call, the server and its clients read their connections, and time passes.
Not assumed: that calls succeed, that peers answer, that the other events which wake a main
loop happen. Where a property needs one of these it says so: `CommitsComplete` excepts an fsync
that failed with no later request, `ProbesWhenWoken` assumes other wake-ups.

### Where code and comments disagree

Seven runs end in a violation. Each property is what a comment or an assertion says.

* `raft_ack`, `AcksDurable`. `raft.c:234` says of the log "Must be updated on stable storage
  before responding to RPCs". `raft_truncate()` does not lower `log_synced`, so entries that
  replace removed ones count as synced, and are acknowledged, before they are.
* `raft_deferred`, `DeferredReady`. `raft.c:1510` calls it a bug if a deferred reply is still
  unsynced when its waiter completes, since replies "should only be completed when that commit
  is done". `raft_waiter_complete()` sets `log_synced` to the index of its entry, also if a
  snapshot has been installed meanwhile that reaches further. From then on the append replies
  of the follower are deferred, found unsynced and dropped, until another entry is synced. The
  trace has 51 states: the first RPC to a slow follower is lost, it rejects two heartbeats, the
  first rejection makes the leader send an entry, and the second, after a snapshot at the leader,
  `INSTALL_SNAPSHOT_REQUEST`. `MCDeferred` leads TLC there: only the slow server's fsync of
  entries and the RPCs it sends are delayed (`Promptly`).
* `raft_wrap`, `NextIndexValid`. `raft-private.h:81` calls `next_index` the "Index of next log
  entry to send". Rejected heartbeats that were in flight together bring it to 0, and the
  next one computes `next_index - 1`. The run has 8 RPCs in flight.
* `raft_assert`, `LeaderAsserts`. `raft.c:2521` asserts that the sender of an append request
  is leader. The reply to a snapshot request reaches it at a leader that has restarted as a
  follower in the same term.
* `ukey_abort`, `NoAbort`. "Valid state transitions" (`ofproto-dpif-upcall.c:1903`) has no step
  back, but a handler whose put failed sets `UKEY_EVICTED` whatever has become of the ukey.
* `ukey_stale`, `RevalidationForced`. `reval_seq` is "Incremented to force revalidation" (139).
  `upcall_xlate()` reads the version of the tables before it reads `reval_seq`, so old actions
  may count as revalidated until the next change.
* `probe_sleep`, `DeadPeerDropped`. `reconnect_wait()` "Causes the next call to poll_block() to
  wake up when reconnect_run() should be called" (`reconnect.c:657`), but there is no deadline
  until somebody tries to receive after the interval. A process with nothing else to do does
  not notice a dead peer.

Seen on the way, without a run of their own: a passive session in `S_IDLE` that accepts a new
connection keeps the probe timer of the old one (`LivePeerKept` therefore leaves out steps with
a waiting caller); `reconnect_set_backoff()` compares with `max_backoff` as it was passed, so 0
sets a back-off of 0; a forced reconnection counts as a failed attempt for the back-off; a
session that leaves a queue in which it waited makes the server tell the owner "locked" again,
which the client takes well. `raft_should_suppress_disruptive_server()` says "We just ignore vote
requests that arrive at a current leader" (`raft.c:3458`), but `raft_handle_rpc()` only skips the
term check and handles the request; the proof below covers this, election safety holds with it.

## 4. What is proved

## 4.1 Votes

TLAPS checks these theorems of `RaftVotesProofs` for every finite set of servers, all
bounds and all budgets:

| theorem | says |
|---|---|
| `VoteInvariant` | `Spec => []VoteInv` |
| `ElectionSafetyHolds` | at most one leader in a term |
| `AnnouncedVotesDurableHolds` | a vote in a reply is on the voter's disk |
| `VotesCountedHolds` | `n_votes` counts each voter once |
| `VotesKeptHolds` | "server %s changed its vote" is never logged |
| `DurableStateKeptHolds` | no step takes back a term or a vote that is on disk |

They assume only what `Raft` states of its constants: the servers are a finite non-empty set
without `Zero`, `NoData` is no value, the bounds are natural numbers.

**The argument.** Election safety is not inductive: it says nothing of votes that are on
their way. A vote passes through `raft->vote`, the unsynced file, the disk (and then
`synced_vote`), and last a reply or a candidate's tally. `Reaches(t, v, u, w)` orders pairs
of term and vote: the term is later, or it is the same and the vote was open or is the same.
`VoteInv` says that

1. in each server the synced pair reaches the pair on disk, that reaches each state in the
   file in order, and those reach the pair in memory (`FileSound`); the pair in memory is on
   disk or in the file, and no entry in the file is of a later term than a state before it,
   since reading such an entry would raise the term and clear the vote;
2. a `RAFT_W_TERM` waiter waits for the record with its own term and vote (`WaitersSound`);
3. a candidate or leader has voted for itself and counts each voter once, which is said by a
   numbering of the voters (`Numbered`) so that a vote more is one step of it, and a leader has
   a majority (`TallySound`);
4. all votes of a server that are announced in replies, or counted by others, agree within a
   term and are on its disk (`VotesAgree`).

For two leaders of one term the majorities share a voter. If it is neither of the two, 4 is
contradicted. If it is one of them, its vote counted by the other is on its disk (4), the disk
reaches its memory (1), and there it has voted for itself (3).

**The layout.** Each function has a lemma `...Keeps`, that it preserves the invariant of one
server and its disk (`Good`) and adds no vote to what is announced, or exactly the synced one.
`raft_accept_vote()` has `AcceptVoteTallies`. `RaftVotesProofs` lifts them to actions:
`Moves` and `Step` say what an action does to the announced votes of all servers, `StepInv`
that this preserves `VoteInv`, and `NextStep` that every action is such a step.

## 4.2 Leaders that are heard of

`RaftHeardProofs` proves, from the same assumptions:

| theorem | says |
|---|---|
| `HeardInvariant` | `Spec => []HeardInv` |
| `OneLeaderHeardHolds` | neither "this server is leader but server %s claims to be" nor "leader for term %d changed" is ever logged |

This does not follow from election safety. A leader is heard of by an append request that is on
its way, is deferred behind a waiter or has been taken, when the leader may long have been deposed,
or have crashed and forgotten all about it, and its voters may have crashed too. What is left
of it is `Elected(t, l)`: a majority of voters each of which is `Closed`, that is, its disk has the
vote for `l` in term `t` or a later term, and no reply or tally knows another vote of it in `t`.
A disk never takes that back (`DurableStateKept`), so `Elected` lasts (`ElectedKept`). `HeardInv` says

1. whoever is heard of in a term is elected in it, and is the only one (the majorities of two
   would share a voter);
2. only a leader takes itself for one; a server that is candidate or leader can only find its vote
   for itself on its disk and in its file, if anything of that term;
3. append requests that are deferred are of an earlier term, or of the term of a server that leads
   in it still (`LeaderSound`).

A leader counts its own vote before that is on disk, but its append requests wait until it is
(`raft_is_rpc_synced()`), and by then its own vote is durable like those it counted
(`LeaderElected`). Conversely a server that leads in term `t` while `l` is elected in `t` is `l`
(`ElectedLeader`), so no leader ever gets a request of its own term.

`RaftServeProofs` has a lemma for each function. `...Serves`: role, term, votes and leader are left
alone and only a leader says more; `...Heeds`: it may take a new term, role or leader. `HeardStep`
lifts them to actions, and `HeardStepInv` shows that such a step preserves `HeardInv`.

## 4.3 The log file

`OvsdbProofs` proves of `LogSpec`, for any number of writes, commits, replacements, failures
and crashes and from no assumption:

| theorem | says |
|---|---|
| `LogInvariant` | `LogSpec => []LogInv` |
| `LogImplementsCommit` | `LogSpec => CommitRefinement`: `AfSync` implements `LogCommit` |
| `LogAckedDurable` | what was reported as done is on disk and in the log |

The refinement maps `written` to `offset`, `durable` to the part of the file before `offset`
that is on disk, and `pending` to what the waiters cover. That a completed commit is on disk
depends on where both threads are, which `LogInv` says:

1. the records before `offset` can be read, and what a failed write or a crash left behind
   them cannot (`FileSound`), so a restart reads a prefix of the log that holds what is on disk;
2. `Covered(t)`: what the tickets up to `t` cover is on disk, also for a commit that has its
   ticket but not yet its waiter. It holds of the first ticket of an `afsync`, of `cur`, and
   of the ticket that the thread is about to store in `cur`;
3. the descriptor that the thread syncs is that of the file, except before `StoreFd` and while
   the file is being replaced. In the first case no ticket has been given out since
   `afsync_create()`, in the second `ovsdb_log_commit_block()` has synced the new file, so that
   the fsync of a wrong descriptor reports nothing that is not on disk.

Each action has a step: the quiet ones (`CommitQuiet`, `WaitQuiet`, `DestroyQuiet`,
`ThreadQuiet`) keep `LogInv` and are no step of `LogCommit`; `Write` appends, `CommitNotify`
starts, `WaitersRun` completes, `ReplaceCommit` and `ThreadFsync` sync, `Crash` crashes.

## 4.4 RCU

`OvsRcuProofs` proves of `RcuSpec`, for any set of threads that does not contain `Urcu` and any
number of callbacks:

| theorem | says |
|---|---|
| `RcuInvariant` | `RcuSpec => []RcuInv` |
| `RcuImplementsGrace` | `RcuSpec => GraceRefinement`: `OvsRcu` implements `Grace` |
| `CallOrderHolds` | the callbacks of one thread are called in the order in which it postponed them |

`Grace` calls a callback only when no thread owes it a quiescent state. In `OvsRcu` that is
known to nobody: `ovsrcu_synchronize()` compares numbers. `RcuInv` says

1. where a thread may be and whether it is quiescent there (`PlaceOK`);
2. that callbacks pass in order from the set of their thread through `flushed_cbsets` to the set
   `urcu` has taken and to the calls (`QueueOK`): each is in one place only, and in front of
   what its thread postponed later;
3. that from the moment `target` is read, every thread that a taken callback still waits for
   has a `seqno` of at most `target`, and that none is left once the scan has found nobody
   (`GraceOK`). A thread gets a new `seqno` only above `target`, and by quiescing or registering,
   when it owes nothing.

The refinement then has one step for each action: `Postpone`, quiescing, registering and calling
are those of `Grace`, all others stutter.

## 4.5 Ukeys

`UdpifProofs` proves of `Spec`, for any number of handlers, revalidators, flows and ukeys, from
`ThreadAssumption` and `UkeyAssumption` (the threads have different names, every flow has its
revalidator, `NoUkey` is no ukey):

| theorem | says |
|---|---|
| `UkeyInvariant` | `Spec => []UkeyInv` |
| `UkeysAllocatedHolds` | no thread has a pointer to a freed ukey |
| `UmapSoundHolds` | the umap has the ukeys that are not deleted, each once; all others are to be freed |

`UkeyInv` adds to these that no ukey is given to RCU twice (`FreedOnce`) and what a thread knows
of its ukey between two critical sections, when others may delete it: a ukey that waits to be
freed is deleted, and a thread with a pointer to it still owes a quiescent state (`PointerOK`);
a ukey that is not deleted is found under the thread's flow; at the places where a thread is
about to delete it, its state is past the ones of a flow in use (`PlaceOK`). States never go
back, so what a thread found stays true. An abort (run `ukey_abort`) ends the process and needs
no exception here.

## 4.6 Locks

`OvsdbProofs` proves `QueueSoundHolds`, `LockSpec => []QueueSound`, for any number of clients, runs
of the tool and messages, any bound on sessions and any finite set of locks (the locks that a
session releases when it closes are handled one after the other). `QueueSound` is inductive with
the types (`LockInv`, theorem `LockInvariant`): that a stealing waiter is at the head of the queue
or in none is what makes the removal of a victim and of the last owner leave the others in place.

## 4.7 What is only model-checked

* Liveness under fairness: `CommitsComplete`, `ReplaceEnds`, `CallbacksRun`, `OwnerKnows`,
  `AliveTries`, `LivePeerKept`, `ProbesWhenWoken`, `EvictedLeaves`, `OrphansAdopted`; and `ENABLED`.
* What needs induction over data: `ViewConverges` reads all messages of a connection by a
  recursive function, `LogReadable` all records of a file, `ChecksumsRight` all words of a packet.
* `LeaderCompleteness`, `StateMachineSafety`, `CommittedKept`, `MatchIndexSound`, `IndexOrder`:
  they rest on durable acknowledgements, which `raft_ack` refutes (section 3).
* `LogMatching`: a snapshot takes the term of its last entry from the log, which has that entry
  only while `IndexOrder` holds.
* `TypeOK`, of which `VoteInv` contains the part that the arguments need, and `TranslatedBack`: not
  proved so far.

## 5. What is not modelled

The map covers a small part of the lines of the repository, which holds all of Open vSwitch with
its kernel, Windows and DPDK datapaths, its utilities, and copies of third-party installers.
Most of that is parsing, formatting and packet processing, sequential and dominated by data, or
bound to platforms outside the repository. `PROJECT.json` gives the reason for each component.

Parts with interactions of their own that are left out:

* **Raft**: adding and removing servers, leaving and joining (`raft_run_reconfigure()` and the
  handlers); commands proxied by followers, their completion and timeouts; changes of the
  election timer; failing writes (they are in `AfSync`); liveness of elections, since timers are
  free choices.
* **Log file**: reading, the lock file, closing, waiters with ticket 0, and the path of
  `ovsdb_log_replace_commit()` for systems that cannot rename open files (Windows), with its state
  `OVSDB_LOG_BROKEN`.
* **RCU**: the end of threads, callbacks that postpone others, and that `time_poll()` quiesces a
  thread which need not sleep.
* **Flows**: `upcall_cb()` and `dp_purge_cb()` (userspace datapath), pausing and exiting, batches
  of more than one operation, deletion for recirculation ids, limits of the number of flows,
  statistics.
* **Sessions**: `jsonrpc_session_set_dscp()`, statistics, `rconn.c`, which is a second machine of
  this kind for OpenFlow.
* **OVSDB server**: monitors, triggers, replication; in the requests about locks, the errors for a
  read-only server and for requests that cannot be parsed.
* **SNAT**: the checksum of the transport header inside an ICMP error, which the code leaves as it
  is.
* **Concurrent structures** (`cmap.c`, `fat-rwlock.c`): they depend on the memory model of the
  atomics.
* **Link protocols, bonds, learning tables, connection tracking, meters.**
* **Gateway actions** `config_gw` and `handle_gw`: straight-line encoding, decoding and logging.
