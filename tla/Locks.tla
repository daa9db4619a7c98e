------------------------------- MODULE Locks -------------------------------
(***************************************************************************)
(* The locks of the database server: the queue of waiters of each lock     *)
(* (ovsdb/server.c), the sessions that ask for them and are told of them   *)
(* (ovsdb/jsonrpc-server.c), and the two kinds of clients: daemons with    *)
(* the IDL (lib/ovsdb-idl.c), which keep a local view of one lock, and     *)
(* the tool ovsdb-client, which may steal one.                             *)
(*                                                                         *)
(* A connection is a FIFO in each direction.  It may break at any time;    *)
(* the client notices and connects again, with a new session, before or    *)
(* after the server closes the old one.                                    *)
(***************************************************************************)
EXTENDS Naturals, Sequences, FiniteSets, Bounds

CONSTANTS
    Client,      \* the daemons with an IDL
    Tool,        \* the runs of ovsdb-client
    Lock,        \* names of locks
    NoLock,      \* a null lock_name
    MaxSession   \* bound: connections made in all

\* The kinds of events that the Budgets bound: "set_lock", "tool", a request of
\* an ovsdb-client, "break", of a connection.

ASSUME ClientAssumption == Client \cap Tool = {}
ASSUME LockAssumption == NoLock \notin Lock
ASSUME SessionAssumption == MaxSession \in Nat
ASSUME FiniteLocks == IsFiniteSet(Lock)

Process == Client \cup Tool
Session == 1 .. MaxSession
NoSession == 0
NoRequest == 0

VARIABLES
    idl,        \* idl[c]: the part of struct ovsdb_idl_db about the lock
    conn,       \* conn[p]: the session that process p is connected to, or NoSession
    n_sessions, \* connections made so far
    sessions,   \* the sessions that the server has not closed
    mode,       \* mode[s][l]: how session s asked for l, "none" if it has no waiter for it
    queue,      \* queue[l]: the sessions in lock->waiters, first the owner
    requests,   \* requests[s]: what session s has not read yet
    replies     \* replies[s]: what was sent on session s and is not read yet

server == <<sessions, mode, queue>>
lockOnly == <<idl, conn, n_sessions, server, requests, replies>>
lockVars == <<lockOnly, budget>>

\* The waiter of s leaves the queue q, if it is there.
Without(q, s) ==
    IF \E i \in DOMAIN q : q[i] = s
    THEN LET k == CHOOSE i \in DOMAIN q : q[i] = s
         IN SubSeq(q, 1, k - 1) \o SubSeq(q, k + 1, Len(q))
    ELSE q
Waits(s, l) == \E i \in DOMAIN queue[l] : queue[l][i] = s

\* ovsdb_lock_waiter_is_owner().
IsOwner(s, l) == queue[l] # <<>> /\ Head(queue[l]) = s

\* jsonrpc_session_send() at the server: only a client with an IDL does more than
\* print what it gets, and what is sent on a broken connection is lost.
Heard(s) == \E c \in Client : conn[c] = s
Send(out, s, msg) == IF Heard(s) THEN [out EXCEPT ![s] = Append(@, msg)] ELSE out

Reply(id, locked) == [type |-> "reply", id |-> id, locked |-> locked]
Error(id) == [type |-> "error", id |-> id]
Notify(method, l) == [type |-> method, name |-> l]

---------------------------------------------------------------------------
(* The IDL.                                                                *)

\* ovsdb_idl_db_update_has_lock().
update_has_lock(db, new_has_lock) ==
    [db EXCEPT !.has_lock = new_has_lock,
               !.is_lock_contended = @ /\ ~(new_has_lock /\ ~db.has_lock)]

\* ovsdb_idl_db_compose_lock_request() and ..._unlock_request(): the id of an
\* unlock request is not kept.
compose_lock_request(db) ==
    [update_has_lock(db, FALSE) EXCEPT !.n_ids = @ + 1, !.lock_request_id = db.n_ids + 1]
compose_unlock_request(db) ==
    [update_has_lock(db, FALSE) EXCEPT !.n_ids = @ + 1, !.lock_request_id = NoRequest]
Request(method, db) == [method |-> method, name |-> db.lock_name, id |-> db.n_ids + 1]

\* ovsdb_idl_db_parse_lock_reply() and ovsdb_idl_db_parse_lock_notify().
got_lock(db, locked) ==
    [update_has_lock(db, locked) EXCEPT !.is_lock_contended = @ \/ ~locked]

\* Mutant: any reply is taken for the one to the last lock request.
AnyReply(db, msg) ==
    IF msg.type = "reply" /\ db.lock_request_id # NoRequest
    THEN got_lock([db EXCEPT !.lock_request_id = NoRequest], msg.locked)
    ELSE IF msg.type \in {"locked", "stolen"} /\ msg.name = db.lock_name
    THEN got_lock(db, msg.type = "locked")
    ELSE db

\* ovsdb_idl_db_process_lock_replies().
process_lock_replies(db, msg) ==
    IF msg.type = "reply" /\ db.lock_request_id # NoRequest /\ db.lock_request_id = msg.id
    THEN got_lock([db EXCEPT !.lock_request_id = NoRequest], msg.locked)
    ELSE IF msg.type \in {"locked", "stolen"} /\ msg.name = db.lock_name
    THEN got_lock(db, msg.type = "locked")
    ELSE db

\* ovsdb_idl_set_lock(): the steps of its loop, with the requests they send.
Released(c) ==
    [compose_unlock_request(idl[c]) EXCEPT !.lock_name = NoLock, !.is_lock_contended = FALSE]
SetLock(c, l) ==
    /\ l # idl[c].lock_name
    /\ Spend("set_lock")
    /\ LET release == idl[c].lock_name # NoLock
           free == IF release THEN Released(c) ELSE idl[c]
           wants == [free EXCEPT !.lock_name = l]
           msgs == (IF release THEN <<Request("unlock", idl[c])>> ELSE <<>>)
                   \o (IF l # NoLock THEN <<Request("lock", wants)>> ELSE <<>>)
       IN /\ idl' = [idl EXCEPT ![c] = IF l = NoLock THEN free ELSE compose_lock_request(wants)]
          /\ requests' = IF conn[c] = NoSession THEN requests
                         ELSE [requests EXCEPT ![conn[c]] = @ \o msgs]
    /\ UNCHANGED <<conn, n_sessions, server, replies>>

\* ovsdb_idl_run(), for one message.
Receive(c) ==
    /\ conn[c] # NoSession
    /\ replies[conn[c]] # <<>>
    /\ idl' = [idl EXCEPT ![c] = process_lock_replies(idl[c], Head(replies[conn[c]]))]
    /\ replies' = [replies EXCEPT ![conn[c]] = Tail(@)]
    /\ UNCHANGED <<conn, n_sessions, server, requests, budget>>

\* A new connection.  ovsdb_idl_run() finds a new seqno and asks for its lock
\* again; its view is that of the old connection until then.
NewSession(p) ==
    /\ conn[p] = NoSession
    /\ n_sessions < MaxSession
    /\ n_sessions' = n_sessions + 1
    /\ conn' = [conn EXCEPT ![p] = n_sessions + 1]
    /\ sessions' = sessions \cup {n_sessions + 1}
    /\ UNCHANGED <<mode, queue, replies, budget>>
ClientConnect(c) ==
    /\ NewSession(c)
    /\ IF idl[c].lock_name = NoLock THEN UNCHANGED <<idl, requests>>
       ELSE /\ idl' = [idl EXCEPT ![c] = compose_lock_request(idl[c])]
            /\ requests' = [requests EXCEPT ![n_sessions + 1] = <<Request("lock", idl[c])>>]

\* The connection of p breaks, or an ovsdb-client exits: of what is on its way,
\* the server still reads a part.
Break(p) ==
    /\ conn[p] # NoSession
    /\ Spend("break")
    /\ conn' = [conn EXCEPT ![p] = NoSession]
    /\ \E k \in 0 .. Len(requests[conn[p]]) :
          requests' = [requests EXCEPT ![conn[p]] = SubSeq(@, 1, k)]
    /\ replies' = [replies EXCEPT ![conn[p]] = <<>>]
    /\ UNCHANGED <<idl, n_sessions, server>>

\* do_lock() of ovsdb-client, which does not wait for the reply to a request
\* before it sends the next one.
ToolConnect(t) == NewSession(t) /\ UNCHANGED <<idl, requests>>
ToolRequest(t, method, l) ==
    /\ conn[t] # NoSession
    /\ Spend("tool")
    /\ requests' = [requests EXCEPT ![conn[t]] = Append(@, [method |-> method, name |-> l, id |-> 1])]
    /\ UNCHANGED <<idl, conn, n_sessions, server, replies>>

---------------------------------------------------------------------------
(* The server.                                                             *)

\* Mutant: a victim stays in the queue even if it had stolen the lock.
VictimsWait(l, s, how) ==
    IF how = "steal" THEN <<s>> \o queue[l] ELSE Append(queue[l], s)

\* ovsdb_server_lock(): the queue with the new waiter, without a victim that
\* stole the lock itself.
ovsdb_server_lock(l, s, how) ==
    IF how = "lock" THEN Append(queue[l], s)
    ELSE IF queue[l] # <<>> /\ mode[Head(queue[l])][l] = "steal" THEN <<s>> \o Tail(queue[l])
    ELSE <<s>> \o queue[l]

\* ovsdb_jsonrpc_session_lock().
ServeLock(s, req) ==
    LET l == req.name
        new == ovsdb_server_lock(l, s, req.method)
        told == IF req.method = "steal" /\ queue[l] # <<>>
                THEN Send(replies, Head(queue[l]), Notify("stolen", l)) ELSE replies
    IN IF mode[s][l] # "none"
       THEN replies' = Send(replies, s, Error(req.id)) /\ UNCHANGED server
       ELSE /\ queue' = [queue EXCEPT ![l] = new]
            /\ mode' = [mode EXCEPT ![s][l] = req.method]
            /\ replies' = Send(told, s, Reply(req.id, Head(new) = s))
            /\ UNCHANGED sessions

\* ovsdb_jsonrpc_session_unlock__() for the locks in S: the waiters of s leave
\* their queues, and whoever is at the head of one then is told that it has the
\* lock, even if it had it before.
Leaves(s, S) == [l \in Lock |-> IF l \in S THEN Without(queue[l], s) ELSE queue[l]]
Forgets(s, S) == [mode EXCEPT ![s] = [l \in Lock |-> IF l \in S THEN "none" ELSE @[l]]]
HeadsNow(s, S, t) ==
    {l \in S : Waits(s, l) /\ Without(queue[l], s) # <<>> /\ Head(Without(queue[l], s)) = t}
InSomeOrder(L) == CHOOSE q \in [1 .. Cardinality(L) -> L] : \A i, j \in DOMAIN q : q[i] = q[j] => i = j
ToldLocked(s, S, t) ==
    LET names == InSomeOrder(HeadsNow(s, S, t))
    IN [i \in DOMAIN names |-> Notify("locked", names[i])]

\* Mutant: the next waiter is not told.
TellsNobody(s, S) == replies

TellsOwners(s, S) ==
    [t \in Session |-> IF Heard(t) THEN replies[t] \o ToldLocked(s, S, t) ELSE replies[t]]

\* ovsdb_jsonrpc_session_unlock().
ServeUnlock(s, req) ==
    IF mode[s][req.name] = "none"
    THEN replies' = Send(replies, s, Error(req.id)) /\ UNCHANGED server
    ELSE /\ queue' = Leaves(s, {req.name})
         /\ mode' = Forgets(s, {req.name})
         /\ replies' = Send(TellsOwners(s, {req.name}), s, Reply(req.id, FALSE))
         /\ UNCHANGED sessions

\* ovsdb_jsonrpc_session_got_request().
Serve(s) ==
    /\ s \in sessions
    /\ requests[s] # <<>>
    /\ LET req == Head(requests[s])
       IN IF req.method = "unlock" THEN ServeUnlock(s, req) ELSE ServeLock(s, req)
    /\ requests' = [requests EXCEPT ![s] = Tail(@)]
    /\ UNCHANGED <<idl, conn, n_sessions, budget>>

\* ovsdb_jsonrpc_session_close(), with ovsdb_jsonrpc_session_unlock_all(), once
\* the server sees that the connection is gone.
Close(s) ==
    /\ s \in sessions
    /\ \A p \in Process : conn[p] # s
    /\ sessions' = sessions \ {s}
    /\ LET S == {l \in Lock : mode[s][l] # "none"}
       IN queue' = Leaves(s, S) /\ mode' = Forgets(s, S) /\ replies' = TellsOwners(s, S)
    /\ requests' = [requests EXCEPT ![s] = <<>>]
    /\ UNCHANGED <<idl, conn, n_sessions, budget>>

---------------------------------------------------------------------------

NoView == [lock_name |-> NoLock, has_lock |-> FALSE, is_lock_contended |-> FALSE,
           lock_request_id |-> NoRequest, n_ids |-> 0]

LockInit ==
    /\ idl = [c \in Client |-> NoView]
    /\ conn = [p \in Process |-> NoSession]
    /\ n_sessions = 0
    /\ sessions = {}
    /\ mode = [s \in Session |-> [l \in Lock |-> "none"]]
    /\ queue = [l \in Lock |-> <<>>]
    /\ requests = [s \in Session |-> <<>>]
    /\ replies = [s \in Session |-> <<>>]
    /\ budget \in Budgets

LockStep == (\E c \in Client : Receive(c)) \/ (\E s \in Session : Serve(s) \/ Close(s))

LockNext ==
    \/ LockStep
    \/ \E c \in Client : \/ ClientConnect(c)
                         \/ \E l \in Lock \cup {NoLock} : SetLock(c, l)
    \/ \E t \in Tool : \/ ToolConnect(t)
                       \/ \E m \in {"lock", "steal", "unlock"}, l \in Lock : ToolRequest(t, m, l)
    \/ \E p \in Process : Break(p)

LockSpec == LockInit /\ [][LockNext]_lockVars

\* The main loops of the server and the clients come round to every connection
\* that has something to read, and the server sees that one is gone by an error
\* or by its probes.
LockFairness == WF_lockVars(LockStep)

---------------------------------------------------------------------------
(* Properties.                                                             *)

\* The queues of server.c and the waiters of the sessions agree after any order
\* of lock, steal, unlock and close: a queue has no session twice, none that is
\* closed or has no waiter; a "lock" waiter is in its queue; one that stole the
\* lock is there only as long as it owns it.
QueueSound ==
    \A l \in Lock :
       /\ \A i, j \in DOMAIN queue[l] : queue[l][i] = queue[l][j] => i = j
       /\ \A i \in DOMAIN queue[l] : /\ queue[l][i] \in sessions
                                     /\ mode[queue[l][i]][l] \in IF i = 1 THEN {"lock", "steal"}
                                                               ELSE {"lock"}
       /\ \A s \in Session : mode[s][l] = "lock" => Waits(s, l)

\* QueueSound is inductive with the types.
Message == [type : {"reply"}, id : Nat, locked : BOOLEAN] \cup [type : {"error"}, id : Nat]
           \cup [type : {"locked", "stolen"}, name : Lock]
LockTypeOK ==
    /\ idl \in [Client -> [lock_name : Lock \cup {NoLock}, has_lock : BOOLEAN, is_lock_contended : BOOLEAN,
                           lock_request_id : Nat, n_ids : Nat]]
    /\ conn \in [Process -> Session \cup {NoSession}]
    /\ n_sessions \in Nat /\ sessions \subseteq 1 .. n_sessions /\ n_sessions <= MaxSession
    /\ mode \in [Session -> [Lock -> {"none", "lock", "steal"}]]
    /\ queue \in [Lock -> Seq(Session)]
    /\ requests \in [Session -> Seq([method : {"lock", "steal", "unlock"}, name : Lock, id : Nat])]
    /\ replies \in [Session -> Seq(Message)]
LockInv == LockTypeOK /\ QueueSound

\* The view of the IDL after it has read the messages.
AfterAll(db, msgs) ==
    LET after[i \in 0 .. Len(msgs)] == IF i = 0 THEN db ELSE process_lock_replies(after[i - 1], msgs[i])
    IN after[Len(msgs)]

\* The view of the IDL comes to be the truth.  Once the server has read all that
\* a connected client sent, the replies and notifications on their way leave
\* has_lock as ovsdb_lock_waiter_is_owner() and is_lock_contended as its
\* opposite, whatever was stolen, released, asked for again or told twice.
ViewConverges ==
    \A c \in Client : conn[c] # NoSession /\ requests[conn[c]] = <<>> =>
        LET db == AfterAll(idl[c], replies[conn[c]])
            wants == db.lock_name # NoLock
            owns == wants /\ IsOwner(conn[c], db.lock_name)
        IN db.has_lock = owns /\ db.is_lock_contended = (wants /\ ~owns)

\* A lock never stays with a session that does not know that it has it, such as
\* that of a broken connection: somebody works under the lock, or nobody wants it.
HeldBy(p, l) == /\ conn[p] # NoSession
                /\ IsOwner(conn[p], l)
                /\ p \in Client => idl[p].has_lock /\ idl[p].lock_name = l
OwnerKnows == \A l \in Lock : (queue[l] # <<>>) ~> (queue[l] = <<>> \/ \E p \in Process : HeldBy(p, l))
=============================================================================
