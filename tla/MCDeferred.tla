---------------------------- MODULE MCDeferred ----------------------------
(***************************************************************************)
(* An instance of Raft for TLC in which one server is slow: the fsync of   *)
(* its entries and the RPCs that it sends take long, everything else is    *)
(* done at once, and the leader's first RPC to it is lost.                 *)
(***************************************************************************)
EXTENDS MCRaft

CONSTANT Slow    \* that server

SlowBudgets == {Allow([election |-> 1, command |-> 1, ping |-> 2, read |-> 2, snapshot |-> 1,
                       disconnect |-> 1])}

Completes(s, types) == /\ raft[s].waiters # <<>>
                       /\ Head(raft[s].waiters).ticket = 0
                       /\ Head(raft[s].waiters).type \in types
Syncs(s) == IF s = Slow
            THEN \/ raft[s].file # <<>> /\ Head(raft[s].file).type = "STATE"
                 \/ Completes(s, {"TERM"})
            ELSE raft[s].file # <<>> \/ Completes(s, {"TERM", "ENTRY"})
Sends(s, d) == s # Slow /\ raft[s].conns[d] # <<>>
Leads(s) == s # Slow /\ raft[s].role = "LEADER"
Acts(s) == s # Slow /\ (Leads(s) \/ budget["election"] > 0) /\ raft'[s] # raft[s]

\* First whatever is to be synced, then the loss and the leader's pings, then what
\* is on its way; when all of this is done, the leader, its client or the slow
\* server goes on.
Promptly ==
    IF \E s \in Server : Syncs(s)
    THEN LET s == CHOOSE s \in Server : Syncs(s) IN LogSync(s) \/ WaitersRun(s)
    ELSE IF budget["disconnect"] > 0 /\ \E s \in Server : Leads(s)
    THEN \E s \in Server : Leads(s) /\ Disconnect(s, Slow)
    ELSE IF budget["ping"] > 0 /\ \E s \in Server : Leads(s)
    THEN budget'["ping"] < budget["ping"]
    ELSE IF \E s, d \in Server : Sends(s, d)
    THEN LET c == CHOOSE c \in Server \X Server : Sends(c[1], c[2])
         IN raft'[c[1]].conns[c[2]] = Tail(raft[c[1]].conns[c[2]])
    ELSE budget' # budget => \E s \in Server : Acts(s)
=============================================================================
