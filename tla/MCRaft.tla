------------------------------ MODULE MCRaft ------------------------------
(***************************************************************************)
(* Instances of Raft for TLC: how often each kind of event may happen in a *)
(* run, and the reductions of its state space.                             *)
(***************************************************************************)
EXTENDS RaftHeard, TLC

\* An event that is not in the domain of b does not happen; terms end at 3.
Allow(b) == [e \in Event |-> IF e \in DOMAIN b THEN b[e] ELSE IF e = "term" THEN 3 ELSE 0]

ElectionBudgets == {Allow([election |-> 2])}
VoteBudgets == ElectionBudgets \cup {Allow([election |-> 2, crash |-> 1, term |-> 2])}
RivalBudget == Allow([election |-> 1, crash |-> 1, term |-> 4])
SettledBudget == Allow([election |-> 1, read |-> 2, snapshot |-> 1])
ReplicaBudgets == {RivalBudget, SettledBudget}
PairBudgets == {Allow([election |-> 1, command |-> 1, ping |-> 1, disconnect |-> 1,
                       overtake |-> 2]),
                Allow([election |-> 1, transfer |-> 1, command |-> 1, read |-> 4,
                       snapshot |-> 2, crash |-> 1])}
AssertBudgets == {Allow([election |-> 1, command |-> 1, ping |-> 1, disconnect |-> 1,
                         crash |-> 1])}
WrapBudgets == {Allow([election |-> 1, ping |-> 8, disconnect |-> 1])}

\* The state without the fields that nothing reads before they are set again:
\* the votes at a follower (raft_start_election() resets them), the leader's view of
\* its peers at any other server (raft_become_leader() resets it) and, once no more
\* elections start, which peers replied (only an expired election timer reads it).
Live(r) ==
    [r EXCEPT !.svote = IF r.role # "FOLLOWER" THEN @ ELSE <<>>,
              !.n_votes = IF r.role # "FOLLOWER" THEN @ ELSE 0,
              !.next_index = IF r.role = "LEADER" THEN @ ELSE <<>>,
              !.match_index = IF r.role = "LEADER" THEN @ ELSE <<>>,
              !.replied = IF r.role = "LEADER" /\ budget["election"] > 0 THEN @ ELSE {},
              !.snapping = IF r.role = "LEADER" THEN @ ELSE {}]
LiveState == <<[s \in Server |-> Live(raft[s])], disk, budget>>

\* The servers are interchangeable.
Symmetry == Permutations(Server)

---------------------------------------------------------------------------
(* Three servers that restart together from the files that earlier leaders *)
(* left.  All of these files are on disk in some behaviour of Spec.        *)

\* The file of a server in term t that voted for p, with the entries es after its
\* first snapshot; the entries of a leader of term t that got one command, x.
Left(t, p, es) == [InitDisk EXCEPT !.term = t, !.vote = p, !.entries = es]
Wrote(t, x) == <<[term |-> t, data |-> NoData], [term |-> t, data |-> x]>>

\* Leader a of term 2 reached nobody.  Then b elected c in term 3, which reached
\* nobody either, and whose entries are on disk (es) or were lost.
Rivals(a, b, c, x, es) ==
    [s \in Server |-> CASE s = a -> Left(3, Zero, Wrote(2, x))
                       [] s = b -> Left(3, c, <<>>)
                       [] s = c -> Left(3, c, es)]

\* Leader a of term 2 committed a command with b, which has it in its snapshot;
\* c stood against a and has got nothing.
Settled(a, b, c, x) ==
    [s \in Server |->
        CASE s = a -> [Left(2, a, Wrote(2, x)) EXCEPT !.commit_index = FirstIndex + 1]
          [] s = b -> [Left(2, a, <<>>) EXCEPT !.commit_index = FirstIndex + 1,
                                               !.log_start = FirstIndex + 2,
                                               !.snap = [term |-> 2, data |-> <<x>>]]
          [] s = c -> Left(2, c, <<>>)]

\* The files that go with a budget.
Pasts(a, b, c, x, y) ==
    IF budget = SettledBudget THEN {Settled(a, b, c, x)}
    ELSE {Rivals(a, b, c, x, <<>>), Rivals(a, b, c, x, Wrote(3, y))}

RestartInit ==
    LET x == CHOOSE v \in Value : TRUE
        y == CHOOSE v \in Value : v # x
    IN  \E a, b, c \in Server :
            /\ {a, b, c} = Server
            /\ budget \in Budgets
            /\ disk \in Pasts(a, b, c, x, y)
            /\ raft = [s \in Server |-> raft_open(s, disk[s])]
RestartSpec == RestartInit /\ [][Next]_vars
=============================================================================
