------------------------------ MODULE MCParts ------------------------------
(***************************************************************************)
(* Instances of AfSync, OvsRcu, Locks and Reconnect for TLC.  A behaviour  *)
(* is one of the log file, of RCU, of the locks or of a session; its       *)
(* budget says which.                                                      *)
(***************************************************************************)
EXTENDS AfSync, OvsRcu, Locks, Reconnect

LogBudgets ==
    {[write |-> 1, commit |-> 2, replace |-> 1, fail |-> 0, crash |-> 0],
     [write |-> 2, commit |-> 1, replace |-> 1, fail |-> 0, crash |-> 0],
     [write |-> 1, commit |-> 1, replace |-> 1, fail |-> 1, crash |-> 0],
     [write |-> 1, commit |-> 2, replace |-> 0, fail |-> 1, crash |-> 0],
     [write |-> 2, commit |-> 1, replace |-> 0, fail |-> 0, crash |-> 1],
     [write |-> 1, commit |-> 1, replace |-> 0, fail |-> 1, crash |-> 1]}
RcuBudgets ==
    {[end |-> 2, quiesce |-> 0, postpone |-> 1],
     [end |-> 1, quiesce |-> 1, postpone |-> 2]}
LockBudgets ==
    {[set_lock |-> 3, tool |-> 0, break |-> 0],
     [set_lock |-> 2, tool |-> 0, break |-> 1],
     [set_lock |-> 2, tool |-> 1, break |-> 0],
     [set_lock |-> 0, tool |-> 2, break |-> 0]}
SessionOf(b) == [e \in {"fail", "call", "break", "silence", "force", "options", "drain"} |->
                    IF e \in DOMAIN b THEN b[e] ELSE 0]
SilentBudgets == {SessionOf([call |-> 1, silence |-> 1, drain |-> 1])}
SessionBudgets ==
    {SessionOf([fail |-> 3, options |-> 1]),
     SessionOf([call |-> 1, break |-> 1, force |-> 1])} \cup SilentBudgets
PartBudgets == LogBudgets \cup RcuBudgets \cup LockBudgets \cup SessionBudgets

IsLog == "write" \in DOMAIN budget
IsRcu == "postpone" \in DOMAIN budget
IsLocks == "set_lock" \in DOMAIN budget
IsSession == "silence" \in DOMAIN budget

OnlyLog(A) == IsLog /\ A /\ UNCHANGED <<rcuOnly, lockOnly, sessionOnly>>
OnlyRcu(A) == IsRcu /\ A /\ UNCHANGED <<logOnly, lockOnly, sessionOnly>>
OnlyLocks(A) == IsLocks /\ A /\ UNCHANGED <<logOnly, rcuOnly, awake, sessionOnly>>
OnlySession(A) == IsSession /\ A /\ UNCHANGED <<logOnly, rcuOnly, awake, lockOnly>>

\* Where the session does not act it has a connection.
Init == LogInit /\ RcuInit /\ LockInit /\ SessionInit /\ (~IsSession => js.rpc)
Next == \/ OnlyLog(LogNext)
        \/ OnlyRcu(RcuNext)
        \/ OnlyLocks(LockNext)
        \/ OnlySession(SessionNext)
vars == <<logOnly, rcuOnly, lockOnly, sessionOnly, awake, budget>>

Fairness == /\ WF_vars(OnlyLog(MainStep)) /\ WF_vars(OnlyLog(ThreadStep))
            /\ WF_vars(OnlyRcu(RcuStep))
            /\ WF_vars(OnlyLocks(LockStep))
            /\ WF_vars(OnlySession(LoopStep)) /\ WF_vars(OnlySession(Tick))
FairSpec == Init /\ [][Next]_vars /\ Fairness
=============================================================================
