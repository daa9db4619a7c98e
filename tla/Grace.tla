------------------------------- MODULE Grace -------------------------------
(***************************************************************************)
(* What lib/ovs-rcu.h promises: a callback that is postponed is called     *)
(* only after every thread that was outside a quiescent state at that time *)
(* has been in one since.                                                  *)
(***************************************************************************)
CONSTANTS Thread, Callback

VARIABLES
    active,    \* the threads outside a quiescent state
    owes,      \* owes[c]: the threads that must still quiesce before c is called
    status     \* status[c]: "postponed", from then until it is called, or "idle"

graceVars == <<active, owes, status>>

GraceInit == /\ active = {}
             /\ owes = [c \in Callback |-> {}]
             /\ status = [c \in Callback |-> "idle"]

\* ovsrcu_quiesce_end() and ovsrcu_quiesce_start().
QuiesceEnd(t) == /\ active' = active \cup {t}
                 /\ UNCHANGED <<owes, status>>
QuiesceBegin(t) == /\ active' = active \ {t}
                   /\ owes' = [c \in Callback |-> owes[c] \ {t}]
                   /\ UNCHANGED status

\* ovsrcu_quiesce(): a momentary quiescent state.
Quiesce(t) == /\ owes' = [c \in Callback |-> owes[c] \ {t}]
              /\ UNCHANGED <<active, status>>

\* ovsrcu_postpone().
Postpone(t, c) == /\ t \in active
                  /\ status[c] = "idle"
                  /\ status' = [status EXCEPT ![c] = "postponed"]
                  /\ owes' = [owes EXCEPT ![c] = active]
                  /\ UNCHANGED active

Call(c) == /\ status[c] = "postponed"
           /\ owes[c] = {}
           /\ status' = [status EXCEPT ![c] = "idle"]
           /\ UNCHANGED <<active, owes>>

GraceNext == \/ \E t \in Thread : \/ QuiesceEnd(t)
                                  \/ QuiesceBegin(t)
                                  \/ Quiesce(t)
                                  \/ \E c \in Callback : Postpone(t, c)
             \/ \E c \in Callback : Call(c)

GraceSpec == GraceInit /\ [][GraceNext]_graceVars
=============================================================================
