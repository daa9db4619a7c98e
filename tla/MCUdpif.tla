------------------------------ MODULE MCUdpif ------------------------------
(***************************************************************************)
(* Instances of Udpif for TLC.                                             *)
(***************************************************************************)
EXTENDS Udpif

OneSlice == [f \in Flow |-> CHOOSE r \in Revalidator : TRUE]

\* An event that is not in the domain of b does not happen.
Allow(b) == [e \in {"packet", "change", "purge", "fail", "lost", "left"} |->
                IF e \in DOMAIN b THEN b[e] ELSE 0]

RaceBudgets == {Allow([packet |-> 2, fail |-> 1]),
                Allow([packet |-> 1, purge |-> 1, fail |-> 1]),
                Allow([packet |-> 1, change |-> 1, lost |-> 1]),
                Allow([change |-> 1, lost |-> 1, left |-> 1])}
PurgeBudgets == {Allow([packet |-> 2, purge |-> 1])}
ChangeBudgets == {Allow([packet |-> 1, change |-> 1])}
=============================================================================
