------------------------------- MODULE Bounds -------------------------------
(***************************************************************************)
(* How often the environment of a component may act: calls of its clients, *)
(* faults and crashes.  A behaviour spends one of the Budgets.             *)
(***************************************************************************)
EXTENDS Naturals

CONSTANT Budgets    \* bounds: functions from kinds of events to how often they may happen

ASSUME BudgetAssumption == \A b \in Budgets : \A e \in DOMAIN b : b[e] \in Nat

VARIABLE budget     \* what is left of one of the Budgets

Spend(e) == /\ budget[e] > 0
            /\ budget' = [budget EXCEPT ![e] = @ - 1]
=============================================================================
