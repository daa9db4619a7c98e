SPECIFICATION Spec
CONSTANTS
    Server = {s1, s2}
    Zero = Zero
    Value = {v1}
    NoData = NoData
    MaxLogEnd = 9
    MaxChannel = 2
    Budgets <- PairBudgets
VIEW LiveState
SYMMETRY Symmetry
INVARIANTS MatchIndexSound LogReadable
CHECK_DEADLOCK FALSE
