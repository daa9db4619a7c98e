SPECIFICATION Spec
CONSTANTS
    Server = {s1, s2}
    Zero = Zero
    Value = {v1}
    NoData = NoData
    MaxLogEnd = 8
    MaxChannel = 2
    Budgets <- AssertBudgets
VIEW LiveState
SYMMETRY Symmetry
INVARIANTS LeaderAsserts
CHECK_DEADLOCK FALSE
