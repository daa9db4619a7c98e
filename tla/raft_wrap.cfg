SPECIFICATION Spec
CONSTANTS
    Server = {s1, s2}
    Zero = Zero
    Value = {v1}
    NoData = NoData
    MaxLogEnd = 7
    MaxChannel = 8
    Budgets <- WrapBudgets
VIEW LiveState
SYMMETRY Symmetry
INVARIANTS NextIndexValid
CHECK_DEADLOCK FALSE
