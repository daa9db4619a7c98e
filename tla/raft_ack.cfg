SPECIFICATION Spec
CONSTANTS
    Server = {s1, s2, s3}
    Zero = Zero
    Value = {v1}
    NoData = NoData
    MaxLogEnd = 9
    MaxChannel = 1
    Budgets <- ElectionBudgets
VIEW LiveState
SYMMETRY Symmetry
INVARIANTS AcksDurable
CHECK_DEADLOCK FALSE
