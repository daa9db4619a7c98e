SPECIFICATION Spec
CONSTANTS
    Server = {s1, s2, s3}
    Zero = Zero
    Value = {v1}
    NoData = NoData
    MaxLogEnd = 9
    MaxChannel = 2
    Budgets <- SlowBudgets
    Slow = s3
VIEW LiveState
ACTION_CONSTRAINT Promptly
INVARIANTS DeferredReady
CHECK_DEADLOCK FALSE
