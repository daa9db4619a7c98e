SPECIFICATION RestartSpec
CONSTANTS
    Server = {s1, s2, s3}
    Zero = Zero
    Value = {v1, v2}
    NoData = NoData
    MaxLogEnd = 10
    MaxChannel = 1
    Budgets <- ReplicaBudgets
VIEW LiveState
SYMMETRY Symmetry
CONSTRAINT AcksDurable
INVARIANTS TypeOK IndexOrder LogReadable LogMatching LeaderCompleteness StateMachineSafety
PROPERTIES CommittedKept
CHECK_DEADLOCK FALSE
