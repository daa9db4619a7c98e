SPECIFICATION Spec
CONSTANTS
    Server = {s1, s2, s3}
    Zero = Zero
    Value = {v1}
    NoData = NoData
    MaxLogEnd = 8
    MaxChannel = 1
    Budgets <- VoteBudgets
VIEW LiveState
SYMMETRY Symmetry
INVARIANTS VoteInv HeardInv AnnouncedVotesDurable ElectionSafety OneLeaderHeard VotesCounted
PROPERTIES DurableStateKept
CHECK_DEADLOCK FALSE
