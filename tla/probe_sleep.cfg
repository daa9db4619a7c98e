SPECIFICATION FairSpec
CONSTANTS
    Worker = {w1, w2}
    Urcu = urcu_thread
    MaxCallback = 2
    Client = {c1, c2}
    Tool = {t1, t2}
    Lock = {k1}
    NoLock = NoLock
    MaxSession = 3
    MinBackoff = 1
    MaxBackoff = 3
    ProbeInterval = 2
    NRemotes = 2
    Budgets <- SilentBudgets
PROPERTIES DeadPeerDropped
CHECK_DEADLOCK FALSE
