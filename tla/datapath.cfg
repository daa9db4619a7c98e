SPECIFICATION DatapathSpec
CONSTANTS
    Thread = {h1, h2, r1, r2, main_thread}
    Handler = {h1, h2}
    Revalidator = {r1, r2}
    Main = main_thread
    Flow = {f1}
    Callback = {u1, u2, u3}
    Slice <- OneSlice
    Budgets <- DatapathBudgets
    WordBits = 3
    Addr = {1, 44}
    Port = {0, 7}
    ServerAddr = 22
    ServerPort = 3
INVARIANTS UkeyInv UkeysAllocated UmapSound ChecksumsRight TranslatedBack
PROPERTIES EvictedLeaves OrphansAdopted
CHECK_DEADLOCK FALSE
