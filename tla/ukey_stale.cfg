SPECIFICATION Spec
CONSTANTS
    Thread = {h1, h2, r1, main_thread}
    Handler = {h1, h2}
    Revalidator = {r1}
    Main = main_thread
    Flow = {f1}
    Callback = {u1, u2, u3}
    Slice <- OneSlice
    Budgets <- ChangeBudgets
INVARIANTS RevalidationForced
CHECK_DEADLOCK FALSE
