SPECIFICATION FairSpec
CONSTANTS
    e1 = e1
    e2 = e2
    Executors = {e1, e2}
    Home = e1
    LocalTasks = {l}
    SharedTasks = {s}
    NoTask = NoTask
    Never = Never
    Deadlines = {1}
    MaxTime = 2
    MaxOps = 2
    Entries = 1
    UsizeRange = 8
    MaxRetries = 1
CHECK_DEADLOCK FALSE
INVARIANTS HeldOnce ActiveCounts DeadlinesAreKept
PROPERTIES BoundedReturns
