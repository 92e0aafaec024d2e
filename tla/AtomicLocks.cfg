\* Three readers and writers; two tasks on one or two executors with a flag; a Once.
CONSTANTS
    Tasks = {t1, t2, t3}
    MaxCalls = 2
    LockTasks = {t1, t2}
    LockThreads = {e1, e2}
    MaxLocks = 2
    Callers = {t1, t2, t3}
SPECIFICATION AtomicFairSpec
CHECK_DEADLOCK FALSE
INVARIANTS WordIsGuards GuardsExclude
PROPERTIES LocksReturn
