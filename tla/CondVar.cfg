SPECIFICATION CVSpec
CONSTANTS
    Waiters = {w1, w2}
    Notifiers = {n1}
    Pokers = {p1}
    Tasks = {w1, w2, n1, p1}
    MaxCalls = 1
SYMMETRY Symmetry
CHECK_DEADLOCK FALSE
INVARIANTS MutexStaysSound AsleepWereMissed
