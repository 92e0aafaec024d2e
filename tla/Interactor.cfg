SPECIFICATION ISpec
CONSTANTS
    Executors = {e1, e2, e3}
    MaxStops = 1
    Tasks = {t1}
SYMMETRY Symmetry
CHECK_DEADLOCK FALSE
INVARIANTS TasksAreKept ViewsAreExact ChangesAreSeen
