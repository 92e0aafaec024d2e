CONSTANTS
    t1 = t1
    t2 = t2
    t3 = t3
    t4 = t4
    Tasks = {t1, t2, t3, t4}
    First = {t1, t2, t3}
    Sleepers = {t1, t2}
    Owner = t1
    ExecLimit = 3
    MaxCount = 2
    Capacities = {0, 1}
    MaxSends = 2
    Slack = 1
    Durations = {0, 1}
    MaxTime = 6
SPECIFICATION FairSpec
CHECK_DEADLOCK FALSE
INVARIANTS TasksInOnePlace LocalLocksAreOwned NobodyIsForgotten
PROPERTIES NobodyWakesEarly LocalImplementsFifo RoundsEnd
