SPECIFICATION WFairSpec
CONSTANTS
    Executors = {e1, e2}
    MaxStops = 1
    MaxTasks = 3
    Level = 1
    MaxTaken = 2
    MaxYields = 1
CHECK_DEADLOCK FALSE
INVARIANTS WorkIsKept
PROPERTIES StoppedExecutorsStop SpawnedTasksFinish
