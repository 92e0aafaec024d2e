SPECIFICATION FairSpec
CONSTANTS
    Tasks = {t1, t2, t3}
    MaxCalls = 2
CHECK_DEADLOCK FALSE
INVARIANTS MutualExclusion Accounting QueueIsParked
PROPERTIES WaitersAreServed
