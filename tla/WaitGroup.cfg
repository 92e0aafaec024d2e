SPECIFICATION FairSpec
CONSTANTS
    Waits = {f1, f2}
    Workers = {w1, w2}
    MaxAdds = 2
CHECK_DEADLOCK FALSE
INVARIANTS GroupIsConsistent NoLostWaiter WaitsForWork
PROPERTIES WaitReturns
