SPECIFICATION FairSpec
CONSTANTS
    Senders = {s1, s2}
    Receivers = {r1, r2}
    Capacities = {0, 1, 2}
    MaxOps = 2
CHECK_DEADLOCK FALSE
INVARIANTS PartnersAreSuspended NobodyWaitsInVain
PROPERTIES ImplementsFifo CloseWakesEverybody
