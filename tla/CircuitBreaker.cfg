CONSTANTS
    t1 = t1
    t2 = t2
    t3 = t3
    Threads <- MCThreads
    Free = Free
    Threshold = 2
    Timeout = 2
SPECIFICATION FairSpec
INVARIANTS
    BreakerSound
PROPERTIES
    CircuitReopens
