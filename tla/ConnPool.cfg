SPECIFICATION FairSpec
CONSTANTS
    t1 = t1
    t2 = t2
    t3 = t3
    Threads <- MCThreeThreads
    Free = Free
    MinSize = 1
    MaxSize = 1
    MaxPools = 2
    MaxConns = 3
INVARIANTS
    PoolSound
PROPERTIES
    GetEnds
