SPECIFICATION FairSpec
CONSTANTS
    j1 = j1
    j2 = j2
    w1 = w1
    w2 = w2
    Jobs <- MCJobs
    Workers <- MCWorkers
    NoJob = NoJob
    MaxRetries = 2
    MaxCrashes = 1
CHECK_DEADLOCK FALSE
INVARIANTS
    OneOwner
    AttemptsSound
PROPERTIES
    QueuedJobEnds
