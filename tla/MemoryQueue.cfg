SPECIFICATION FairSpec
CONSTANTS
    j1 = j1
    j2 = j2
    j3 = j3
    w1 = w1
    w2 = w2
    Jobs <- MCJobs
    Workers <- MCWorkers
    NoJob = NoJob
    MaxAttempts = 2
CHECK_DEADLOCK FALSE
INVARIANTS
    QueueSound
PROPERTIES
    QueueServed
