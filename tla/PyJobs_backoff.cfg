SPECIFICATION Spec
CONSTANTS
    j1 = j1
    j2 = j2
    w1 = w1
    w2 = w2
    Jobs <- MCOneJob
    Workers <- MCWorkers
    NoJob = NoJob
    MaxRetries = 1
    MaxCrashes = 0
CHECK_DEADLOCK FALSE
INVARIANT
    RetryBacksOff
