SPECIFICATION FairSpec
CONSTANTS
    j1 = j1
    j2 = j2
    g1 = g1
    Jobs <- MCJobs
    Polls <- MCPolls
    NoJob = NoJob
    Cap = 1
    MaxQueues = 2
CHECK_DEADLOCK FALSE
INVARIANTS
    RunAtMostOnce
PROPERTIES
    StatusOnlyAdvances
    JobsServed
