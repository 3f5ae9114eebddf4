SPECIFICATION FairSpec
CONSTANTS
    j1 = j1
    j2 = j2
    g1 = g1
    Jobs <- MCJobs
    Polls <- MCNone
    NoJob = NoJob
    Cap = 1
    MaxQueues = 1
CHECK_DEADLOCK FALSE
PROPERTIES
    ShutdownStopsWorker
