SPECIFICATION FairSpec
CONSTANTS
    t1 = t1
    t2 = t2
    NoTask = NoTask
    Tasks <- TwoTasks
    MaxNs = 2
    MaxFaults = 1
    Faults <- Everything
    StoredJobs <- Current
INVARIANTS
    ResetNotLost
    NothingLeaks
    WatchedWhenQuiet
    RemovedIsForgotten
PROPERTIES
    OperationsEnd
