SPECIFICATION Spec
CONSTANTS
    w1 = w1
    r1 = r1
    g1 = g1
    g2 = g2
    NoGen = NoGen
    Watchers <- OnlyWatcher
    Rebuilders <- OnlyRebuilder
    GenIds <- OneId
    MaxUid = 2
    MaxValidity = 1
    MaxFaults = 1
    FetchLimit = 1
    RetryLimit = 1
    BatchSize = 1
    PageSize = 1
    Capabilities <- Modern
    Exclusive = TRUE
    StartFresh <- Synced
INVARIANTS
    DeltaSkipsNothing
