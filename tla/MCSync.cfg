SPECIFICATION MCSpec
CONSTANTS
    w1 = w1
    r1 = r1
    g1 = g1
    g2 = g2
    NoGen = NoGen
    Watchers <- OneWatcher
    Rebuilders <- OneRebuilder
    GenIds <- TwoIds
    MaxUid = 2
    MaxValidity = 2
    MaxFaults = 1
    FetchLimit = 1
    RetryLimit = 1
    BatchSize = 1
    PageSize = 1
    Capabilities <- AnyServer
    Exclusive = FALSE
    StartFresh <- Either
INVARIANTS
    TypeOK
    TombstonesHold
    MovedStaysAway
PROPERTIES
    LiveRowsKept
    RetriesNotLost
    FullSyncIsComplete
    WatermarkPassesNothing
    AnnouncedOnce
    OneNamespace
    FollowsCatalogue
