SPECIFICATION MCSpec
CONSTANTS
    wa = wa
    g1 = g1
    NoGen = NoGen
    Watchers <- OnlyWatcher
    Rebuilders <- Nobody
    GenIds <- OneId
    MaxUid = 2
    MaxValidity = 1
    MaxFaults = 1
    FetchLimit = 2
    RetryLimit = 1
    BatchSize = 1
    PageSize = 1
    Capabilities <- Plain
    Exclusive = TRUE
    StartFresh <- Synced
    a = a
    b = b
    m1 = m1
    m2 = m2
    n1 = n1
    d1 = d1
    d2 = d2
    k1 = k1
    cli = cli
    Desktop = Desktop
    NoOwner = NoOwner
    i1 = i1
    win = win
    slot = slot
    NoOne = NoOne
    Orphan = Orphan
    NoId = NoId
    v1 = v1
    v2 = v2
    x1 = x1
    x2 = x2
    s1 = s1
    a1 = a1
CHECK_DEADLOCK FALSE
INVARIANTS
    ToldInOrder
    NothingAfterStop
PROPERTIES
    StoredEventually
    EveryRecentTried
    WaitEnds
    OpenEnds
    LoadingEnds
