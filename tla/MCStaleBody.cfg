SPECIFICATION Spec
CONSTANTS
    a = a
    b = b
    r1 = r1
    w1 = w1
    NoOne = NoOne
    Orphan = Orphan
    NoId = NoId
    Ids <- TwoIds
    Recent <- JustA
    Readers <- OneReader
    Warmers <- OneWarmer
    MaxBody = 2
    MaxValidity = 2
    MaxFaults = 0
    MaxEvents = 1
    MaxWaits = 1
    Budget = 1
    Size <- SomeSizes
CHECK_DEADLOCK FALSE
INVARIANTS
    NoStaleBody
