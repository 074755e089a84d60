SPECIFICATION Spec
CONSTANTS
    a = a
    b = b
    t1 = t1
    r1 = r1
    Ids <- TwoIds
    First = a
    Commands <- OneCommand
    Readers <- OneReader
    MaxTokens = 2
    MaxFaults = 0
CHECK_DEADLOCK FALSE
INVARIANTS
    RemovedLeavesNothing
