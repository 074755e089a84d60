SPECIFICATION Spec
CONSTANTS
    p = p
    q = q
    Processes <- TwoProcesses
    HardLinks <- NoHardLinks
    Ages <- DeadHolders
    MaxOpens = 3
CHECK_DEADLOCK FALSE
INVARIANTS
    NeverReplaced
