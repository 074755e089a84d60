SPECIFICATION Spec
CONSTANTS
    p = p
    a1 = a1
    a2 = a2
    m1 = m1
    m2 = m2
    Processes <- OneProcess
    Accounts <- TwoAccounts
    Messages <- TwoMessages
    Owner <- Owners
    Profiles <- FirstDesktop
    MaxOpens = 2
    MaxFaults = 1
CHECK_DEADLOCK FALSE
INVARIANT OpenedMeansCarried
