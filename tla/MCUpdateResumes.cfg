SPECIFICATION Spec
CONSTANTS
    t1 = t1
    t2 = t2
    NoTask = NoTask
    Tasks <- TwoTasks
    MaxNs = 2
    MaxFaults = 0
    Faults <- NoFaults
    StoredJobs <- Current
INVARIANTS
    UpdateResumes
