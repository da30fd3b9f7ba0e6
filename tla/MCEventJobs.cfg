\* Two jobs, two events, two requests at a time and one failure.
SPECIFICATION Spec
CONSTANTS
    k1 = k1
    k2 = k2
    Keys <- TwoKeys
    Jobs = {j1, j2}
    Requests = {q1, q2}
    Changes <- Updates
    Same = same
    MaxOps = 2
    MaxEvents = 1
    MaxFaults = 1
CHECK_DEADLOCK FALSE
INVARIANTS
    JobsAligned
PROPERTIES
    NoEventLost
    WorkerDrains
