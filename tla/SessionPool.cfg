\* Two calls, of one session or of two, in a pool of one session; two faults.
SPECIFICATION Spec
CONSTANTS
    Calls = {c1, c2}
    Sessions = {s1, s2}
    Saving = {c1}
    MaxSessions = 1
    MaxFaults = 2
CHECK_DEADLOCK FALSE
INVARIANTS
    FilesConsistent
    OwnAnswer
    SessionKept
PROPERTIES
    CallsEnd
