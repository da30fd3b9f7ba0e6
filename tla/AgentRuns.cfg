\* Two requests of one thread, a deletion or an edit, and a failure or stop.
SPECIFICATION Spec
CONSTANTS
    Runs = {r1, r2}
    Nobody = nobody
    MaxCalls = 1
    MaxChanges = 1
CHECK_DEADLOCK FALSE
INVARIANTS
    RunsConsistent
    NoLateRepair
PROPERTIES
    StreamsEnd
