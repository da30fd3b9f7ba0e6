SPECIFICATION ServientsSpec
CHECK_DEADLOCK FALSE
CONSTANTS
    Things = {thing}
    Shapes = {plain, extended}
    Loop = loop
    Sweeps = {s1, s2}
    None = None
    Absent = Absent
    Malformed = Malformed
    Ambiguous = Ambiguous
    MaxChanges = 2
    MaxFaults = 1
INVARIANTS
    InteractionsSound

    
