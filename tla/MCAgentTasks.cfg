SPECIFICATION Spec
CONSTANTS
  Messages = {m1, m2}
  NoMessage = NoMessage
  Contexts = {c1, c2}
  NoContext = NoContext
  MaxFaults = 1
SYMMETRY Symmetry
CHECK_DEADLOCK FALSE
INVARIANTS
    TasksConsistent
    AdmittedOnce
    CheckpointsMatch
PROPERTIES
    TerminalStays
