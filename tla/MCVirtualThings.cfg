SPECIFICATION Spec
CONSTANTS
  Calls = {k1, k2, k3}
  NoCall = NoCall
  Affordances = {a, b}
SYMMETRY Symmetry
CHECK_DEADLOCK FALSE
INVARIANTS
    DefinitionsConsistent
    AddsKept
    InteractionsKept
