SPECIFICATION Spec
CONSTANTS
  Procs = {p1, p2, p3}
  Sizes = {0, 1, 2, 3}
  MaxCalls = 2
  GivesUp = TRUE
  AllocFails = TRUE
INVARIANTS TypeOK RefCntCountsUsers TokensAreOwed
SYMMETRY Symmetry
CHECK_DEADLOCK FALSE
