SPECIFICATION Spec
CONSTANTS
  Procs = {p1, p2}
  Sizes = {2}
  MaxCalls = 2
  GivesUp = FALSE
  AllocFails = FALSE
INVARIANTS NobodyReturnsEarly
CHECK_DEADLOCK FALSE
