SPECIFICATION FairSpec
CONSTANTS
  Procs = {p1, p2, p3, p4}
  Sizes = {4}
  MaxCalls = 1
  GivesUp = FALSE
  AllocFails = FALSE
INVARIANTS NobodyReturnsEarly TokensAreOwed
PROPERTIES EveryoneReturns ImplementsBarrier
CHECK_DEADLOCK FALSE
