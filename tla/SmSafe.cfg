SPECIFICATION Spec
CONSTANTS
  a = a
  b = b
  Nodes <- TwoNodes
  Posts <- OpenToo
  MaxPosts = 1
  MaxCancels = 1
  MaxFails = 1
  MaxNoRx = 1
  MaxRetransmits = 0
  MaxNoMem = 1
  FreeNoRx = 0
SYMMETRY Swap
CHECK_DEADLOCK FALSE
INVARIANTS TypeOK NothingForgotten IdleOffList 
