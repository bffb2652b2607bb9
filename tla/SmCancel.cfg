SPECIFICATION Spec
CONSTANTS
  a = a
  b = b
  Nodes <- TwoNodes
  Posts <- BoundOnly
  MaxPosts = 2
  MaxCancels = 1
  MaxFails = 0
  MaxNoRx = 0
  MaxRetransmits = 1
  MaxNoMem = 0
  FreeNoRx = 2
CHECK_DEADLOCK FALSE
PROPERTIES CancelsItsOwn
