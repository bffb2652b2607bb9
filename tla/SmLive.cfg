SPECIFICATION FairSpec
CONSTANTS
  a = a
  b = b
  Nodes <- TwoNodes
  Posts <- BoundOnly
  MaxPosts = 2
  MaxCancels = 0
  MaxFails = 1
  MaxNoRx = 0
  MaxRetransmits = 1
  MaxNoMem = 0
  FreeNoRx = 1
CHECK_DEADLOCK FALSE
INVARIANTS DataOfPairedPost PeerKnows
PROPERTIES PostsFinish
