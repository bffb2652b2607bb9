SPECIFICATION Spec
CONSTANTS
  NRanks = 1
  Regions <- TwoBuffers
  Offsets = {0, 1}
  Commands = {"MEM_REGISTER", "POST_RDMA"}
  Links = {TRUE}
  Fails = FALSE
  MaxCalls = 4
  SegBase = 20
  MapBase = 100
  MapStep = 10
  FmaBase = 10
  FmaLen = 2
INVARIANT RightByte
CHECK_DEADLOCK FALSE
