SPECIFICATION Spec
CONSTANTS
  NRanks = 1
  Regions <- Adjacent
  Offsets = {0}
  Commands = {"NIC_SETATTR", "MEM_REGISTER", "MEM_DEREGISTER", "CQ_CREATE", "POST_RDMA", "GETSIZE", "GETRANK", "FINALIZE", "FMA_CONFIG", "BARRIER", "CQ_WAIT_EVENT", "CQ_DESTROY"}
  Links = {TRUE, FALSE}
  Fails = TRUE
  MaxCalls = 6
  SegBase = 20
  MapBase = 100
  MapStep = 10
  FmaBase = 10
  FmaLen = 2
INVARIANT TypeOK
 
 
INVARIANT DescriptorPreserved
CHECK_DEADLOCK FALSE
