SPECIFICATION FairSpec
CONSTANTS
  NRanks = 2
  Regions <- OneBuffer
  Offsets = {0}
  Commands = {"GETSIZE", "MEM_REGISTER", "ALLGATHER_INT", "ALLGATHER_MDH"}
  Links = {TRUE}
  Fails = FALSE
  MaxCalls = 5
  SegBase = 20
  MapBase = 100
  MapStep = 10
  FmaBase = 10
  FmaLen = 2
INVARIANT GatheredByRank
 
CHECK_DEADLOCK FALSE
