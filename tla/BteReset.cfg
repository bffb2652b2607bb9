SPECIFICATION Spec
CONSTANTS
  usr = usr
  krn = krn
  Nics <- UserAndKernel
  Single <- KernelOnly
  KernelNics <- KernelOnly
  NumChnls = 1
  Count = 2
  Limit = 1
  MaxPosts = 3
  MaxJobs = 2
  MaxErrors = 1
  MaxLost = 0
  MaxNoMem = 1
  MaxNoIrq = 1
INVARIANTS CountsOutstanding LimitOverrun 
PROPERTIES LaunchesCurrent
