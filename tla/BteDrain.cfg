SPECIFICATION FairSpec
CONSTANTS
  usr = usr
  krn = krn
  Nics <- UserAndKernel
  Single <- KernelOnly
  KernelNics <- KernelOnly
  NumChnls = 2
  Count = 2
  Limit = 2
  MaxPosts = 3
  MaxJobs = 1
  MaxErrors = 0
  MaxLost = 1
  MaxNoMem = 0
  MaxNoIrq = 0
INVARIANTS TypeOK 
PROPERTIES BacklogDrains
