SPECIFICATION Spec
CONSTANTS
  usr = usr
  krn = krn
  Nics <- UserAndKernel
  Single <- KernelOnly
  KernelNics <- KernelOnly
  NumChnls = 1
  Count = 2
  Limit = 2
  MaxPosts = 1
  MaxJobs = 1
  MaxErrors = 2
  MaxLost = 0
  MaxNoMem = 0
  MaxNoIrq = 0
PROPERTIES SendsQueued
