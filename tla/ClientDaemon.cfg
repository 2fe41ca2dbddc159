SPECIFICATION FairSpec
CONSTANTS
  RetryCount = 1
  MaxCert = 2
  None = none
INVARIANTS
  TypeOK
  DiskMatchesMemory
PROPERTIES
  NotOnDiskIsSaved
  PollsForEver
  StopReturns
