SPECIFICATION FairSpec
CONSTANTS
  Keys = {k1, k2}
  QueueCap = 2
  MaxCert = 3
INVARIANTS
  TypeOK
  PersistInOrder
  NothingLost
  MapOnDisk
PROPERTIES
  RenewalReachesDisk
