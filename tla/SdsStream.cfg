SPECIFICATION FairSpec
CONSTANTS
  Packs = {p1, p2}
  None = none
  MaxVersion = 2
  FaultPacks = 1
INVARIANTS
  TypeOK
  AckMatchesOffer
  NoHeadOfLine
PROPERTIES
  ImplementsFeed
  IssueReachesWatcher
  StreamsEnd
CHECK_DEADLOCK FALSE
