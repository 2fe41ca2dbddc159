SPECIFICATION FairSpec
CONSTANTS
  Tasks = {t1, t2}
  CloudIds = {c1, c2}
  DomainLists <- MCDomainLists
  Configured <- MCConfigured
  RetrySteps = 2
  K8sDeliveries = 2
  TxcDeliveries = 1
  None = none
INVARIANTS
  TypeOK
  SuccessMeansAllDone
PROPERTIES
  UpdaterReturns
CHECK_DEADLOCK FALSE
