SPECIFICATION Spec
CONSTANTS
  Tasks = {t1, t2}
  CloudIds = {c1, c2}
  DomainLists <- MCDomainLists
  Configured <- MCConfigured
  RetrySteps = 2
  K8sDeliveries = 2
  TxcDeliveries = 2
  None = none
INVARIANT
  WaitsForEveryHandler
CHECK_DEADLOCK FALSE
