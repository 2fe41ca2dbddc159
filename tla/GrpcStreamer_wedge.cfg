SPECIFICATION FairSpec
CONSTANTS
  Mains = {m1}
  Failovers = {f1}
  Fallbacks = {b1, b2}
  Restarts = {r1}
  RetryCount = 2
  Dispatcher = run
  Caller = caller
  None = none
PROPERTY
  MainRetried
CHECK_DEADLOCK FALSE
