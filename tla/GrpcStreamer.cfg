SPECIFICATION FairSpec
CONSTANTS
  Mains = {m1, m2}
  Failovers = {f1, f2}
  Fallbacks = {b1, b2}
  Restarts = {r1}
  RetryCount = 2
  Dispatcher = run
  Caller = caller
  None = none
INVARIANTS
  TypeOK
  OneDriver
PROPERTIES
  SessionSwapAlone
  RecoveryEndsStandby
  StopReturns
  MainTriedAgain
CHECK_DEADLOCK FALSE
