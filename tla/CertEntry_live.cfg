SPECIFICATION FairSpec
CONSTANTS
  Streams = {s1}
  Requests = {q1}
  Renewers = {r1, r2}
  MaxVersion = 1
  None = None
PROPERTIES
  SleepersWake
  SubscribedIsRenewed
  StopDrains
CHECK_DEADLOCK FALSE
