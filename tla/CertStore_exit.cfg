SPECIFICATION Spec
CONSTANTS
  Keys = {k1, k2}
  QueueCap = 2
  MaxCert = 2
INVARIANT
  DrainedAtExit
