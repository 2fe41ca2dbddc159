SPECIFICATION Spec
CONSTANTS
  RetryCount = 1
  MaxCert = 2
  None = none
INVARIANT
  FreshMaterial
