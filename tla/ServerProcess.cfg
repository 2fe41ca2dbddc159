SPECIFICATION FairSpec
CONSTANTS
  Names = {srv, cli}
  PEM = srv
  MaxUnsaved = 1
  MaxCert = 2
  None = none
  Torn = torn
INVARIANTS
  TypeOK
  KeyOnFileIsRegistered
  SerialsRepeatOnlyIfUnsaved
PROPERTIES
  ServesWhileUp
