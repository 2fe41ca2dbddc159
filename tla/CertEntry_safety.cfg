SPECIFICATION Spec
CONSTANTS
  Streams = {s1, s2}
  Requests = {q1}
  Renewers = {r1, r2}
  MaxVersion = 2
  None = None
SYMMETRY Symmetry
INVARIANTS
  TypeOK
  NoRedundantObtain
  MissFree
  NoLeakedRenewer
  EntryTended
  ServesRealCert
PROPERTIES
  OffersAdvance
  ImplementsCell
CHECK_DEADLOCK FALSE
