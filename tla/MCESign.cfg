SPECIFICATION Spec
CONSTANTS
  Tokens = {t1, t2}
  Requests = {r1, r2}
  None = none
  MaxFailures = 1
SYMMETRY Symmetry
CHECK_DEADLOCK FALSE
INVARIANTS
  TypeOK
  SignedHasEvidence
  SignedAsSent
  OpenLinkWorks
PROPERTIES
  SignedIsFinal
