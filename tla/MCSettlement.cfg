SPECIFICATION Spec
CONSTANTS
  Invoices = {i1}
  Exports = {i1}
  Plans = {pro}
  Free = free
  Links = {l1, l2}
  Requests = {r1, r2}
  None = none
  MaxFailures = 1
SYMMETRY Symmetry
INVARIANTS
  TypeOK
  PaidHasEvidence
  LostOnlyInWindows
PROPERTIES
  SettledIsFinal
  OneChargeAtATime
  ReplayIsHarmless
