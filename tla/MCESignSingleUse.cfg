SPECIFICATION Spec
CONSTANTS
  Tokens = {t1}
  Requests = {r1, r2}
  None = none
  MaxFailures = 0
CHECK_DEADLOCK FALSE
INVARIANT SingleUse
