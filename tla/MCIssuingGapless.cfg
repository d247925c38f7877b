SPECIFICATION Spec
CONSTANTS
  Docs = {d1, d2}
  InvoiceSeries = {inv}
  NoteSeries = {cn}
  None = none
  MaxAttempts = 2
  MaxFailures = 1
CHECK_DEADLOCK FALSE
INVARIANT Gapless
