SPECIFICATION Spec
CONSTANTS
  Invoices = {i1, i2}
  Reachable = {i1}
  Sweepers = {cron, manual}
  Cron = cron
  Top = 2
  None = none
  MaxFailures = 0
INVARIANT AtMostOnce
