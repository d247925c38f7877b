SPECIFICATION FairSpec
CONSTANTS
  Invoices = {i1}
  Reachable = {i1}
  Sweepers = {cron, manual}
  Cron = cron
  Top = 2
  None = none
  MaxFailures = 1
INVARIANTS
  TypeOK
  SentMeansMailed
  RepeatsHaveACause
PROPERTIES
  NoReminderAfterPayment
  ReminderArrives
