SPECIFICATION FairSpec
CONSTANTS
  Docs = {d1, d2, d3}
  InvoiceSeries = {inv}
  NoteSeries = {cn}
  None = none
  MaxAttempts = 2
  MaxFailures = 2
CHECK_DEADLOCK FALSE
INVARIANTS
  TypeOK
  NoDuplicates
  GapsAreDeaths
PROPERTIES
  LedgerSpec
  PdfSettles
