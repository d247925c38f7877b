SPECIFICATION FairSpec
CONSTANTS
  Invoices = {i1}
  Exports = {i1}
  Plans = {pro}
  Free = free
  Links = {l1}
  Requests = {r1, r2}
  None = none
  MaxFailures = 1
PROPERTIES
  CaptureSettles
