SPECIFICATION OfficeSpec
CONSTANTS
  Requests = {r1, r2}
  None = none
  Items = {i1, i2}
  Marks = {"assets"}
  Exits = {x1, x2}
  MaxHrCalls = 4
  LastDay = 2
  Leaves = {l1, l2}
  MaxDayCalls = 4
  Employees = {e1}
  MaxPay = 1
  MaxPayCalls = 4
  Orgs = {o1, o2}
  Families = {f1, f2}
  LastSecond = 2
  MaxAuthCalls = 4
  IRNs = {n1, n2, n3}
  MaxIrpCalls = 5
  MaxAttempts = 5
  MaxGuesses = 6
  Obligations = {b1, b2}
  MaxContractCalls = 3
  Names = {a, b}
  MaxUploads = 4
  States = {mh, ka}
  LineItems <- MCLineItems
  LiveRates = {83}
  Fallback = 82
  Bills = {v1, v2}
  MaxMoves = 1
SYMMETRY Symmetry
CHECK_DEADLOCK FALSE
INVARIANTS
  OfficeTypeOK
  RecordsAgree
  EmployeeFollows
  LeaveIsMarked
  MarkHasLeave
  LeavesDisjoint
  FiguresAgree
  FinaliseCovers
  AccountOwned
  PortalAgrees
  AttemptsCounted
  RemindedOnce
  FircKept
  AmountsAgree
PROPERTIES
  ClosedStaysClosed
  FinalisedStays
  LettersInOrder
  FamilyRotates
