SPECIFICATION DSpec
CONSTANTS
  Payment = {p1, p2, p3}
  Refund = {r1, r2}
  NoPayment = none
  Amount <- MCOneAmount
  Currency = {XOF}
  LedgerCurrency = XOF
  BatchSize = 2
  MaxVersion = 6
  MaxLate = 2
  p1 = p1
  p2 = p2
  p3 = p3
  r1 = r1
  Plan <- MCPlan
  MaxRuns = 2
  MaxResets = 1
INVARIANTS
  ReportedOnce
  OneActiveKey
PROPERTIES
  ResolutionIsKept
  LoadMeansExpired
  LoadMeansRefunded
CHECK_DEADLOCK FALSE
