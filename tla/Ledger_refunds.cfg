SPECIFICATION Spec
CONSTANTS
  Payment = {p1}
  Refund = {r1, r2}
  NoPayment = none
  Amount <- MCAmount
  Currency = {XOF, EUR}
  LedgerCurrency = XOF
  BatchSize = 2
  MaxVersion = 7
  MaxLate = 1
CONSTRAINT MCSizes
SYMMETRY MCSymmetry
INVARIANTS
  
  BookedOnce
  BooksMatchRow
  DisputeLeavesARest
  RefundHasCollectedParent
  LateMeansNotBooked
  HistoryIsAPath
  AuditAgreesWithRow
  RefundedIsTheSum
PROPERTIES
  WonDisputeRestoresStatus
  VersionCoversRow
  FinalIsFinal
  ImplementsMoneyFlow
CHECK_DEADLOCK FALSE
