SPECIFICATION RSpec
CONSTANTS
  Payment = {p1}
  Refund = {r1}
  NoPayment = none
  Amount <- MCAmount
  Currency = {XOF}
  LedgerCurrency = XOF
  BatchSize = 2
  MaxVersion = 6
  MaxLate = 1
  NoWindow = nowindow
  MaxReports = 1
INVARIANTS
  RTypeOK
  TimelineCoversRows
  MoneyIsBacked
  RefundedShownIsBacked
  RateErrsOneWay
CONSTRAINT MCOneReadPerWorld
CHECK_DEADLOCK FALSE
