SPECIFICATION Spec
CONSTANTS
  Payment = {p1}
  Refund = {r1}
  NoPayment = none
  Amount <- MCAmount
  Currency = {XOF}
  LedgerCurrency = XOF
  BatchSize = 2
  MaxVersion = 6
  MaxLate = 1
PROPERTIES
  WonDisputeMovesNoMoney
CHECK_DEADLOCK FALSE
