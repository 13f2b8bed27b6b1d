SPECIFICATION SSpec
CONSTANTS
  Payment = {p1}
  Refund = {r1}
  NoPayment = none
  Amount <- MCOneAmount
  Currency = {XOF}
  LedgerCurrency = XOF
  BatchSize = 2
  MaxVersion = 4
  MaxLate = 0
  Session = {s1, s2}
  Key = {k1, k2}
  NoKey = nokey
  Requested <- MCRequested
PROPERTIES
  HistoryIsDated
CHECK_DEADLOCK FALSE
