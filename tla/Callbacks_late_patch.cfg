SPECIFICATION CSpec
CONSTANTS
  c1 = c1
  c2 = c2
  c3 = c3
  p1 = p1
  r1 = r1
  r2 = r2
  Client = {c1}
  Row <- MCOnePayment
  Payment = {p1}
  Refund = {}
  NoPayment = none
  Amount <- MCOneAmount
  Currency = {XOF}
  LedgerCurrency = XOF
  BatchSize = 2
  MaxVersion = 4
  MaxLate = 1
  Key = {k1}
  NoKey = nokey
  Worker = {w1}
  Caller = {x1}
  MaxPatchVersion = 4
PROPERTIES
  LateSuccessIsRecorded
CHECK_DEADLOCK FALSE
