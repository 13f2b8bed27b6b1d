SPECIFICATION FairSpec
CONSTANTS
  c1 = c1
  c2 = c2
  c3 = c3
  p1 = p1
  r1 = r1
  r2 = r2
  Client = {c1, c2}
  Row <- MCPaymentAndRefund
  Payment = {p1}
  Refund = {r1}
  NoPayment = none
  Amount <- MCOneAmount
  Currency = {XOF}
  LedgerCurrency = XOF
  BatchSize = 2
  MaxVersion = 5
  MaxLate = 1
  Key = {k1, k2}
  NoKey = nokey
  Worker = {w1}
  Caller = {x1}
  MaxPatchVersion = 3
PROPERTIES
  DecidesOnWhatItSaw
  PendingEnds
CHECK_DEADLOCK FALSE
