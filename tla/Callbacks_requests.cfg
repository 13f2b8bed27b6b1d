SPECIFICATION CSpec
CONSTANTS
  c1 = c1
  c2 = c2
  c3 = c3
  p1 = p1
  r1 = r1
  r2 = r2
  Client = {c1, c2, c3}
  Row <- MCTwoRefunds
  Payment = {p1}
  Refund = {r1, r2}
  NoPayment = none
  Amount <- MCOneAmount
  Currency = {XOF}
  LedgerCurrency = XOF
  BatchSize = 2
  MaxVersion = 4
  MaxLate = 0
  Key = {k1, k2}
  NoKey = nokey
  Worker = {}
  Caller = {x1}
  MaxPatchVersion = 4
INVARIANTS
  CTypeOK
  AnswersAreIdempotent
  KnownKeyIsReplayed
CHECK_DEADLOCK FALSE
