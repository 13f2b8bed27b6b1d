SPECIFICATION SSpec
CONSTANTS
  Payment = {p1}
  Refund = {r1, r2}
  NoPayment = none
  Amount <- MCOneAmount
  Currency = {XOF}
  LedgerCurrency = XOF
  BatchSize = 2
  MaxVersion = 6
  MaxLate = 1
  Session = {s1, s2}
  Key = {k1, k2, k3}
  NoKey = nokey
  Requested <- MCRequested
SYMMETRY MCSymmetry
INVARIANTS
  ReadsAreStable
  NoCircularWait
PROPERTIES
  ImplementsLedger
CHECK_DEADLOCK FALSE
