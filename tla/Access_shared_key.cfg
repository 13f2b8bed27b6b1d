SPECIFICATION ASpec
CONSTANTS
  Merchant = {demo, shop}
  Demo = demo
  NoMerchant = none
  Role <- MCRole
  IdempotencyKey = {i1, i2}
  NoKey = nokey
  Caller = {c1, c2}
  MaxKeys = 3
  MaxRows = 2
  MaxExceptions = 1
SYMMETRY MCSymmetry
INVARIANTS
  AnswersAreOwn
CHECK_DEADLOCK FALSE
