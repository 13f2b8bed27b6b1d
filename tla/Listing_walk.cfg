SPECIFICATION LSpec
CONSTANTS
  Row = {1, 2, 3, 4, 5}
  MaxLimit = 2
  MaxTime = 2
  MaxFlips = 1
INVARIANTS
  LTypeOK
  ListedInOrder
  NothingSkipped

  
CHECK_DEADLOCK FALSE
