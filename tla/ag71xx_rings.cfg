CONSTANTS
  TxSize = 2
  RxSize = 2
  Wrap = 4
  Weight = 2
  FixedLink = FALSE
  MaxFails = 1
  MaxDrops = 1
SPECIFICATION Spec
INVARIANTS TypeOK TxWindow RxWindow WorkWatched NotStoppedEmpty
CHECK_DEADLOCK FALSE
