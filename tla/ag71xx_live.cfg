CONSTANTS
  TxSize = 1
  RxSize = 2
  Wrap = 4
  Weight = 1
  FixedLink = FALSE
  MaxFails = 1
  MaxDrops = 1
SPECIFICATION FairSpec
PROPERTIES  ReceiverRestarts
CHECK_DEADLOCK FALSE
