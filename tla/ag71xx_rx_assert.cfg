CONSTANTS
  TxSize = 2
  RxSize = 2
  Wrap = 4
  Weight = 2
  FixedLink = FALSE
  MaxFails = 3
  MaxDrops = 0
SPECIFICATION Spec
INVARIANTS NoAssertion
CHECK_DEADLOCK FALSE
