CONSTANTS
  MaxItems = 6
  Items <- FewItems
SPECIFICATION FairBlockingSpec
INVARIANTS
  AssertionsHold
  Balanced
PROPERTIES
  WaiterServed
CHECK_DEADLOCK FALSE
