CONSTANTS
  e1 = e1
  e2 = e2
  Nodes <- OneEvent
  Word = 32
  InitStamp = 26
  Interval = 2
  Limit = 4
  Cap = 14
  Plans <- ForeverPlan
  Steps <- Forward
  Horizon = 8
  MaxCount = 10
SPECIFICATION Spec
INVARIANTS
  InfiniteRepeats
