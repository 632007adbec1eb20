CONSTANTS
  e1 = e1
  e2 = e2
  Nodes <- TwoEvents
  Word = 64
  InitStamp = 0
  Interval = 2
  Limit = 8
  Cap = 28
  Plans <- ManyPlans
  Steps <- AnyStep
  Horizon = 2
  MaxCount = 10
SPECIFICATION FairSpec
VIEW View
INVARIANTS
  NeverEarly
  NoneMissed
  RepeatsExactly
  InfiniteRepeats
  ArmedIffStarted
  ClockNotAhead
PROPERTIES
  RevokedStaysQuiet
  MgrRunReturns
