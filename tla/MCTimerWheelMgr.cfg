CONSTANTS
  e1 = e1
  e2 = e2
  Nodes <- Timers
  Word = 128
  InitStamp = 12
  Second = 3
  Interval = 1
  Limit = 10
  Cap = 56
  Plans <- Seconds
  Steps <- Updates
  Horizon = 10
  MaxCount = 20
SPECIFICATION WheelMgrSpec
SYMMETRY Symmetry
INVARIANTS
  TimeoutsExact
PROPERTIES
  DeletedStaysQuiet
CHECK_DEADLOCK FALSE
