CONSTANTS
  Hour = 3
  MaxLine = 2
  MaxSize = 3
  SeqNumbers = 10
  Long <- SecondIsLong
  EndTime = 3
  Failures = 1
  MaxMsgs = 4
  MaxRestarts = 1
  Items <- Messages
SPECIFICATION FairSpec
VIEW View
INVARIANTS
  LimitsKept
  HourKept
  LogInOrder
  LostOnlyAtTheEnd
PROPERTIES
  TakenOrStopped
  StopEnds
CHECK_DEADLOCK FALSE
