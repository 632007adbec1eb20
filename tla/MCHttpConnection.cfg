CONSTANTS
  Answers <- Server
  MaxRequests = 2
SPECIFICATION FairSpec
INVARIANTS
  OwnAnswers
  AssertionsHold
  ArrivedIsComplete
PROPERTIES
  RequestEnds
CHECK_DEADLOCK FALSE
