CONSTANTS
  Queues <- GrowingAndRing
  MaxItems = 7
  Operations <- Both
SPECIFICATION FairSpec
INVARIANTS
  AssertionsHold
  SlotsApart
  AnswersTrue
PROPERTIES
  ImplementsFifo
  Delivered
