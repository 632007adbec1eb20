CONSTANTS
  n1 = n1
  n2 = n2
  Nodes <- OneNode
  RSize = 2
  NSize = 3
  AddOffsets <- EdgeOffsets
  RunOffsets <- ShortRuns
SPECIFICATION FairSpec
INVARIANTS
  InReach
PROPERTIES
  OnTime
  RunReturns
