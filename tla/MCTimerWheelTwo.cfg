CONSTANTS
  n1 = n1
  n2 = n2
  Nodes <- TwoNodes
  RSize = 2
  NSize = 3
  AddOffsets <- FewOffsets
  RunOffsets <- OneTick
SPECIFICATION Spec
VIEW View
SYMMETRY Symmetry
INVARIANTS
  LinkedHasCore
PROPERTIES
  ImplementsTimerSet
