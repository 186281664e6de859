CONSTANTS
  MaxFrame = 2
  Capacity = 3
  FrameLimit = 3
SPECIFICATION FairSpec
CHECK_DEADLOCK FALSE
INVARIANTS
  InOrder
  CleanEofOnly
  RefusesOnlyBad
PROPERTIES
  FrameArrives
