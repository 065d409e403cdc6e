CONSTANTS
  NumRooms = 2
  Slots    <- MCSlots
  Faculty  <- MCFaculty
  Groups   <- MCGroups
  Whole    <- MCWhole
  Features <- MCFeatures
  Problems <- MCProblems
  None     = None
  Starts   <- MCStarts
  NoMove   = NoMove
  MaxIterations = 1
  NoImprovementLimit = 2
  TabuTenure = 1
SPECIFICATION Spec
INVARIANTS
  ImprovedKeepsApart
CHECK_DEADLOCK FALSE
