CONSTANTS
  NumRooms = 2
  Slots    <- MCSlots
  Faculty  <- MCFaculty
  Groups   <- MCGroups
  Whole    <- MCWhole
  Features <- MCFeatures
  Problems <- MCProblems
  None     = None
SPECIFICATION Spec
INVARIANTS
  InfeasibleIsProved
CHECK_DEADLOCK FALSE
