CONSTANTS
  NumRooms = 2
  Slots    <- MCSlots
  Faculty  <- MCFaculty
  Groups   <- MCGroups
  Whole    <- MCWhole
  Features <- MCFeatures
  Problems <- MCProblems
  None     = None
  Requests <- MCRequests
  NoAnswer = NoAnswer
SPECIFICATION Spec
INVARIANTS
  DraftVerifies
CHECK_DEADLOCK FALSE
