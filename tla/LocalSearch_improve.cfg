CONSTANTS
  NumRooms = 2
  Slots    <- MCSlots
  Faculty  <- MCFaculty
  Groups   <- MCGroups
  Whole    <- MCWhole
  Features <- MCFeatures
  Problems <- MCProblems
  None     = None
  Starts   <- MCStarts
  NoMove   = NoMove
  MaxIterations = 3
  NoImprovementLimit = 2
  TabuTenure = 1
SPECIFICATION FairSpec
INVARIANTS
  TypeOK
  TalliesExact
  BestKept
  ShortSessionsKeepApart
PROPERTIES
  EvaluationLeavesNoTrace
  TabuHolds
  ImplementsAnytime
  SearchEnds
CHECK_DEADLOCK FALSE
