CONSTANTS
  NumRooms = 2
  Slots    <- MCSlots
  Faculty  <- MCFaculty
  Groups   <- MCGroups
  Whole    <- MCWhole
  Features <- MCFeatures
  Problems <- MCProblems
  None     = None
SPECIFICATION FairSpec
INVARIANTS
  TypeOK
  OneSessionPerCall
  IndexAgrees
  DomainsExact
  SolvedIsFeasible
  ExhaustionIsProof
  NeverFails
PROPERTIES
  SearchEnds
CHECK_DEADLOCK FALSE
