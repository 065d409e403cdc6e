CONSTANTS
  class    = class
  group    = group
  abroad   = abroad
  guests   = guests
  autumn   = autumn
  spring   = spring
  offering = offering
  Rows      <- MCRows
  NumTables <- MCTables
  TermTable <- MCTerms
  TableOf   <- MCTableOf
  Place     <- MCPlace
  Parents   <- MCParents
  Own       <- MCOwn
  Owners    <- MCOwners
  Parts     <- MCParts
  Loaded    <- MCLoaded
  Captures  = {c1}
  Requests  = {q1, q2}
SPECIFICATION Spec
SYMMETRY Symmetry
INVARIANTS
  SnapshotsBracketed
  AnswersAccounted
PROPERTIES
  FinalStatusStays
CHECK_DEADLOCK FALSE
