CONSTANTS
  Versions   = {v1, v2}
  Requests   = {q1, q2}
  Contents   = {c1, c2}
  None       = None
  MaxVersion = 4
SPECIFICATION Spec
SYMMETRY Symmetry
INVARIANTS
  Inv
  PublishedIsCurrent
  PublishedIsVerified
  ScoreMatches
  WritesFollowReads
PROPERTIES
  ImplementsLifecycle
CHECK_DEADLOCK FALSE
