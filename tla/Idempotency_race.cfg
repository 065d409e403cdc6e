CONSTANTS
  Requests = {q1, q2, q3, q4}
  Keyed    = {q1, q2, q3}
  Polls    = 2
  Nobody   = Nobody
SPECIFICATION Spec
SYMMETRY Symmetry
INVARIANTS
  Inv
  AnswersAgree
PROPERTIES
  CompletedForever
CHECK_DEADLOCK FALSE
