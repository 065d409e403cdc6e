CONSTANTS
  Requests = {q1, q2}
  Keyed    = {q1, q2}
  Polls    = 2
  Nobody   = Nobody
SPECIFICATION Spec
INVARIANT OneResourcePerKey
CHECK_DEADLOCK FALSE
