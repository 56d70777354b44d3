SPECIFICATION Spec
CONSTANTS
  Link = 2
  Window = 2
  MaxTime = 4
INVARIANT ExpiredIsOver
CHECK_DEADLOCK FALSE
