SPECIFICATION Spec
CONSTANTS
  p1 = p1
  p2 = p2
  Checks = {p1, p2}
  Offset <- Skewed
  limit = 2
  window_seconds = 6
  MaxSkew = 1
  MaxDelay = 1
  MaxTime = 9
  MaxRequests = 3
INVARIANTS
  WindowLimit
  DenialIsEarned
CHECK_DEADLOCK FALSE
