SPECIFICATION Spec
CONSTANTS
  Requests = {q1, q2}
  Names = {n1, n2}
  Emails = {e1, e2}
  NoCall = NoCall
  NoRow = NoRow
  MaxRequests = 5
INVARIANTS
  UniqueKeys
  CreatorIsAdmin
PROPERTIES
  OnlySeenRowsLeave
  ServedOneAtATime
SYMMETRY Symmetry
CHECK_DEADLOCK FALSE
