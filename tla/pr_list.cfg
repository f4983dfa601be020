SPECIFICATION Spec
CONSTANTS
  s1 = s1
  s2 = s2
  s3 = s3
  u1 = u1
  u2 = u2
  i1 = i1
  i2 = i2
  Sessions = {s1, s2, s3}
  Users = {u1, u2}
  Instances = {i1, i2}
  UserOf <- TwoUsers
  InstanceOf <- Apart
  Offset <- Ahead
  Skew = 1
  timeout = 1
  NoEntry = NoEntry
  NoSession = NoSession
  MaxTime = 3
  MaxCalls = 2
INVARIANTS
  ListIsRecent
  OnlineHasCause
PROPERTY
  RemovedForCause
SYMMETRY Symmetry
CHECK_DEADLOCK FALSE
