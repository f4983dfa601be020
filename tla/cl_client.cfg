SPECIFICATION FairSpec
CONSTANTS
  Rooms = {r1}
  Sockets = {w1, w2}
  Calls = {a, b}
  NoRoom = NoRoom
  NoSocket = NoSocket
INVARIANTS
  OneLiveSocket
  HearsCurrentRoom
PROPERTY
  FailureIsRetried
CHECK_DEADLOCK FALSE
