SPECIFICATION Spec
CONSTANTS
  u1 = u1
  c1 = c1
  c2 = c2
  Users = {u1}
  Conns = {c1, c2}
  UserOf <- Reconnecting
  Rooms = {r1}
  MAX_SEND_QUEUE_SIZE = 1
  Slots = {s1}
  NoConn = NoConn
  NoRoom = NoRoom
  NoUser = NoUser
PROPERTY
  CloseHasCause
CHECK_DEADLOCK FALSE
