SPECIFICATION Spec
CONSTANTS
  Rooms = {r1, r2}
  NoRoom = NoRoom
  Calls = {c1, c2}
  limit = 1
  Times = {1, 2, 3}
  MaxMessages = 3
SYMMETRY Symmetry
INVARIANTS
  WalkInOrder
  WalkComplete
