SPECIFICATION FairSpec
CONSTANTS
  Sessions = {s1, s2}
  Keys = {k1}
  NoKey = NoKey
  NoEvent = NoEvent
  retries = 3
  DLQ_MAX = 1
  MaxEvents = 2
INVARIANTS
  AnnouncedIsStored
  OneIdPerKey
  BoundedCopies
  NewestLettersKept
  TypeOK
  SenderOrder
PROPERTIES
  EveryAnswerCounts
  RoomIsLog
  EventsEnd
CHECK_DEADLOCK FALSE
