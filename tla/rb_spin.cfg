SPECIFICATION Spec
CONSTANTS
  Channels = {ch1, ch2}
  Dummy = Dummy
  Sessions = {s1, s2}
  InitialDelay = 1
  max_reconnect_delay = 4
  NoChannel = NoChannel
INVARIANT
  NeverSpins
CHECK_DEADLOCK FALSE
