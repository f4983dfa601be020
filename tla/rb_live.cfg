SPECIFICATION FairSpec
CONSTANTS
  Channels = {ch1, ch2, ch3}
  Dummy = Dummy
  Sessions = {s1, s2}
  InitialDelay = 1
  max_reconnect_delay = 4
  NoChannel = NoChannel
INVARIANTS
  QuietMeansComplete
  BrokerInv
PROPERTY
  Reconnects
CHECK_DEADLOCK FALSE
