SPECIFICATION FairSpec
CONSTANTS
  IdSpace = 2
  IsClient = TRUE
  AcceptBacklog = 2
  MaxActiveStreams = 1
  Openers = {o1}
  Acceptors = {a1}
  Closers = {c1}
  MaxChannels = 1
  MaxOpens = 1
CHECK_DEADLOCK FALSE
INVARIANTS WaiterIsWakeable
PROPERTIES CallsReturn
