SPECIFICATION Spec
CONSTANTS
  IdSpace = 4
  IsClient = FALSE
  AcceptBacklog = 1
  MaxActiveStreams = 1
  Openers = {o1}
  Acceptors = {a1}
  Closers = {c1}
  MaxChannels = 1
  MaxOpens = 1
CHECK_DEADLOCK FALSE
INVARIANTS TypeOK ActiveExact QueuedIsAcceptable ClosedIsEmpty
