SPECIFICATION FairSpec
CONSTANTS
  Service = {0}
  Allowed = {0}
  Procs = {p1, p2}
  DirectCap = 1
  MaxStates = 2
  MaxMuxes = 3
  MaxPackets = 2
CHECK_DEADLOCK FALSE
INVARIANTS TypeOK NoOrphanMux GoneServiceStaysGone
PROPERTIES ReadUnblocked
