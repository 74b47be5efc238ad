SPECIFICATION FairSpec
CONSTANTS
  EventCap = 1
  Loops = {admin}
  Dialers = {}
  Manager = {}
  MaxGens = 3
  MaxConns = 2
  MaxRuns = 2
  MaxDials = 0
PROPERTIES OfflineSettles
CHECK_DEADLOCK FALSE
