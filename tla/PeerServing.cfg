SPECIFICATION Spec
CONSTANTS
  EventCap = 1
  Loops = {admin}
  Dialers = {d1}
  Manager = {m1}
  MaxGens = 2
  MaxConns = 2
  MaxRuns = 2
  MaxDials = 1
CHECK_DEADLOCK FALSE
INVARIANTS TypeOK OneActiveConn ForgottenGensClosed
