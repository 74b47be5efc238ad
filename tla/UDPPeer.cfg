SPECIFICATION Spec
CONSTANTS
  Node <- Pair
  Other <- PairOther
  Initiators = {"a"}
  Admitting = {"b"}
  Callers = {c1}
  Workers = {w1, w2}
  MaxIndex = 4
  MaxNotices = 1
SYMMETRY PeerSymmetry
CHECK_DEADLOCK FALSE
INVARIANTS TypeOK LiveIndexRouted HandshakeEndsOnce ConnectedIsUsable CounterpartKept
