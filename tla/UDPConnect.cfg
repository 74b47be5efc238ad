SPECIFICATION FairSpec
CONSTANTS
  Node <- Pair
  Other <- PairOther
  Initiators = {"a"}
  Admitting = {"b"}
  Callers = {c1, c2}
  Workers = {w1}
  MaxIndex = 3
  MaxNotices = 1
CHECK_DEADLOCK FALSE
PROPERTIES ConnectReturns
