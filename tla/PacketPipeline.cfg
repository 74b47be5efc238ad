SPECIFICATION FairSpec
CONSTANTS
  Callers = {c1, c2}
  DecryptWorkers = {d1, d2}
  EncryptWorkers = {e1, e2}
  RawCap = 1
  OutCap = 1
  BatchSize = 2
  MaxArrivals = 2
  MaxSends = 2
  MaxEvents = 2
CHECK_DEADLOCK FALSE
INVARIANTS TypeOK PacketsOwned SentMeansWritten
PROPERTIES InOrder CallsSettle
