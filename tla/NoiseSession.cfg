SPECIFICATION Spec
CONSTANTS
  WordBits = 2
  Words = 2
  NonceSpace = 6
  MaxCalls = 6
  Encryptors = {e1, e2}
  Decryptors = {d1, d2}
SYMMETRY WorkerSymmetry
INVARIANTS TypeOK NonceFresh AtMostOnce FilterExact
CHECK_DEADLOCK FALSE
