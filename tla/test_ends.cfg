SPECIFICATION TestSpec
CONSTANTS
  Threads = {t1, t2, t3}
  Objects = {t1, t2, t3}
  Threshold = 2
  Word = 8
  NULL = NULL
SYMMETRY Symmetric
INVARIANTS
  VectorPointsToLive
  NothingLeftOver
CHECK_DEADLOCK FALSE
