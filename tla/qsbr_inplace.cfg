SPECIFICATION InPlaceSpec
CONSTANTS
  Threads = {t1, t2}
  Objects = {o1, o2, o3, o4}
  Threshold = 2
  Word = 16
  NULL = NULL
SYMMETRY Symmetric
INVARIANTS
  ListsPartition
  InPlaceLength
  DestructedThenFreed
CHECK_DEADLOCK FALSE
