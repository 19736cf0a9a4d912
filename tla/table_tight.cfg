SPECIFICATION FairSpec
CONSTANTS
  Keys = {2, 3, 6, 10}
  Values = {v, w}
  Hash <- MixedHash
  SLOTSIZE = 2
  HOP_RANGE = 2
  INITIAL_SIZE = 2
  MemoryLimit = 32
  NULL = NULL
PROPERTIES
  ImplementsDictionary
