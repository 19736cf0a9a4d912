SPECIFICATION FairSpec
CONSTANTS
  Keys = {7, 8, 14, 23, 24, 39}
  Values = {v}
  Hash <- MixedHash
  SLOTSIZE = 3
  HOP_RANGE = 24
  INITIAL_SIZE = 2
  MemoryLimit = 16
  NULL = NULL
INVARIANTS
  TypeOK
  HopInfoExact
  SizeExact
  AssertsHold
  ExtendsOnlyIfCrowded
PROPERTIES
  ImplementsDictionary
  InsertReturns
CHECK_DEADLOCK FALSE
