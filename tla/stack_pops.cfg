SPECIFICATION FairSpec
CONSTANTS
  N = 2
  MaxPush = 4
  MaxPop = 3
  Pushers = {1}
  Overlap <- Pops
  Spare = 2
  Survivor = 2
INVARIANTS
  OnlyEmptyPopCrashes
  HeldCovered
  EarlierOpsDone
PROPERTIES
  DescriptorsKept
  AtomicLifo
  WaitFree
CHECK_DEADLOCK FALSE
