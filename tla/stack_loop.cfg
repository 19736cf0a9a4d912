SPECIFICATION WorkSpec
CONSTANTS
  N = 2
  Tries = 1
  MaxPush = 2
  MaxPop = 2
  Pushers = {1, 2}
  Overlap <- PushesAndPops
  Spare = 0
  Survivor = 2
INVARIANTS
  NoLoop
CHECK_DEADLOCK FALSE
