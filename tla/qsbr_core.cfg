SPECIFICATION FairSpec
CONSTANTS
  Threads = {t1, t2}
  Objects = {1, 2, 3, 4}
  Threshold = 2
  Word = 16
  NULL = NULL
INVARIANTS
  TypeOK
  ChainIntact
  NeverCrashes
  PruneCursorsLive
  LengthAccounts
  StampsProtect
  AllReclaimed
PROPERTIES
  OperationsFinish
CONSTRAINT InOrder
CHECK_DEADLOCK FALSE
