SPECIFICATION Spec
CONSTANTS
  Threads = {t1, t2}
  Objects = {o1, o2, o3}
  Threshold = 2
  Word = 16
  NULL = NULL
INVARIANTS
  GuardedRefsLive
CHECK_DEADLOCK FALSE
