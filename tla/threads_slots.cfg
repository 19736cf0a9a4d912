SPECIFICATION Spec
CONSTANTS
  Pthreads = {p1, p2, p3, p4}
  THREAD_MAX = 3
  Tries = 3
INVARIANTS
  SlotsAreOwned
  FirstStackNeverAborts
CHECK_DEADLOCK FALSE
