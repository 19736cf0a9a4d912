SPECIFICATION Spec
CONSTANTS
  Maps = {x, y}
  TEMP = temp
  Arrays = {a1, a2, a3, a4}
  Keys = {k1, k2, k3}
  Values = {v1, v2}
  INITIAL_SIZE = 1
  MaxSize = 8
  NULL = NULL
SYMMETRY Symmetry
INVARIANTS
  OwnsArray
  ArraysReclaimed
  OnlyKnownFaults
PROPERTIES
  ImplementsValues
  UndestroyedAreCopies
CHECK_DEADLOCK FALSE
