SPECIFICATION Spec
CONSTANTS
  W = 8
  SLOTSIZE = 5
  SIZES <- Sizes
INVARIANTS
  WalkInStep
  MissIsComplete
  BitcountCounts
PROPERTIES
  WordsAreSets
