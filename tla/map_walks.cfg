SPECIFICATION Spec
CONSTANT SIZE = 6
INVARIANTS
  DereferencesLive
  WalksComplete
