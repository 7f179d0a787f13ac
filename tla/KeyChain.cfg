SPECIFICATION Spec
CONSTANTS
  a = a
  b = b
  Ids = {a, b}
  Unit = {a, b}
  Rank <- ByName
  Implicit = {i1, i2}
  Explicit = {e1}
  AppLoads = {l1}
  FirstLoads <- Loads
  MaxCalls = 2
  MaxChanges = 1
  None = None
SYMMETRY CallSymmetry
INVARIANTS RepairsAreShared SavedIsCurrent
PROPERTIES HeldKeysAreKept
CHECK_DEADLOCK FALSE
