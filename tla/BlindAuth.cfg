SPECIFICATION FairSpec
CONSTANTS
  Callers = {1, 2, 3}
  Ensurers = {e1}
  Sizes = {3}
  Foreign = {f1}
  Target = 2
  MaxPerMint = 2
  MaxImports = 2
  MintMaxes = {0, 5}
  None = None
INVARIANTS ServedOnce PoolWithinTarget
PROPERTIES EveryCallAnswered
CHECK_DEADLOCK FALSE
