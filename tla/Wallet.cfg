SPECIFICATION MCSpec
CONSTANTS
  Ops = {o1, o2, o3}
  Requests <- MixedRequests
  Bumps = {2, 5}
  MaxCrashes = 2
  Null = Null
  Absent = Absent
  MaxSafe = 15
  Transactions = {t1, t2}
  Options <- MCOptions
  Keys = {1, 2, 4, 8}
  InputFeePpk = 500
  SendAmounts = {3}
  QuoteAmounts = {1}
  Stored <- MCStored
  Token <- MCToken
  GapLimit = 3
  BatchSize = 2
  PoolSize = 2
  MaxAmount = 15
  MaxSplitOutputs = 8
  MaxFeeSteps = 8
  Throws = Throws
  None = None
SYMMETRY WalletSymmetry
INVARIANTS NoCounterReuse AutomaticIsSaved NothingIsLost ProofsAreReal ChangeIsWhole
CHECK_DEADLOCK FALSE
