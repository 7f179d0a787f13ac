SPECIFICATION MCSpec
CONSTANTS
  q1 = q1
  q2 = q2
  k1 = k1
  Null = Null
  Absent = Absent
  Throws = Throws
  Malformed = Malformed
  Undefined = Undefined
  Universe <- MCUniverse
  FeePpk <- MCFee
  Staleness <- MCStaleness
  UnitKeysets = {"old", "new", "odd"}
  Targets = {0, 1, 2, 3, 5, 7, 10}
  Largest = 4
  MaxTrials = 2
  QuoteIds = {q1, q2}
  Advertised = {"bolt11", "bolt12"}
  Sizes = {1, 2}
  LargestPaid = 2
  MaxBatch = 1
  Msats = {1000, 1001, 2000}
  Keyed = {k1}
  LockKeys <- MCLock
  RefundKeys <- MCRefund
  Thresholds = {Null, 2}
  Locktimes = {Null, 1}
  Latest = 1
  MaxSlots = 11
  MaxAmount = 63
  MaxSafe = 15
  MaxSplitOutputs = 8
  MaxFeeSteps = 8
  MaxInfoList = 2
  DefaultArrayLength = 3
  LargestArrayLength = 4
  LargestBatMint = 4
  LargestBatch = 4
  Byte = 12
  Short = 4
  MaxDepth = 6
  ShortId = 2
  FullId = 3
  KeyOctets = 2
  CreqLimit = 130
  ProfileLimit = 100
INVARIANT RefundIsAPath
CHECK_DEADLOCK FALSE
