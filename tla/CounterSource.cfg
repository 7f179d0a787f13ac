SPECIFICATION FairSpec
CONSTANTS
  k1 = k1
  k2 = k2
  NoCall = NoCall
  Keysets = {k1, k2}
  Calls = {c1, c2, c3}
  Requests <- RequestsOnBoth
  Initial <- InitialCursors
INVARIANTS MutualExclusion RangesInCallOrder
PROPERTIES AtomicCounters EveryCallSettles
CHECK_DEADLOCK FALSE
