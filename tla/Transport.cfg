SPECIFICATION MCSpec
CONSTANTS
  q1 = q1
  q2 = q2
  Null = Null
  Absent = Absent
  Throws = Throws
  CallOptions <- MCCallOptions
  GlobalOptions <- MCGlobalOptions
  MaxCachedRetries = 3
  BaseDelay = 1
  MaxDelay = 2
  SlowClock = 2
  Infinite = 99
  Waits = {w1, w2}
  Quotes = {q1, q2}
  Calls <- MCCalls
  MaxUpdates = 4
  Buffers = {1, 2, 5}
  Items = 5
  Limits = {1, 3}
INVARIANTS ExecutedOnce NothingLeftBehind FailsWithTheLast NothingIsSkipped
PROPERTIES NoReadLeftBehind AbortIsFinal TimedRequestsSettle StreamsEnd PoolStopsOnFailure
CHECK_DEADLOCK FALSE
