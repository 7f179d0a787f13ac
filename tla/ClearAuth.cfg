SPECIFICATION FairClearSpec
CONSTANTS
  Providers = {p1}
  CatCallers = {c1, c2}
  Wired = TRUE
  MaxSessions = 2
  MaxRotations = 2
  MaxPolls = 2
  Undefined = Undefined
INVARIANTS RefreshTokenSpentOnce CancelStopsPolling
PROPERTIES EveryEnsureReturns
CHECK_DEADLOCK FALSE
