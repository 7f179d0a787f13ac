SPECIFICATION ClearSpec
CONSTANTS
  Providers = {p1}
  CatCallers = {c1}
  Wired = FALSE
  MaxSessions = 2
  MaxRotations = 1
  MaxPolls = 1
  Undefined = Undefined
INVARIANTS LoggedOutStaysOut
CHECK_DEADLOCK FALSE
