SPECIFICATION Spec
CONSTANTS
  MaxConns = 3
  MaxCalls = 2
  MaxFd = 2
  Kinds = {"ok"}
  ClosePoints = {"half", "waiting", "stuck"}
  AppOpens = FALSE
  PoolSize = 1
  MaxStops = 2
  AcceptMayFail = TRUE
INVARIANTS
  DestroyedQuiet
PROPERTIES
  KeepsContract
CHECK_DEADLOCK FALSE
