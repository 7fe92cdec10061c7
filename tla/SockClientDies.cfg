SPECIFICATION Spec
CONSTANTS
  MaxConns = 2
  MaxCalls = 1
  MaxFd = 3
  Kinds = {"ok"}
  ClosePoints = {"waiting"}
  AppOpens = FALSE
  PoolSize = 1
  MaxStops = 0
  AcceptMayFail = FALSE
INVARIANTS
  ClientCloseDetected
CHECK_DEADLOCK FALSE
