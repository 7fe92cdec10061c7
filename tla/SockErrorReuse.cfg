SPECIFICATION LiveSpec
CONSTANTS
  MaxConns = 1
  MaxCalls = 2
  MaxFd = 3
  Kinds = {"nomethod"}
  ClosePoints = {}
  AppOpens = FALSE
  PoolSize = 1
  MaxStops = 0
  AcceptMayFail = FALSE
PROPERTIES
  ErrorEndsConnection
CHECK_DEADLOCK FALSE
