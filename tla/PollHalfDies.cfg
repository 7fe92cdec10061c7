SPECIFICATION LiveSpec
CONSTANTS
  MaxConns = 1
  MaxCalls = 1
  MaxFd = 2
  Kinds = {"ok"}
  ClosePoints = {"half"}
  AppOpens = FALSE
  Workers = {w1, w2}
  MaxChunks = 2
  StopCalls = FALSE
  SizeAlone = FALSE
PROPERTIES
  ClientCloseNoticed
CHECK_DEADLOCK FALSE
