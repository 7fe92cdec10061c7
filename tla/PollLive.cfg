SPECIFICATION LiveSpec
CONSTANTS
  MaxConns = 2
  MaxCalls = 1
  MaxFd = 2
  Kinds = {"ok"}
  ClosePoints = {}
  AppOpens = FALSE
  Workers = {w1, w2}
  MaxChunks = 2
  StopCalls = TRUE
  SizeAlone = FALSE
INVARIANTS
  LockedIsOpen
PROPERTIES
  WaitEnds
  StopEnds
CHECK_DEADLOCK FALSE
