SPECIFICATION Spec
CONSTANTS
  MaxConns = 2
  MaxCalls = 1
  MaxFd = 1
  Kinds = {"ok", "nomethod"}
  ClosePoints = {"half", "waiting"}
  AppOpens = TRUE
  Workers = {w1, w2}
  MaxChunks = 2
  StopCalls = FALSE
  SizeAlone = TRUE
SYMMETRY WorkerSymmetry
INVARIANTS
  TypeOK
  
CHECK_DEADLOCK FALSE
