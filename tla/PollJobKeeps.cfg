SPECIFICATION Spec
CONSTANTS
  MaxConns = 1
  MaxCalls = 1
  MaxFd = 2
  Kinds = {"ok"}
  ClosePoints = {"waiting"}
  AppOpens = FALSE
  Workers = {w1, w2}
  MaxChunks = 2
  StopCalls = FALSE
  SizeAlone = FALSE
SYMMETRY WorkerSymmetry
INVARIANTS
  JobKeepsChannel
CHECK_DEADLOCK FALSE
