SPECIFICATION Spec
CONSTANTS
  MaxConns = 2
  MaxCalls = 2
  MaxFd = 2
  Kinds = {"ok", "badsize"}
  ClosePoints = {"idle", "half", "waiting"}
  AppOpens = FALSE
  Workers = {w1, w2}
  MaxChunks = 2
  StopCalls = FALSE
  SizeAlone = FALSE
SYMMETRY WorkerSymmetry
INVARIANTS
  ChannelsMatchPoll
  WriteWatchExact
  HighestCoversSets
  WritesReachOwn
PROPERTIES
  KeepsContract
CHECK_DEADLOCK FALSE
