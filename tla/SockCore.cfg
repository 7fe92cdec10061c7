SPECIFICATION LiveSpec
CONSTANTS
  MaxConns = 3
  MaxCalls = 1
  MaxFd = 3
  Kinds = {"ok", "nomethod", "badsize"}
  ClosePoints = {"idle", "stuck"}
  AppOpens = FALSE
  PoolSize = 2
  MaxStops = 0
  AcceptMayFail = FALSE
INVARIANTS
  TypeOK
  LiveThreadsBounded
  ThreadOwnsSocket
  UnansweredNotExecuted
  NoCrash
  StuckOnlyByEviction
PROPERTIES
  EvictionEnds
  WaitEnds
CHECK_DEADLOCK FALSE
