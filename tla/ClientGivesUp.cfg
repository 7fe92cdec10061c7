SPECIFICATION Spec
CONSTANTS
  Upper <- MCUpper
  Hash <- MCHash
  IntBits = 4
  MaxConns = 2
  MaxCalls = 2
  MaxDeaths = 0
  MaxTry = 8
  SigPipe = FALSE
  ClientDef <- MCClientDef
  ServerDefs <- MCServerDefs
INVARIANTS
  GivesUpInTime
CHECK_DEADLOCK FALSE
