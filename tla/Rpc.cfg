SPECIFICATION LiveSpec
CONSTANTS
  Upper <- MCUpper
  Hash <- MCHash
  IntBits = 4
  MaxConns = 3
  MaxCalls = 2
  MaxDeaths = 1
  MaxTry = 1
  SigPipe = TRUE
  ClientDef <- MCClientDef
  ServerDefs <- MCServerDefs
INVARIANTS
  TypeOK
  InStep
  AtMostOnce
  OutcomeTrue
  ErrorsJustified
  BoundByName
PROPERTIES
  CallEnds
CHECK_DEADLOCK FALSE
