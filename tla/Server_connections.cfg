SPECIFICATION FairSpec
CONSTANTS
  Concurrencies <- OneOrTwo
  Conns <- TwoConns
  MaxInputs <- Inputs
  Timeout = 1
  Requests <- AllRequests
CHECK_DEADLOCK FALSE
INVARIANTS
  TypeOK
  OneDeadline
  ReadOnce
  NotTimedWhileHandled
  SpreadEvenly
PROPERTIES
  
  StopEnds
