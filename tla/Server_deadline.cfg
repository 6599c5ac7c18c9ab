SPECIFICATION Spec
CONSTANTS
  Concurrencies <- One
  Conns <- TwoConns
  MaxInputs <- OneInput
  Timeout = 1
  Requests <- PlainRequests
CHECK_DEADLOCK FALSE
INVARIANT
  WaitingHasDeadline
