CONSTANTS
  NumEvents = 6
  Size <- MCSize
  MaxPending = 4
  MaxBatch = 4
  Callers = {"caller"}
SPECIFICATION FairSpec
INVARIANTS EventsAccounted CloseDelivers
PROPERTIES CloseReturns EventsDelivered
CHECK_DEADLOCK FALSE
