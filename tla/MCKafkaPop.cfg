SPECIFICATION FairSpec
CONSTANTS
  p1 = p1
  p2 = p2
  p3 = p3
  s1 = s1
  s2 = s2
  k1 = k1
  k2 = k2
  c1 = c1
  c2 = c2
  c3 = c3
  Calls <- MCCalls
  Keys <- MCKeys
  Clients <- MCClients
  Shutdowns <- MCShutdowns
  MaxConsumers = 1
  MaxCloseWorkers = 1
  None = None
ACTION_CONSTRAINT ArrivalOrder
INVARIANTS
  Serialized
  NoUseAfterClose
  IdleTimersExact
PROPERTIES
  ShutdownReturns
  QueuedCallServed
CHECK_DEADLOCK FALSE
