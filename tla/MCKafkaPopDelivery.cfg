SPECIFICATION DFairSpec
CONSTANTS
  p1 = p1
  p2 = p2
  c1 = c1
  c2 = c2
  Calls <- MCCalls
  Keys = {k1}
  Clients <- MCClients
  Shutdowns = {s1}
  MaxConsumers = 1
  MaxCloseWorkers = 1
  None = None
  MaxOffset = 2
ACTION_CONSTRAINT ArrivalOrder
PROPERTIES
  RefinesQueue
  BlockedRebalanceProceeds
CHECK_DEADLOCK FALSE
