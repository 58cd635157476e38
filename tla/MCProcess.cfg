SPECIFICATION Spec
CONSTANTS
    r1 = r1
    r2 = r2
    Requests <- MCRequests
    Kinds <- MCKinds
    MaxConcurrentRequests = 1
    TransferIdleTimeout = 2
    AdminLoginReadTimeout = 1
    ReadTimeout = 0
    WriteTimeout = 0
    ReadinessCacheTTL = 1
    ReadinessCheckTimeout = 1
    ShutdownTimeout = 1
ACTION_CONSTRAINT Arrivals
INVARIANTS
    OnlyIdleCut
    ClientsClosedInTime
    NotReadyMeansOutage
PROPERTIES
    EveryRequestEnds
    ProcessExits
CHECK_DEADLOCK FALSE
