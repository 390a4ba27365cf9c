SPECIFICATION Spec
CONSTANTS
    Node <- RingNode
    Link <- Ring
    Name = {"a"}
    OwnerOf <- Two
    Workloads <- IPWorkloads
    Schedules <- IPSchedules
    Forwarding = {"distributed", "sdn-centralized"}
    Destinations <- Ends
    RoutesOf <- IPRoutes
    EmptyTable <- NoEntry
    Rtt = 3
    ProcessingDelay = 0
    RequestService = 1
    DataService = 2
    LinkRecord <- LossyLink
    Horizon = 60
INVARIANTS
    OnePacketPerRequest
    DeadHopsOnlyWhileStale
    HopsBounded
PROPERTIES
    ImplementsControlPlane
    EngineReturns
CHECK_DEADLOCK FALSE
