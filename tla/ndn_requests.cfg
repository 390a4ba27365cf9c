SPECIFICATION Spec
CONSTANTS
    Node <- ThreeNodes
    Link <- Chain
    Name = {"a", "b"}
    OwnerOf <- Two
    Workloads <- ChainWorkloads
    Schedules <- ChainSchedules
    Forwarding = {"best-route", "probabilistic", "sdn-centralized"}
    RoutesOf <- MCRoutes
    EmptyTable <- NoEntry
    Lifetime = 9
    MaxRetransmissions = 1
    PitCapacity = 1
    CacheSize = 1
    Rtt = 3
    CacheTtl = 8
    AdmitThreshold = 1
    CacheTopK = 2
    CachePlacement = "near-consumer"
    LearnPercent = 70
    LinkRecord <- Lossy
    InterestService = 1
    DataService = 2
    ProcessingDelay = 0
    VerificationDelay = 0
    VerifyData = FALSE
    InvalidRate = FALSE
    Horizon = 40
INVARIANTS
    TypeOK
    HeapWellFormed
    PitBounded
    CacheWithinDirective
PROPERTIES
    ImplementsLifecycle
    ImplementsControlPlane
    LoneInterestProceeds
CHECK_DEADLOCK FALSE
