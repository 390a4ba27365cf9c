SPECIFICATION Spec
CONSTANTS
    Node <- KiteNode
    Link <- Kite
    Name = {a, b}
    OwnerOf <- Two
    Workloads <- FloodWorkloads
    Schedules <- FloodSchedules
    Forwarding = {"flooding", "probabilistic"}
    RoutesOf <- MCRoutes
    EmptyTable <- NoEntry
    Lifetime = 8
    MaxRetransmissions = 1
    PitCapacity = 2
    CacheSize = 2
    Rtt = 0
    CacheTtl = 0
    AdmitThreshold = 1
    CacheTopK = 0
    CachePlacement = "near-producer"
    LearnPercent = 30
    LinkRecord <- Lossless
    InterestService = 1
    DataService = 2
    ProcessingDelay = 0
    VerificationDelay = 1
    VerifyData = TRUE
    InvalidRate = TRUE
    Horizon = 40
INVARIANTS
    FlowBalance
    NoStorm
PROPERTY EngineReturns
CHECK_DEADLOCK FALSE
