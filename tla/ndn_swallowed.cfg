SPECIFICATION Spec
CONSTANTS
    Node <- ThreeNodes
    Link <- Star
    Name = {a, b}
    OwnerOf <- Two
    Workloads <- TransientWorkloads
    Schedules <- TransientSchedules
    Forwarding = {"best-route"}
    RoutesOf <- MCRoutes
    EmptyTable <- NoEntry
    Lifetime = 12
    MaxRetransmissions = 1
    PitCapacity = 2
    CacheSize = 0
    Rtt = 0
    CacheTtl = 0
    AdmitThreshold = 1
    CacheTopK = 0
    CachePlacement = "near-producer"
    LearnPercent = 30
    LinkRecord <- Lossless
    InterestService = 1
    DataService = 2
    ProcessingDelay = 0
    VerificationDelay = 0
    VerifyData = FALSE
    InvalidRate = FALSE
    Horizon = 40
PROPERTIES
    RetransmissionRecovers
CHECK_DEADLOCK FALSE
