SPECIFICATION Spec
CONSTANTS
    Consumer = {c}
    Name = {n}
    Workloads <- MCWorkloads
    Lifetime = 3
    MaxRetransmissions = 2
    Horizon = 13
INVARIANTS
    TypeOK
    ResolvedOnce
    OneLiveTimeout
PROPERTIES
    GivenUpAtDeadline
    AllResolved
CHECK_DEADLOCK FALSE
