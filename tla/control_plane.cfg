SPECIFICATION Spec
CONSTANTS
    Node <- MCNode
    Link <- MCLink
    Table <- MCTable
    EmptyTable <- EmptyRoutes
    Forwarding = {"best-route", "sdn-centralized"}
    RoutesOf <- MCRoutes
    Rtt = 2
    Schedules <- MCSchedules
    Horizon = 7
INVARIANTS
    TypeOK
    LastIsCurrent
    BoundedStaleness
    ControlCost
PROPERTY EventuallyConverged
CHECK_DEADLOCK FALSE
