SPECIFICATION Spec
CONSTANTS
    Node <- MCNode
    Link <- MCLink
    Table <- MCTable
    EmptyTable <- EmptyRoutes
    Forwarding = {"sdn-centralized"}
    RoutesOf <- MCRoutes
    Rtt = 2
    Schedules <- MCSchedules
    Horizon = 7
PROPERTY InstallAfterRtt
CHECK_DEADLOCK FALSE
