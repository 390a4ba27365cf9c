SPECIFICATION Spec
CONSTANTS
    Class <- MCClass
    Service <- MCService
    Extra <- MCExtra
    LinkRecord <- MCLink
    MaxSent = 6
    Horizon = 9
INVARIANTS
    OneInService
    BusyIsEarned
    QueueLimit
    OvertakenOnlyInProcessing
CHECK_DEADLOCK FALSE
