SPECIFICATION Spec
CONSTANTS
    p1 = p1
    p2 = p2
    Page = {p1, p2}
    Forms <- MCForms
    Malformed <- MCMalformed
    MaxNodes = 6
    MaxCombos = 4
    PrefixCount = 3
    MaxJobs = 1
    MaxCreated = 2
    MaxRestarts = 1
    MaxBlips = 1
INVARIANTS
    PublishedWhole
    
    SweepCoversRequest
PROPERTY PollingEnds
CHECK_DEADLOCK FALSE
