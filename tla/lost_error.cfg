SPECIFICATION Spec
CONSTANTS
    p1 = p1
    p2 = p2
    Page = {p1}
    Forms <- FailingForms
    Malformed <- MCMalformed
    MaxNodes = 6
    MaxCombos = 4
    PrefixCount = 3
    MaxJobs = 1
    MaxCreated = 1
    MaxRestarts = 0
    MaxBlips = 0
INVARIANT FailureIsReported
CHECK_DEADLOCK FALSE
