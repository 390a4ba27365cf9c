SPECIFICATION Spec
CONSTANTS
    Key = {a, b, c}
    Settings <- MCSettings
    MaxCalls = 6
    Horizon = 3
    NoAnswer = NoAnswer
SYMMETRY KeySymmetry
INVARIANTS
    Bookkeeping
    VictimByPolicy
PROPERTY ImplementsStore
CHECK_DEADLOCK FALSE
