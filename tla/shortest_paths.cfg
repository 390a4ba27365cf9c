SPECIFICATION Spec
CONSTANTS
    Node <- MCNode
    Link <- MCLink
    Pairs <- MCPairs
    Delays <- MCDelays
INVARIANTS
    VisitedIsSettled
    TreeMatchesDistances
    BfsIsShortest
    HomogeneousAgreement
CHECK_DEADLOCK FALSE
