CONSTANTS
    Node <- MCNode
    Source = "s"
    Target = "d"
    Observation <- MCObservation
    Type = {"In", "To"}
    Windows <- MCWindows
    Risk <- MCRisk
    K = 3
SPECIFICATION Spec
CHECK_DEADLOCK FALSE
INVARIANT NothingMeansNoPath
