CONSTANTS
    Id = {"n1", "n2"}
    Window = {"w1"}
    AllTime = "all"
    HopInput <- MCHops
    Direction = {"both", "out"}
    Both = "both"
    Near <- MCNear
    OnPath <- MCOnPath
    Attack <- MCAttack
    TopRisk = {"n2"}
    MaxRequests = 2
SPECIFICATION Spec
INVARIANTS Inv CoherentWhenSequential
PROPERTY SpinnerEnds
