CONSTANTS
    Id = {"n1", "n2"}
    Window = {}
    AllTime = AllTime
    HopInput = {}
    Direction = {"both"}
    Both = "both"
    Near <- MCNear
    OnPath <- MCNoPath
    Attack <- MCNoAttack
    TopRisk = {}
    MaxRequests = 20
    Span <- MCSpan
    Pad = 1
    Tolerance = 1
    Stops = {5, 9, 10, 14, 19}
    MaxActs = 3
SPECIFICATION ScrubberSpec
CHECK_DEADLOCK FALSE
INVARIANT ScrubberInv
PROPERTIES RangeNeverNarrows Settles
