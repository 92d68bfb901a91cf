CONSTANTS
    None <- Absent
    Canon <- Lower
    Event <- MCEvents
    MaxEvents = 4
SPECIFICATION Spec
CHECK_DEADLOCK FALSE
INVARIANTS TypeOK EndpointsKnown EdgesWithinNodes AttributionExact
    LateralMovementFound SplitKeepsGraph
