CONSTANTS
    Rules <- MCRules
    Matches <- MCMatches
    Field <- MCField
    Missing <- Absent
    Event <- MCEvents
    MaxEvents = 4
SPECIFICATION Spec
CHECK_DEADLOCK FALSE
INVARIANTS Inv BurstsExact ChainsExact
