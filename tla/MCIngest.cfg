CONSTANTS
    Line <- MCLine
    Files <- MCFiles
    Correlate <- MCCorrelate
    Detect <- MCDetect
    AlertGraph <- MCAlertGraph
    AlertNode <- MCAlertNode
    Score <- MCScore
    None <- Absent
    Canon <- Lower
    Rules <- MCRules
    Matches <- MCMatches
    Field <- MCField
    Missing <- Absent
    Centrality <- MCCentrality
    SqlLower <- Lower
    MinWindow = 0
    Margin = 0
    EventLimit = 3
    MaxIngests = 3
    MaxCrashes = 2
SPECIFICATION Spec
INVARIANTS TypeOK NoDanglingEdges EventIdsContiguous NeverFails AlertsBacked
    CompletedIngestKept RiskCurrentWhenDone ServedIsStored
    AlertShowsItsLines EvidenceFound AlertedRank
PROPERTIES IntervalsOnlyWiden KeepsPromises
