CONSTANTS
    Node <- MCNode
    Edge <- MCEdge
    Type = {"Started", "Spawned", "RanAs", "ConnectedTo"}
    Asked = {"a", "d", "nobody"}
    DirInput = {"out", "in", "sideways"}
    TypesInput <- MCTypes
    TimeInput <- MCTime
    HopInput <- MCHops
    Missing = absent
    Far = 100
    MostHops = 3
SPECIFICATION TreeSpec
CHECK_DEADLOCK FALSE
INVARIANTS Inv AnswersExact ComponentsExact TreeSound
PROPERTY SearchEnds
