SPECIFICATION Spec
CONSTANTS
    Ranks = {1, 2, 3}
    Arrays = {"a", "b"}
    Comms = {0, 1, 2, 3}
    World = 0
    Members <- MCMembers
    MinTag = 0
    MaxTag = 1
    Programs <- MCPrograms
    NoData = NoData
INVARIANTS
    TypeOK
    RightData
PROPERTIES
    AllDone
CHECK_DEADLOCK FALSE
