CONSTANTS
    Specs <- KindSpecs
    MaxSize = 1
    MaxEdits = 0
    MaxMishaps = 1
    Dependents = {}
    Lagging = {"ClusterRole"}
    Deleted = TRUE
    Map = Map
SPECIFICATION AllSpec
INVARIANTS GoneIsCleanedUp
PROPERTIES Converges
CHECK_DEADLOCK FALSE
