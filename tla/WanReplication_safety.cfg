CONSTANTS
    Wans = {w1}
    m1 = m1
    Maps = {m1}
    Specs <- HzSpecs
    MaxEdits = 1
    MaxFaults = 1
    MaxCrashes = 1
    MapsDeleted = TRUE
    WansDeleted = TRUE
SPECIFICATION Spec
PROPERTIES NeverForgotten StoppedBeforeReleased
CHECK_DEADLOCK FALSE
