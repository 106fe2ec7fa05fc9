CONSTANTS
    Wans = {w1}
    m1 = m1
    Maps = {m1}
    Specs <- MapSpecs
    MaxEdits = 0
    MaxFaults = 0
    MaxCrashes = 0
    MapsDeleted = FALSE
    WansDeleted = TRUE
SPECIFICATION Spec
INVARIANT NoFinalizerLeft
CHECK_DEADLOCK FALSE
