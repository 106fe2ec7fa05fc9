CONSTANTS
    Wans = {w1}
    m1 = m1
    Maps = {m1}
    Specs <- MapSpecs
    MaxEdits = 2
    MaxFaults = 1
    MaxCrashes = 0
    MapsDeleted = FALSE
    WansDeleted = TRUE
SPECIFICATION FairSpec
PROPERTIES DeletionCompletes SuccessIsPersistedInTheEnd
CHECK_DEADLOCK FALSE
