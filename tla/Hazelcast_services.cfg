CONSTANTS
    Specs <- ScaledSpecs
    MaxSize = 2
    MaxEdits = 1
    MaxMishaps = 0
    Dependents = {}
    Lagging = {}
    Deleted = FALSE
SPECIFICATION FairSpec
PROPERTIES UnusedServicesDeleted
CHECK_DEADLOCK FALSE
