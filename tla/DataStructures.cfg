CONSTANTS
    Members = {m1, m2}
    MaxEdits = 1
    MaxMishaps = 1
    Deleted = TRUE
    Resync = TRUE
SPECIFICATION BothSpec
INVARIANTS BothAppliedOnMembers
PROPERTIES ImplementsAppliedConfig BothConverge
CHECK_DEADLOCK FALSE
