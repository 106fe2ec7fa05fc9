CONSTANTS
    Members = {m1, m2}
    MaxEdits = 1
    MaxMishaps = 0
    Deleted = FALSE
    Resync = TRUE
SPECIFICATION Spec
INVARIANTS SuccessIsOnMembers
CHECK_DEADLOCK FALSE
