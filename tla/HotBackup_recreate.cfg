SPECIFICATION Spec
CONSTANTS
    Backups = {b1}
    MaxUid = 2
    MaxEdits = 0
    MaxFaults = 1
    MaxCrashes = 0
    Webhook = FALSE
INVARIANTS
    TypeOK
    WorksForExistingObject
    SuccessIsBackedUp
    Inv
    PassiveWhenTriggered
CHECK_DEADLOCK FALSE
