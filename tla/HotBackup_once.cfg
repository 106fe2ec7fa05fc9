SPECIFICATION FairSpec
CONSTANTS
    Backups = {b1}
    MaxUid = 1
    MaxEdits = 1
    MaxFaults = 0
    MaxCrashes = 1
    Webhook = FALSE
INVARIANTS
    AtMostOneBackup
    PassiveIsExplained
PROPERTIES
    OutcomeIsFinal
    DeletionCompletes
CHECK_DEADLOCK FALSE
