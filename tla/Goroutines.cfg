SPECIFICATION EitherFairSpec
CONSTANTS
    Members = {m1, m2}
    Kinds = {TRUE, FALSE}
    NoTaskLimit = 1
    MaxFaults = 1
    JetEvents = 2
    JetRuns = 1
    JetCalls = 1
    UserStates = {"Running", "Suspended"}
    HzCourse <- MCCourse
INVARIANTS
    SuccessIsComplete
    InterruptedOnce
    NoUploadLeft
    JobGoneIsStopped
    CheckerRuns
PROPERTIES
    FailureEnds
    JobObeyed
CHECK_DEADLOCK FALSE
