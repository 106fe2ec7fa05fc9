CONSTANTS
    w1 = w1
    m1 = m1
    m2 = m2
    Members = {x1, x2}
    SnapshotEvents = 1
    CronEvents <- MCCronEvents
    SyncEvents <- MCSyncEvents
    CenterEvents = 1
    NamespaceEvents = 2
    Versions = {1, 2}
    Courses <- MCCourses
    MaxBackups = 2
    SuccessfulLimit = 1
    FailedLimit = 0
    Syncs = {w1}
    Maps = {m1, m2}
    MapsOf <- MCMapsOf
    Ready <- MCReady
    MaxWaiting = 1
    CenterSpecs <- MCCenterSpecs
    Edits <- MCEdits
    OpenShift = TRUE
    Lagging <- MCLagging
SPECIFICATION FairSpec
INVARIANTS ExportedOnce NoLeakedEntry CompletedIsSynced SuccessIsEverywhere KeepsNewest
PROPERTIES Converges
CHECK_DEADLOCK FALSE
