--------------------------- MODULE JobControllers ---------------------------
(***************************************************************************)
(* The controllers that let a job in memory do their work: the cron that   *)
(* creates backups, and the goroutines that synchronize the maps of a      *)
(* WanReplication.                                                         *)
(***************************************************************************)
EXTENDS ControllerState, Naturals

CONSTANTS
    CronEvents, SyncEvents,  \* how many edits, failed calls and restarts each
                             \* one meets
    Courses, MaxBackups, SuccessfulLimit, FailedLimit,      \* of CronHotBackup
    Syncs, Maps, MapsOf, Ready, MaxWaiting                  \* of WanSync

ASSUME CronAssumption ==
    MaxBackups \in Nat /\ SuccessfulLimit \in Nat /\ FailedLimit \in Nat

ASSUME CoursesAssumption ==
    \A c \in Courses : c.outcome \in {"Success", "Failure"}

ASSUME SyncAssumption ==
    Syncs # {} /\ Maps # {} /\ MapsOf \in [Syncs -> SUBSET Maps]

Cron == INSTANCE CronHotBackup WITH
    chb <- object, mixed <- flag,
    backups <- v1, listed <- v2, entries <- v3, scheduled <- v4, course <- v5,
    MaxEvents <- CronEvents

Sync == INSTANCE WanSync WITH
    ws <- object, queue <- queued, synced <- flag,
    wr <- v1, ready <- v2, requests <- v3, waiting <- v4, job <- v5,
    MaxEvents <- SyncEvents

CronInit == which = "cron" /\ Cron!Init
SyncInit == which = "sync" /\ Sync!Init

\* A step of the controller of this behaviour.
CronStep(A) == which = "cron" /\ A /\ UNCHANGED which
SyncStep(A) == which = "sync" /\ A /\ UNCHANGED which

JobInit == CronInit \/ SyncInit
JobNext == CronStep(Cron!Next) \/ SyncStep(Sync!Next)
JobSpec == JobInit /\ [][JobNext]_vars

----------------------------------------------------------------------------
(* The properties of the controllers, in their behaviours.                 *)

\* The cron has one entry at most for an object, the one that its map of
\* entries knows, and none for an object that is gone (updateSchedule,
\* removeSchedule).
NoLeakedEntry == which = "cron" => Cron!NoLeakedEntry

\* Either history loses its oldest backups only: one that the clean-up deletes has
\* as many newer ones as the limit says that the clean-up spares, and is not the
\* one that is restored from (cleanupResources, deleteHotBackupHistory).
KeepsNewest == which = "cron" => Cron!KeepsNewest

\* A map is Completed only when all members have synchronized it, and an object
\* only when its maps are (waitWanSyncToFinish, updateWanSyncMapStatus).
CompletedIsSynced == which = "sync" => Sync!CompletedIsSynced

============================================================================
