---------------------------- MODULE MCControllers ----------------------------
(***************************************************************************)
(* The controllers that share no state with another one, for TLC: those of *)
(* CodeControllers and JobControllers, and the one of the Management       *)
(* Center.                                                                 *)
(***************************************************************************)
EXTENDS CodeControllers, JobControllers

CONSTANTS
    CenterSpecs, Edits, OpenShift, Lagging, CenterEvents,  \* of ManagementCenter
    w1, m1, m2

\* Backups succeed, also while one is restored from, or fail.
MCCourses == {[outcome |-> "Success", restored |-> 0], [outcome |-> "Success", restored |-> 1],
              [outcome |-> "Failure", restored |-> 0]}

MCCronEvents == [c \in MCCourses |-> IF c.outcome = "Success" /\ c.restored = 0 THEN 1 ELSE 0]

\* The one WanSync is for both maps.
MCMapsOf == [s \in {w1} |-> {m1, m2}]

MCReady == {{m1}, {m1, m2}}

MCSyncEvents == [r \in MCReady |-> IF r = {m1} THEN 1 ELSE 0]

MCCenterSpecs == {[ldap |-> n, conn |-> n] : n \in 0..2}

\* The provider and the connectivity are added, changed and taken out again.
MCEdits == [s \in MCCenterSpecs |-> {t \in MCCenterSpecs : t.ldap = (s.ldap + 1) % 3}]

MCLagging == {{"service"}, {"ingress"}}

----------------------------------------------------------------------------
Center == INSTANCE ManagementCenter WITH
    mc <- object, unsure <- flag,
    children <- v1, sts <- v2, stsCache <- v3, ldap <- v4, childCache <- v5,
    Specs <- CenterSpecs, MaxEvents <- CenterEvents

CenterStep(A) == which = "center" /\ A /\ UNCHANGED which

Init ==
    \/ CodeInit \/ JobInit
    \/ which = "center" /\ Center!Init

Next ==
    \/ SnapshotStep(Snapshot!Next)
    \/ CronStep(Cron!Next)
    \/ SyncStep(Sync!Next)
    \/ CenterStep(Center!Next)
    \/ NamespaceStep(Namespace!Next)

\* The worker takes what is queued and goes on.
Worker ==
    \/ SnapshotStep(Snapshot!Worker)
    \/ CronStep(Cron!Worker)
    \/ SyncStep(Sync!Worker)
    \/ CenterStep(Center!Worker)
    \/ NamespaceStep(Namespace!Worker)

\* The caches follow the API server.
Caches ==
    \/ SnapshotStep(Snapshot!SyncCache)
    \/ CronStep(Cron!SyncCache \/ Cron!SyncBackups)
    \/ SyncStep(Sync!World)
    \/ CenterStep(Center!Caches)
    \/ NamespaceStep(Namespace!SyncCache)

\* Goroutines run, and the backups, the pods and the cluster make progress.
Progress ==
    \/ SnapshotStep(Snapshot!Task)
    \/ CronStep(Cron!HotBackups)
    \/ SyncStep(Sync!Service)
    \/ CenterStep(Center!PodStart)
    \/ NamespaceStep(Namespace!HazelcastStarts)

FairSpec ==
    /\ Init /\ [][Next]_vars
    /\ WF_vars(Worker) /\ WF_vars(Caches) /\ WF_vars(Progress)

----------------------------------------------------------------------------
Converged ==
    CASE which = "snapshot" -> Snapshot!Settled
      [] which = "cron" -> Cron!CronHasSpec
      [] which = "sync" -> Sync!Settled
      [] which = "center" -> Center!Converged /\ Center!LdapOfSpec
      [] which = "namespace" -> Namespace!Converged

\* Once the user stops and the calls no longer fail, no goroutine is left and what
\* is deleted goes, and the controllers bring the system where the spec wants it:
\* the cron has the schedule, the Management Center runs with its children and its
\* security provider, the bundle is on the members.  A snapshot and the maps of a
\* WanSync, which are tried once, get there if no call failed before; the other
\* exceptions the code makes are named at each of the definitions (Reconcile and
\* the requeue results of each).
Converges == <>[]Converged

============================================================================
