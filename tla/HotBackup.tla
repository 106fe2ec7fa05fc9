----------------------------- MODULE HotBackup -----------------------------
(***************************************************************************)
(* The HotBackup controller: the single reconcile worker, the goroutine it *)
(* launches for each backup, the HotBackup objects at the API server and   *)
(* in the informer cache, and the Hazelcast cluster whose state the backup *)
(* switches.  All the objects name the same Hazelcast resource.            *)
(*                                                                         *)
(* One action is the code between two calls that leave the process (an API *)
(* write, a call to the cluster); whatever the reconciler keeps in memory  *)
(* is lost when the operator restarts.                                     *)
(***************************************************************************)
EXTENDS Naturals

CONSTANTS
    Backups,       \* the names of the HotBackup resources
    MaxUid,        \* how often a name may be created (each creation has a uid)
    MaxEdits,      \* how often users may edit the spec of one object
    MaxFaults,     \* how many API or cluster calls may fail
    MaxCrashes,    \* how often the operator may restart
    Webhook        \* whether the validating webhook server is set up

ASSUME ConstantsAssumption ==
    /\ Backups # {}
    /\ MaxUid \in Nat
    /\ MaxEdits \in Nat
    /\ MaxFaults \in Nat
    /\ MaxCrashes \in Nat
    /\ Webhook \in BOOLEAN

VARIABLES
    api,           \* the objects as the API server stores them
    cache,         \* the operator's informer cache of them
    created,       \* how often each name was created: the newest uid
    rec,           \* the worker: where it is, for which name, its copy hb
    cancelMap,     \* r.cancelMap: the uid whose context the entry cancels, or 0
    backup,        \* r.backup: the names locked by lockBackup
    cancelled,     \* the contexts that were cancelled, as <<name, uid>>
    task,          \* the backup goroutine of each <<name, uid>>
    launches,      \* history: the goroutines started for each <<name, uid>>
    backedUp,      \* history: the <<name, uid>> whose members all finished
    clusterState,  \* the state of the Hazelcast cluster
    hz,            \* the Hazelcast resource as the reconcilers see it
    statusService, \* whether the status service registry has the cluster
    referenced,    \* the names a Hazelcast resource restores from
    faults,        \* how many calls failed so far
    crashes        \* how often the operator restarted so far

kube  == <<api, cache, created>>
mem   == <<cancelMap, backup, cancelled>>
run   == <<task, launches, backedUp>>
env   == <<hz, statusService, referenced>>
count == <<faults, crashes>>
vars  == <<kube, rec, mem, run, clusterState, env, count>>

----------------------------------------------------------------------------
(* Objects.                                                                *)

Uids == 1..MaxUid

\* The annotation that no spec equals: LastSuccessfulSpecAnnotation is absent.
NoSpec == MaxEdits + 1

Running  == {"NotStarted", "InProgress"}

Finished == {"Failure", "Success"}

States == {"", "Pending"} \cup Running \cup Finished

\* uid 0 says that there is no object of that name.
Objects == [uid: 0..MaxUid, spec: 0..MaxEdits, ann: 0..NoSpec,
            state: States, deleting: BOOLEAN, fin: BOOLEAN]

\* Fault: a new object starts in HotBackupUnknown.
ObjectUnknown(u) == [uid |-> u, spec |-> 0, ann |-> NoSpec,
                     state |-> "Unknown", deleting |-> FALSE, fin |-> FALSE]

Object(u) == [uid |-> u, spec |-> 0, ann |-> NoSpec,
              state |-> "", deleting |-> FALSE, fin |-> FALSE]

Gone == Object(0)

Idle == [pc |-> "idle", name |-> CHOOSE b \in Backups : TRUE, hb |-> Gone]

RecPCs == {"idle", "finalizer", "delete", "hazelcast", "notStarted", "failure"}

TaskPCs == {"none", "inProgress", "prepare", "passive", "trigger", "activate",
            "abort", "wait", "transfer", "success", "fail", "done"}

\* The goroutine of <<b, u>> exists.
Live(b, u) == task[b][u] \notin {"none", "done"}

\* Between the switch to PASSIVE and the deferred switch to ACTIVE.
InStart(b, u) == task[b][u] \in {"trigger", "activate", "abort"}

Init ==
    /\ api = [b \in Backups |-> Gone]
    /\ cache = api
    /\ created = [b \in Backups |-> 0]
    /\ rec = Idle
    /\ cancelMap = [b \in Backups |-> 0]
    /\ backup = {}
    /\ cancelled = {}
    /\ task = [b \in Backups |-> [u \in Uids |-> "none"]]
    /\ launches = [b \in Backups |-> [u \in Uids |-> 0]]
    /\ backedUp = {}
    /\ clusterState = "ACTIVE"
    /\ hz = "Absent"
    /\ statusService = FALSE
    /\ referenced = {}
    /\ faults = 0 /\ crashes = 0

----------------------------------------------------------------------------
(* The API server, the informer cache and the users.                       *)

\* A call fails although nothing in the state makes it fail.
Fault == faults < MaxFaults /\ faults' = faults + 1

NoFault == UNCHANGED faults

\* An update of object b by a client whose copy is hb: the API server
\* rejects it with a conflict unless the copy is the stored version.
Conflict(b, hb) == hb # api[b]

\* A write loop under RetryOnConflict reads the object from the cache, so
\* it ends well only when the cache has the stored version, and ends with
\* the conflict when the cache lags through every retry.
CanRetryWrite(b) == cache[b] = api[b] /\ api[b].uid # 0

WriteState(b, s) ==
    /\ CanRetryWrite(b)
    /\ api' = [api EXCEPT ![b] = [@ EXCEPT !.state = s]]

\* What updateStatus(s) does: the state is written, or an error is returned.
UpdateStatusOk(b, s) == WriteState(b, s) /\ NoFault

UpdateStatusErr(b) ==
    /\ \/ ~CanRetryWrite(b) /\ NoFault
       \/ Fault
    /\ UNCHANGED api

Create(b) ==
    /\ api[b].uid = 0
    /\ created[b] < MaxUid
    /\ created' = [created EXCEPT ![b] = @ + 1]
    /\ api' = [api EXCEPT ![b] = Object(created[b] + 1)]
    /\ UNCHANGED <<cache, rec, mem, run, clusterState, env, count>>

Edit(b) ==
    /\ api[b].uid # 0
    /\ api[b].spec < MaxEdits
    /\ api' = [api EXCEPT ![b] = [@ EXCEPT !.spec = api[b].spec + 1]]
    /\ UNCHANGED <<cache, created, rec, mem, run, clusterState, env, count>>

\* ValidateDelete refuses the deletion of a referenced backup, where the
\* webhook runs.  An object without finalizer is removed at once.
Delete(b) ==
    /\ api[b].uid # 0 /\ ~api[b].deleting
    /\ Webhook => b \notin referenced
    /\ api' = [api EXCEPT ![b] = IF @.fin THEN [@ EXCEPT !.deleting = TRUE]
                                          ELSE Gone]
    /\ UNCHANGED <<cache, created, rec, mem, run, clusterState, env, count>>

CacheSync(b) ==
    /\ cache[b] # api[b]
    /\ cache' = [cache EXCEPT ![b] = api[b]]
    /\ UNCHANGED <<api, created, rec, mem, run, clusterState, env, count>>

HzPhases == {"Absent", "NotReady", "NoPersistence", "Running"}

\* The Hazelcast reconciler registers the status service before it reports
\* Running and drops it when the resource goes away.  "NoPersistence" is
\* Running without persistence in the last successful spec.
HazelcastChange(p) ==
    /\ p # hz
    /\ hz' = p
    /\ statusService' = CASE p = "Absent"   -> FALSE
                          [] p = "NotReady" -> statusService
                          [] OTHER          -> TRUE
    /\ UNCHANGED <<kube, rec, mem, run, clusterState, referenced, count>>

\* The first reconciliation of a running Hazelcast after a restart.
HazelcastRegister ==
    /\ hz \in {"NoPersistence", "Running"} /\ ~statusService
    /\ statusService' = TRUE
    /\ UNCHANGED <<kube, rec, mem, run, clusterState, hz, referenced, count>>

\* The client is disconnected: the service goes before the phase changes.
HazelcastDisconnect ==
    /\ statusService
    /\ statusService' = FALSE
    /\ UNCHANGED <<kube, rec, mem, run, clusterState, hz, referenced, count>>

Reference(b) ==
    /\ referenced' = (referenced \ {b}) \cup ({b} \ referenced)
    /\ UNCHANGED <<kube, rec, mem, run, clusterState, hz, statusService, count>>

----------------------------------------------------------------------------
(* Reconcile.                                                              *)

\* Fault: Reconcile relies on the state alone and not on checkBackup.
AfterFinalizerNoLock(b, hb) ==
    IF hb.deleting THEN IF hb.fin THEN "delete" ELSE "idle"
    ELSE IF hb.state \in Running \cup Finished \/ hb.ann = hb.spec
         THEN "idle" ELSE "hazelcast"

\* Fault: Reconcile does not ask whether the backup is finished.
AfterFinalizerNotFinished(b, hb) ==
    IF hb.deleting THEN IF hb.fin THEN "delete" ELSE "idle"
    ELSE IF hb.state \in Running \/ b \in backup \/ hb.ann = hb.spec
         THEN "idle" ELSE "hazelcast"

\* Fault: Reconcile returns for a running backup before it looks at deletion.
AfterFinalizerRunningFirst(b, hb) ==
    IF hb.state \in Running \/ b \in backup THEN "idle"
    ELSE IF hb.deleting THEN IF hb.fin THEN "delete" ELSE "idle"
    ELSE IF hb.state \in Finished \/ hb.ann = hb.spec THEN "idle" ELSE "hazelcast"

\* Where Reconcile goes once the finalizer is there: the early returns are
\* "idle", in the order of the code.
AfterFinalizer(b, hb) ==
    IF hb.deleting THEN IF hb.fin THEN "delete" ELSE "idle"
    ELSE IF \/ hb.state \in Running \/ b \in backup
            \/ hb.state \in Finished
            \/ hb.ann = hb.spec
         THEN "idle"
         ELSE "hazelcast"

\* The worker handles b and is at pc.
At(b, pc) == rec.pc = pc /\ rec.name = b

\* The worker goes on at pc with the copy hb, or is done with the request.
Goto(pc, b, hb) ==
    rec' = IF pc = "idle" THEN Idle ELSE [pc |-> pc, name |-> b, hb |-> hb]

\* The worker takes a request and reads the object from the cache.  A
\* reconciliation that returns without any effect is not a step.
Reconcile(b) ==
    /\ rec.pc = "idle"
    /\ cache[b].uid # 0
    /\ LET hb   == cache[b]
           next == IF ~hb.fin /\ ~hb.deleting THEN "finalizer"
                   ELSE AfterFinalizer(b, hb)
       IN next # "idle" /\ Goto(next, b, hb)
    /\ UNCHANGED <<kube, mem, run, clusterState, env, count>>

AddFinalizer(b) ==
    /\ At(b, "finalizer")
    /\ LET new == [rec.hb EXCEPT !.fin = TRUE]
       IN \/ /\ ~Conflict(b, rec.hb) /\ NoFault
             /\ api' = [api EXCEPT ![b] = new]
             /\ Goto(AfterFinalizer(b, new), b, new)
          \/ /\ (Conflict(b, rec.hb) /\ NoFault) \/ Fault
             /\ Goto("failure", b, rec.hb)
             /\ UNCHANGED api
    /\ UNCHANGED <<cache, created, mem, run, clusterState, env, crashes>>

\* executeFinalizer refuses: a Hazelcast resource restores from the backup.
RefuseDelete(b) ==
    /\ At(b, "delete") /\ b \in referenced
    /\ Goto("failure", b, rec.hb)
    /\ UNCHANGED <<kube, mem, run, clusterState, env, count>>

\* Fault: the context is not cancelled when the object goes.
CancelContextForgotten(b) == cancelled

\* cancelFunc() of the entry of b in cancelMap, if there is one.
CancelContext(b) ==
    IF cancelMap[b] # 0 THEN cancelled \cup {<<b, cancelMap[b]>>} ELSE cancelled

\* executeFinalizer goes on: no reference, or the list call failed.
ExecuteFinalizer(b) ==
    /\ At(b, "delete")
    /\ cancelled' = CancelContext(b)
    /\ cancelMap' = [cancelMap EXCEPT ![b] = 0]
    /\ backup' = backup \ {b}
    /\ \/ /\ ~Conflict(b, rec.hb)
          /\ IF b \in referenced THEN Fault ELSE NoFault
          /\ api' = [api EXCEPT ![b] = Gone]
          /\ rec' = Idle
       \/ /\ (b \notin referenced /\ Conflict(b, rec.hb) /\ NoFault) \/ Fault
          /\ Goto("failure", b, rec.hb)
          /\ UNCHANGED api
    /\ UNCHANGED <<cache, created, run, clusterState, env, crashes>>

\* The updateStatus(Failure) that ends a reconciliation with an error.
ReportFailure(b) ==
    /\ At(b, "failure")
    /\ UpdateStatusOk(b, "Failure") \/ UpdateStatusErr(b)
    /\ rec' = Idle
    /\ UNCHANGED <<cache, created, mem, run, clusterState, env, crashes>>

\* Hazelcast is missing or not Running: Pending, and try again.
HazelcastNotReady(b) ==
    /\ At(b, "hazelcast") /\ hz \in {"Absent", "NotReady"}
    /\ UpdateStatusOk(b, "Pending") \/ UpdateStatusErr(b)
    /\ rec' = Idle
    /\ UNCHANGED <<cache, created, mem, run, clusterState, env, crashes>>

\* ValidateHotBackupPersistence fails.
NoPersistence(b) ==
    /\ At(b, "hazelcast") /\ hz = "NoPersistence"
    /\ Goto("failure", b, rec.hb)
    /\ UNCHANGED <<kube, mem, run, clusterState, env, count>>

\* updateLastSuccessfulConfiguration reads the object again and saves the
\* spec it finds there; then the new context goes into cancelMap.
SaveSpec(b) ==
    /\ At(b, "hazelcast") /\ hz = "Running"
    /\ \/ /\ CanRetryWrite(b) /\ NoFault
          /\ api' = [api EXCEPT ![b] = [@ EXCEPT !.ann = api[b].spec]]
          /\ cancelMap' = [cancelMap EXCEPT ![b] = rec.hb.uid]
          /\ Goto("notStarted", b, rec.hb)
       \/ /\ UpdateStatusErr(b)
          /\ rec' = Idle
          /\ UNCHANGED cancelMap
    /\ UNCHANGED <<cache, created, backup, cancelled, run, clusterState, env,
                   crashes>>

\* NotStarted, lockBackup and the goroutine; an error returns before the lock.
Launch(b) ==
    /\ At(b, "notStarted")
    /\ LET u == rec.hb.uid
       IN \/ /\ UpdateStatusOk(b, "NotStarted")
             /\ backup' = backup \cup {b}
             /\ task' = [task EXCEPT ![b] = [@ EXCEPT ![u] = "inProgress"]]
             /\ launches' = [launches EXCEPT ![b] = [@ EXCEPT ![u] = launches[b][u] + 1]]
          \/ /\ UpdateStatusErr(b)
             /\ UNCHANGED <<backup, task, launches>>
    /\ rec' = Idle
    /\ UNCHANGED <<cache, created, cancelMap, cancelled, backedUp, clusterState,
                   env, crashes>>

----------------------------------------------------------------------------
(* startBackup, in its goroutine.  Every call it makes carries the context *)
(* of the goroutine: once that is cancelled the calls fail.                *)

Cancelled(b, u) == <<b, u>> \in cancelled

Step(b, u, pc) == task' = [task EXCEPT ![b] = [@ EXCEPT ![u] = pc]]

\* Fault: the goroutine writes its status with a context of its own.
TaskStatusBackground(b, u, s) == UpdateStatusOk(b, s)

\* updateStatus with the context of the goroutine.
TaskStatus(b, u, s) == ~Cancelled(b, u) /\ UpdateStatusOk(b, s)

TaskStatusErr(b, u) ==
    \/ Cancelled(b, u) /\ NoFault /\ UNCHANGED api
    \/ UpdateStatusErr(b)

TaskInProgress(b, u) ==
    /\ task[b][u] = "inProgress"
    /\ \/ TaskStatus(b, u, "InProgress") /\ Step(b, u, "prepare")
       \/ TaskStatusErr(b, u) /\ Step(b, u, "fail")
    /\ UNCHANGED <<cache, created, rec, mem, launches, backedUp, clusterState,
                   env, crashes>>

\* Everything in memory is lost; the cache is listed anew.
Restart ==
    /\ crashes < MaxCrashes
    /\ crashes' = crashes + 1
    /\ cache' = api
    /\ rec' = Idle
    /\ cancelMap' = [b \in Backups |-> 0]
    /\ backup' = {}
    /\ cancelled' = {}
    /\ task' = [b \in Backups |-> [u \in Uids |-> "none"]]
    /\ statusService' = FALSE
    /\ UNCHANGED <<api, created, launches, backedUp, clusterState, hz,
                   referenced, faults>>

\* The latest Hazelcast, the client, the status service and the members.
TaskPrepare(b, u) ==
    /\ task[b][u] = "prepare"
    /\ \/ hz # "Absent" /\ statusService /\ Step(b, u, "passive")
       \/ Step(b, u, "fail")
    /\ UNCHANGED <<kube, rec, mem, launches, backedUp, clusterState, env, count>>

\* Without a status service err is nil and err.Error() panics: a panic in
\* this goroutine ends the operator process.
TaskPanic(b, u) ==
    /\ task[b][u] = "prepare" /\ hz # "Absent" /\ ~statusService
    /\ Restart

\* ChangeClusterState(PASSIVE): an error after the retries may hide a call
\* that took effect.
TaskPassive(b, u) ==
    /\ task[b][u] = "passive"
    /\ \/ /\ ~Cancelled(b, u) /\ NoFault
          /\ clusterState' = "PASSIVE" /\ Step(b, u, "trigger")
       \/ /\ Cancelled(b, u) /\ NoFault
          /\ UNCHANGED clusterState /\ Step(b, u, "fail")
       \/ /\ ~Cancelled(b, u) /\ Fault
          /\ clusterState' \in {clusterState, "PASSIVE"} /\ Step(b, u, "fail")
    /\ UNCHANGED <<kube, rec, mem, launches, backedUp, env, crashes>>

TaskTrigger(b, u) ==
    /\ task[b][u] = "trigger"
    /\ \/ ~Cancelled(b, u) /\ NoFault /\ Step(b, u, "activate")
       \/ Cancelled(b, u) /\ NoFault /\ Step(b, u, "abort")
       \/ ~Cancelled(b, u) /\ Fault /\ Step(b, u, "abort")
    /\ UNCHANGED <<kube, rec, mem, launches, backedUp, clusterState, env,
                   crashes>>

\* Fault: Start returns without switching the cluster back.
TaskActivateForgotten(b, u) ==
    /\ task[b][u] \in {"activate", "abort"}
    /\ Step(b, u, IF task[b][u] = "activate" THEN "wait" ELSE "fail")
    /\ UNCHANGED <<kube, rec, mem, launches, backedUp, clusterState, env, count>>

\* Fault: the cluster is switched back with a context of its own.
TaskActivateBackground(b, u) ==
    /\ task[b][u] \in {"activate", "abort"}
    /\ clusterState' = "ACTIVE"
    /\ Step(b, u, IF task[b][u] = "activate" THEN "wait" ELSE "fail")
    /\ UNCHANGED <<kube, rec, mem, launches, backedUp, env, count>>

\* The deferred ChangeClusterState(ACTIVE), whose error is ignored.
TaskActivate(b, u) ==
    /\ task[b][u] \in {"activate", "abort"}
    /\ \/ ~Cancelled(b, u) /\ NoFault /\ clusterState' = "ACTIVE"
       \/ Cancelled(b, u) /\ NoFault /\ UNCHANGED clusterState
       \/ ~Cancelled(b, u) /\ Fault /\ UNCHANGED clusterState
    /\ Step(b, u, IF task[b][u] = "activate" THEN "wait" ELSE "fail")
    /\ UNCHANGED <<kube, rec, mem, launches, backedUp, env, crashes>>

\* The group of MemberBackup.Wait: all members succeed, or the first error
\* interrupts the backup.
TaskWait(b, u) ==
    /\ task[b][u] = "wait"
    /\ \/ ~Cancelled(b, u) /\ Step(b, u, "transfer")
       \/ Step(b, u, "fail")
    /\ UNCHANGED <<kube, rec, mem, launches, backedUp, clusterState, env, count>>

\* The group that locates or uploads the backup of every member.
TaskTransfer(b, u) ==
    /\ task[b][u] = "transfer"
    /\ \/ /\ ~Cancelled(b, u) /\ Step(b, u, "success")
          /\ backedUp' = backedUp \cup {<<b, u>>}
       \/ Step(b, u, "fail") /\ UNCHANGED backedUp
    /\ UNCHANGED <<kube, rec, mem, launches, clusterState, env, count>>

\* The last updateStatus of startBackup; its error is only logged.
TaskFinish(b, u) ==
    /\ task[b][u] \in {"success", "fail"}
    /\ \/ TaskStatus(b, u, IF task[b][u] = "success" THEN "Success" ELSE "Failure")
       \/ TaskStatusErr(b, u)
    /\ Step(b, u, "done")
    /\ UNCHANGED <<cache, created, rec, mem, launches, backedUp, clusterState,
                   env, crashes>>

----------------------------------------------------------------------------
Worker(b) ==
    \/ AddFinalizer(b) \/ RefuseDelete(b) \/ ExecuteFinalizer(b)
    \/ ReportFailure(b) \/ HazelcastNotReady(b) \/ NoPersistence(b)
    \/ SaveSpec(b) \/ Launch(b)

Task(b, u) ==
    \/ TaskInProgress(b, u) \/ TaskPrepare(b, u) \/ TaskPassive(b, u)
    \/ TaskTrigger(b, u) \/ TaskActivate(b, u) \/ TaskWait(b, u)
    \/ TaskTransfer(b, u) \/ TaskFinish(b, u)

Users(b) == Create(b) \/ Edit(b) \/ Delete(b) \/ Reference(b)

Next ==
    \/ \E b \in Backups : Users(b) \/ CacheSync(b) \/ Reconcile(b) \/ Worker(b)
    \/ \E p \in HzPhases : HazelcastChange(p)
    \/ HazelcastRegister \/ HazelcastDisconnect
    \/ \E b \in Backups, u \in Uids : Task(b, u) \/ TaskPanic(b, u)
    \/ Restart

Spec == Init /\ [][Next]_vars

\* The informer delivers, the worker and the goroutines run, the queue hands
\* every name to the worker again and again, and Hazelcast is reconciled.
Fairness ==
    /\ \A b \in Backups : WF_vars(CacheSync(b)) /\ SF_vars(Reconcile(b))
    /\ WF_vars(\E b \in Backups : Worker(b))
    /\ WF_vars(HazelcastRegister)
    /\ \A b \in Backups, u \in Uids : WF_vars(Task(b, u))

FairSpec == Spec /\ Fairness

----------------------------------------------------------------------------
(* Properties.                                                             *)

TypeOK ==
    /\ api \in [Backups -> Objects]
    /\ cache \in [Backups -> Objects]
    /\ created \in [Backups -> 0..MaxUid]
    /\ rec \in [pc: RecPCs, name: Backups, hb: Objects]
    /\ cancelMap \in [Backups -> 0..MaxUid]
    /\ backup \subseteq Backups
    /\ cancelled \subseteq Backups \X Uids
    /\ task \in [Backups -> [Uids -> TaskPCs]]
    /\ launches \in [Backups -> [Uids -> Nat]]
    /\ backedUp \subseteq Backups \X Uids
    /\ clusterState \in {"ACTIVE", "PASSIVE"}
    /\ hz \in HzPhases
    /\ statusService \in BOOLEAN
    /\ referenced \subseteq Backups
    /\ faults \in 0..MaxFaults
    /\ crashes \in 0..MaxCrashes

\* A HotBackup resource runs its backup at most once, whatever the cache
\* still shows of it, however its spec is edited and however often the
\* operator restarts: the lock, the annotation and the state together keep
\* Reconcile from launching a second goroutine for the same object.
AtMostOneBackup == \A b \in Backups, u \in Uids : launches[b][u] <= 1

\* A goroutine whose context is not cancelled works for the object that
\* exists now: executeFinalizer cancels before it lets the object go, so no
\* goroutine of a deleted backup can write the status of its successor.
WorksForExistingObject ==
    \A b \in Backups, u \in Uids :
        Live(b, u) /\ ~Cancelled(b, u) => api[b].uid = u

\* Success is only reported by an object whose own goroutine saw every
\* member finish, not by the goroutine of an earlier object of that name.
SuccessIsBackedUp ==
    \A b \in Backups : api[b].state = "Success" => <<b, api[b].uid>> \in backedUp

\* The cluster is PASSIVE outside of ClusterBackup.Start only if a backup
\* was cancelled, a call failed or the operator restarted: without those,
\* the deferred switch to ACTIVE happens on every way out of Start.
PassiveIsExplained ==
    clusterState = "PASSIVE" =>
        \/ \E b \in Backups, u \in Uids : InStart(b, u)
        \/ cancelled # {} \/ faults > 0 \/ crashes > 0

\* The outcome of a backup is final: once a backup that was started reports
\* Success or Failure, and while it is not being deleted, no reconciliation
\* with a stale copy and no late goroutine changes its state again.
OutcomeIsFinal ==
    [][\A b \in Backups :
           /\ api[b].state \in Finished /\ ~api[b].deleting
           /\ launches[b][api[b].uid] > 0
           /\ api'[b].uid = api[b].uid
           => api'[b].state = api[b].state]_vars

\* A deleted HotBackup goes away once no Hazelcast resource refers to it,
\* although the finalizer fights the status updates of the goroutine and
\* the lagging cache for every update.
DeletionCompletes ==
    \A b \in Backups, u \in Uids :
        <>[](b \notin referenced) =>
            (api[b].uid = u /\ api[b].deleting ~> api[b].uid # u)

(* The inductive invariant behind these.                                   *)

\* Was a goroutine launched for the version o of b?
Launched(b, o) == o.uid # 0 /\ launches[b][o.uid] > 0

LaunchedOnce(b) ==
    \A u \in Uids : launches[b][u] <= 1 /\ (u > created[b] => launches[b][u] = 0)

\* How the cache lags: behind a version that is held by its finalizer there
\* is the same object, and deletion is never undone.
CacheIsBehind(b) ==
    /\ api[b].uid \in {0, created[b]}
    /\ api[b].fin => api[b].uid # 0
    /\ cache[b].uid <= created[b]
    /\ cache[b].fin /\ ~cache[b].deleting =>
           api[b].uid = cache[b].uid /\ api[b].fin
    /\ cache[b].deleting /\ cache[b].uid = api[b].uid /\ api[b].uid # 0 =>
           api[b].deleting

\* What keeps Reconcile from a second launch: the cache shows the launched
\* object with its finalizer, and the lock, the deletion or the state.
LaunchIsRemembered(b) ==
    /\ Launched(b, api[b]) =>
           /\ cache[b].uid = api[b].uid /\ api[b].fin
           /\ api[b].state \in Running \cup Finished
    /\ Launched(b, cache[b]) =>
           /\ cache[b].fin
           /\ \/ b \in backup \/ cache[b].deleting
              \/ cache[b].state \in Running \cup Finished

\* A goroutine that is not cancelled works for the existing object and can
\* be cancelled.
TaskIsOwned(b) ==
    \A u \in Uids :
        Live(b, u) /\ ~Cancelled(b, u) =>
            api[b].uid = u /\ api[b].fin /\ cancelMap[b] = u

ObjectInv(b) ==
    LaunchedOnce(b) /\ CacheIsBehind(b) /\ LaunchIsRemembered(b) /\ TaskIsOwned(b)

\* The object that the worker is about to launch a goroutine for has none,
\* still exists and is held by its finalizer.
LaunchIsFirst(b) ==
    /\ rec.pc \in {"finalizer", "hazelcast", "notStarted"} =>
           rec.hb.uid # 0 /\ ~Launched(b, rec.hb)
    /\ rec.pc = "finalizer" => ~rec.hb.deleting
    /\ rec.pc \in {"hazelcast", "notStarted"} =>
           api[b].uid = rec.hb.uid /\ api[b].fin
    /\ rec.pc = "notStarted" => cancelMap[b] = rec.hb.uid

\* A worker about to run executeFinalizer knows of the deletion.
DeletionIsKnown(b) ==
    rec.pc = "delete" =>
        /\ rec.hb.uid \in 1..created[b] /\ rec.hb.deleting
        /\ api[b].uid = rec.hb.uid => api[b].deleting
        /\ cache[b].uid = rec.hb.uid => cache[b].deleting
        /\ Launched(b, api[b]) => api[b].deleting
        /\ Launched(b, cache[b]) => cache[b].deleting

WorkerInv(b) == rec.name = b => LaunchIsFirst(b) /\ DeletionIsKnown(b)

\* The outcome that an object reports is its own.  A goroutine that is not
\* cancelled reports first: the worker reports a failure of an object that was
\* started only when it is being deleted.
OutcomeInv(b) ==
    /\ api[b].uid = 0 => api[b].state = ""
    /\ api[b].state = "Success" => <<b, api[b].uid>> \in backedUp
    /\ \A u \in Uids :
           /\ task[b][u] = "success" => <<b, u>> \in backedUp
           /\ Live(b, u) => launches[b][u] > 0
           /\ Live(b, u) /\ ~Cancelled(b, u) /\ ~api[b].deleting =>
                  api[b].state \notin Finished
    /\ rec.name = b /\ rec.pc \in {"finalizer", "failure"} /\ Launched(b, api[b]) =>
           api[b].deleting

\* The lock, the state, the finalizer and the context keep each other in
\* step: an object is launched once, the cache that Reconcile reads shows
\* enough of a launch to stop a second one, a running goroutine belongs to the
\* object that exists, and only it reports the outcome.  Every step of the
\* controller preserves this.
Inv == TypeOK /\ \A b \in Backups : ObjectInv(b) /\ WorkerInv(b) /\ OutcomeInv(b)

\* "switch cluster to passive for the time of hot backup": the cluster is
\* passive when a backup triggers the hot restart backup of the members, even
\* if the goroutine of a deleted object of that name is still in Start.  (A
\* HotBackup of another name could activate the cluster.)
PassiveWhenTriggered ==
    (\A b, c \in Backups : b = c) =>
        \A b \in Backups, u \in Uids :
            task[b][u] = "trigger" /\ ~Cancelled(b, u) => clusterState = "PASSIVE"
============================================================================
