--------------------------- MODULE DataStructure ---------------------------
(***************************************************************************)
(* The controllers of Queue, Topic, Cache, MultiMap and ReplicatedMap,     *)
(* which share their code: the configuration of a data structure is added  *)
(* to every member, written to the configuration Secret by the Hazelcast   *)
(* controller, and remembered in an annotation once both are done.         *)
(*                                                                         *)
(* One action is the code between two calls that leave the process.  The   *)
(* work queue is part of the model: a change that reaches the cache and a  *)
(* result that asks for it put the object into the queue.                  *)
(***************************************************************************)
EXTENDS Naturals, FiniteSets

CONSTANTS
    Members,       \* the members of the cluster
    MaxEdits,      \* how often the user may edit the spec
    MaxMishaps,    \* how many calls may fail, operators or members restart,
                   \* and clusters become unready, taken together
    Deleted,       \* whether the user deletes the object
    Resync         \* whether the cache is ever resynchronised

ASSUME ConstantsAssumption ==
    /\ IsFiniteSet(Members) /\ Members # {}
    /\ MaxEdits \in Nat /\ MaxMishaps \in Nat
    /\ Deleted \in BOOLEAN /\ Resync \in BOOLEAN

VARIABLES
    ds,            \* the object at the API server
    cache,         \* the informer cache of it
    queued,        \* whether the object is in the work queue
    cluster,       \* the Hazelcast resource and the connection to it
    conf,          \* the configuration each member has, None without
    restarts,      \* how often each member restarted
    secret,        \* the configuration in the Secret, None without
    secretCache,   \* the informer cache of the Secret
    hz,            \* the Hazelcast reconciler: the configuration it will write
    rec,           \* the worker of the controller
    edits, mishaps \* how many of each happened so far

members == <<conf, restarts>>
config  == <<secret, secretCache, hz>>
count   == <<edits, mishaps>>
vars    == <<ds, cache, queued, cluster, members, config, rec, count>>

----------------------------------------------------------------------------
(* The object.                                                             *)

\* Specs are numbered by the edits.
None  == 0
Specs == 1..(MaxEdits + 1)

States == {"", "Pending", "Persisting", "Success", "Failed", "Terminating"}

\* A member that restarts comes back with another UUID.
UUIDs   == Members \X (0..MaxMishaps)
UUID(m) == <<m, restarts[m]>>
Ordered == {UUID(m) : m \in Members}

\* ann is the annotation with the last successful spec, acked the members
\* with Success in MemberStatuses.
Objects == [live: BOOLEAN, deleting: BOOLEAN, fin: BOOLEAN, spec: Specs,
            ann: Specs \cup {None}, state: States, acked: SUBSET UUIDs]

New  == [live |-> TRUE, deleting |-> FALSE, fin |-> FALSE, spec |-> 1,
         ann |-> None, state |-> "", acked |-> {}]
Gone == [New EXCEPT !.live = FALSE]

\* ds is the worker's copy and base the version it was read or written as;
\* todo are the members still to be called, acked and failed the answers.
Idle == [pc |-> "idle", ds |-> Gone, base |-> Gone, todo |-> {}, acked |-> {},
         failed |-> FALSE]

PCs == {"idle", "finalizer", "setup", "send", "validate", "annotate", "final",
        "terminating", "remove"}

Clusters == {"Missing", "NotReady", "Connecting", "Running"}

TypeOK ==
    /\ ds \in Objects /\ cache \in Objects
    /\ queued \in BOOLEAN /\ cluster \in Clusters
    /\ conf \in [Members -> Specs \cup {None}]
    /\ restarts \in [Members -> 0..MaxMishaps]
    /\ secret \in Specs \cup {None} /\ secretCache \in Specs \cup {None}
    /\ hz \in [busy: BOOLEAN, config: Specs \cup {None}]
    /\ rec \in [pc: PCs, ds: Objects, base: Objects, todo: SUBSET UUIDs,
                acked: SUBSET UUIDs, failed: BOOLEAN]
    /\ edits \in 0..MaxEdits /\ mishaps \in 0..MaxMishaps

Init ==
    /\ ds = New /\ cache = Gone /\ queued = FALSE
    /\ cluster = "Missing"
    /\ conf = [m \in Members |-> None] /\ restarts = [m \in Members |-> 0]
    /\ secret = None /\ secretCache = None
    /\ hz = [busy |-> FALSE, config |-> None]
    /\ rec = Idle
    /\ edits = 0 /\ mishaps = 0

----------------------------------------------------------------------------
(* The user, the caches, the cluster and the restarts.                     *)

Fault == mishaps < MaxMishaps /\ mishaps' = mishaps + 1

NoFault == UNCHANGED mishaps

\* The webhook, where it is installed, rejects the edits after the first
\* success; without it they are left to ValidateSpecUpdate.
Edit ==
    /\ ds.live
    /\ edits < MaxEdits /\ edits' = edits + 1
    /\ ds' = [ds EXCEPT !.spec = @ + 1]
    /\ UNCHANGED <<cache, queued, cluster, members, config, rec, mishaps>>

Delete ==
    /\ Deleted
    /\ ds.live /\ ~ds.deleting
    /\ ds' = IF ds.fin THEN [ds EXCEPT !.deleting = TRUE] ELSE Gone
    /\ UNCHANGED <<cache, queued, cluster, members, config, rec, count>>

\* The informer sees the latest version and queues the object.
SyncCache ==
    /\ cache # ds
    /\ cache' = ds /\ queued' = TRUE
    /\ UNCHANGED <<ds, cluster, members, config, rec, count>>

SyncSecret ==
    /\ secretCache # secret
    /\ secretCache' = secret
    /\ UNCHANGED <<ds, cache, queued, cluster, members, secret, hz, rec, count>>

\* The periodic resynchronisation queues every object of the cache.
ResyncCache ==
    /\ Resync /\ cache.live /\ ~queued
    /\ queued' = TRUE
    /\ UNCHANGED <<ds, cache, cluster, members, config, rec, count>>

Restart ==
    /\ Fault
    /\ cache' = ds /\ secretCache' = secret /\ queued' = TRUE
    /\ hz' = [busy |-> FALSE, config |-> None]
    /\ rec' = Idle
    /\ UNCHANGED <<ds, cluster, members, secret, edits>>

\* The Hazelcast resource is created, becomes Running, and the client
\* connects.
ClusterUp ==
    /\ cluster # "Running"
    /\ cluster' = CASE cluster = "Missing"    -> "NotReady"
                    [] cluster = "NotReady"   -> "Connecting"
                    [] cluster = "Connecting" -> "Running"
    /\ UNCHANGED <<ds, cache, queued, members, config, rec, count>>

ClusterDown ==
    /\ cluster = "Running"
    /\ Fault
    /\ cluster' = "NotReady"
    /\ UNCHANGED <<ds, cache, queued, members, config, rec, edits>>

\* A member starts with the configuration of the Secret.
MemberRestart(m) ==
    /\ cluster = "Running" /\ Fault
    /\ restarts' = [restarts EXCEPT ![m] = @ + 1]
    /\ conf' = [conf EXCEPT ![m] = secret]
    /\ UNCHANGED <<ds, cache, queued, cluster, config, rec, edits>>

----------------------------------------------------------------------------
(* The Hazelcast controller, as far as it writes the Secret.               *)

\* Fault: what waits to be persisted is not yet in the configuration.
PersistedSuccess(d) ==
    CASE d.live /\ d.state = "Success"                               -> d.spec
      [] d.live /\ d.state \in {"Failed", "Pending", "Persisting"} -> d.ann
      [] OTHER                                                      -> None

\* isDSPersisted: the spec, or the last successful one while the state says
\* that the current one is not applied.
Persisted(d) ==
    CASE d.live /\ d.state \in {"Persisting", "Success"} -> d.spec
      [] d.live /\ d.state \in {"Failed", "Pending"}     -> d.ann
      [] OTHER                                           -> None

\* reconcileSecret builds the configuration and then writes the Secret.
BuildConfig ==
    /\ cluster # "Missing"
    /\ ~hz.busy /\ Persisted(cache) # secret
    /\ hz' = [busy |-> TRUE, config |-> Persisted(cache)]
    /\ UNCHANGED <<ds, cache, queued, cluster, members, secret, secretCache, rec,
                   count>>

WriteSecret ==
    /\ hz.busy
    /\ secret' = hz.config
    /\ hz' = [busy |-> FALSE, config |-> None]
    /\ UNCHANGED <<ds, cache, queued, cluster, members, secretCache, rec, count>>

----------------------------------------------------------------------------
(* Reconcile: writes of the object and where they lead.                    *)

\* The API server rejects a write of the worker's copy.
Conflict == rec.base # ds

Requeue == queued' = TRUE
Forget  == UNCHANGED queued

\* updateDSStatus with state s and member statuses a.  When it is written,
\* the worker goes on as after says and the object is queued again if q; a
\* conflict is swallowed, so that the worker goes on with a copy that is not
\* stored; after any other failure it stops, and the object is queued again
\* if the caller hands the error on, which e says.
UpdateStatus(s, a, after, q, e) ==
    LET stored == [rec.base EXCEPT !.state = s, !.acked = a]
        copy   == [rec.ds EXCEPT !.state = s, !.acked = a]
        goOn(d, b) == rec' = IF after.pc = "idle" THEN Idle
                             ELSE [after EXCEPT !.ds = d, !.base = b]
    IN \/ /\ ~Conflict /\ NoFault
          /\ ds' = stored
          /\ goOn(stored, stored)
          /\ IF q THEN Requeue ELSE Forget
       \/ /\ Conflict /\ NoFault
          /\ goOn(copy, rec.base)
          /\ UNCHANGED ds /\ Forget
       \/ /\ Fault
          /\ rec' = Idle
          /\ IF e THEN Requeue ELSE Forget
          /\ UNCHANGED ds

\* The same for an error that was met before, which is handed on only if e.
\* The five controllers drop every error of initialSetupDS.
UpdateFailed(e) == UpdateStatus("Failed", rec.ds.acked, Idle, e, e)

\* A failure is reported in the status; the report may fail like the call.
Reported(s) ==
    ds' \in IF Conflict THEN {ds} ELSE {ds, [ds EXCEPT !.state = s]}

To(pc) == [rec EXCEPT !.pc = pc]

\* What a step of the worker leaves alone besides the Secret and the caches.
Kept == UNCHANGED <<cache, cluster, members, config, edits>>

----------------------------------------------------------------------------
(* initialSetupDS.                                                         *)

Reconcile ==
    /\ rec.pc = "idle" /\ queued
    /\ queued' = FALSE
    /\ rec' = IF ~cache.live THEN Idle
              ELSE [Idle EXCEPT !.ds = cache, !.base = cache,
                        !.pc = CASE cache.deleting             -> "terminating"
                                 [] ~cache.deleting /\ cache.fin -> "setup"
                                 [] OTHER                        -> "finalizer"]
    /\ UNCHANGED <<ds, mishaps>> /\ Kept

AddFinalizer ==
    /\ rec.pc = "finalizer"
    /\ \/ /\ ~Conflict /\ NoFault
          /\ ds' = [rec.ds EXCEPT !.fin = TRUE]
          /\ rec' = [To("setup") EXCEPT !.ds = ds', !.base = ds']
          /\ Forget
       \/ /\ Conflict /\ NoFault
          /\ rec' = Idle /\ UNCHANGED ds /\ Forget
       \/ \* the update fails, and the error is reported
          /\ Fault
          /\ rec' = Idle /\ Forget
          /\ Reported("Failed")
    /\ Kept

\* startDelete ignores any error of the update to Terminating.
StartDelete ==
    /\ rec.pc = "terminating"
    /\ LET copy == [rec.ds EXCEPT !.state = "Terminating"]
       IN \/ /\ ~Conflict /\ NoFault
             /\ ds' = copy
             /\ rec' = [To("remove") EXCEPT !.ds = copy, !.base = copy]
          \/ /\ (Conflict /\ NoFault) \/ Fault
             /\ UNCHANGED ds
             /\ rec' = [To("remove") EXCEPT !.ds = copy]
    /\ Forget /\ Kept

\* executeFinalizer.  The update that reports a failure writes Terminating.
ExecuteFinalizer ==
    /\ rec.pc = "remove"
    /\ rec' = Idle
    /\ \/ ~Conflict /\ NoFault /\ ds' = Gone
       \/ Conflict /\ NoFault /\ UNCHANGED ds
       \/ Fault /\ Reported("Terminating")
    /\ Forget /\ Kept

\* handleCreatedBefore: the annotation is the current spec.
AlreadyApplied == rec.ds.ann = rec.ds.spec

\* The spec was changed after the first success: ValidateSpecUpdate.
Forbidden == rec.ds.ann # None /\ ~AlreadyApplied

\* ValidateSpecCurrent, which only the Cache controller has, is taken to succeed.
SetupFailed ==
    /\ rec.pc = "setup"
    /\ \/ cluster = "Missing"
       \/ Forbidden
       \/ ~AlreadyApplied /\ cluster \in {"NotReady", "Connecting"}
    /\ UpdateFailed(FALSE)
    /\ Kept

SetupApplied ==
    /\ rec.pc = "setup" /\ cluster # "Missing" /\ AlreadyApplied
    /\ UpdateStatus("Success", rec.ds.acked, Idle, FALSE, FALSE)
    /\ Kept

MayApply == rec.pc = "setup" /\ ~AlreadyApplied /\ ~Forbidden

\* The client exists and is not connected yet.
SetupConnecting ==
    /\ MayApply /\ cluster = "Connecting"
    /\ UpdateStatus("Pending", rec.ds.acked, Idle, TRUE, FALSE)
    /\ Kept

\* Fault: every member is taken for done.
SkippedAll == Ordered

\* sendCodecRequest leaves out the members with Success in the status.
Skipped == Ordered \cap rec.ds.acked

ToSend == [rec EXCEPT !.pc = "send", !.todo = Ordered \ Skipped,
                      !.acked = Skipped, !.failed = FALSE]

SetupDone ==
    /\ MayApply /\ cluster = "Running"
    /\ IF rec.ds.state = "Persisting"
       THEN rec' = ToSend /\ UNCHANGED <<ds, queued, mishaps>>
       ELSE UpdateStatus("Pending", rec.ds.acked, ToSend, FALSE, FALSE)
    /\ Kept

----------------------------------------------------------------------------
(* Reconcile after the setup.                                              *)

\* InvokeOnMember: the member may be gone, or the call may fail.
Send(u) ==
    /\ rec.pc = "send" /\ u \in rec.todo
    /\ \/ /\ u \in Ordered /\ NoFault
          /\ conf' = [conf EXCEPT ![u[1]] = rec.ds.spec]
          /\ rec' = [rec EXCEPT !.todo = @ \ {u}, !.acked = @ \cup {u}]
       \/ /\ (u \notin Ordered /\ NoFault) \/ Fault
          /\ UNCHANGED conf
          /\ rec' = [rec EXCEPT !.todo = @ \ {u}, !.failed = TRUE]
    /\ UNCHANGED <<ds, cache, queued, cluster, restarts, config, edits>>

SomeFailed ==
    /\ rec.pc = "send" /\ rec.todo = {} /\ rec.failed
    /\ UpdateStatus("Pending", rec.acked, Idle, TRUE, TRUE)
    /\ Kept

AllSent ==
    /\ rec.pc = "send" /\ rec.todo = {} /\ ~rec.failed
    /\ UpdateStatus("Persisting", rec.acked, To("validate"), FALSE, TRUE)
    /\ Kept

\* validateQueueConfigPersistence
InSecret == secretCache = rec.ds.spec

ValidateFound ==
    /\ rec.pc = "validate" /\ InSecret
    /\ rec' = To("annotate")
    /\ UNCHANGED <<ds, queued, mishaps>> /\ Kept

ValidateMissing ==
    /\ rec.pc = "validate" /\ ~InSecret
    /\ UpdateStatus("Persisting", rec.acked, Idle, TRUE, TRUE)
    /\ Kept

\* The Secret cannot be read: Failed is written and the error handed on.
ValidateFailed ==
    /\ rec.pc = "validate" /\ Fault
    /\ Reported("Failed")
    /\ rec' = Idle
    /\ IF Conflict THEN Forget ELSE Requeue
    /\ Kept

\* updateLastSuccessfulConfigurationDS; finalSetupDS only logs its error.
Annotate ==
    /\ rec.pc = "annotate"
    /\ LET copy == [rec.base EXCEPT !.ann = rec.ds.spec]
       IN \/ /\ ~Conflict /\ NoFault
             /\ ds' = copy
             /\ rec' = [To("final") EXCEPT !.ds = copy, !.base = copy]
          \/ /\ (Conflict /\ NoFault) \/ Fault
             /\ UNCHANGED ds
             /\ rec' = [To("final") EXCEPT !.ds.ann = rec.ds.spec]
    /\ Forget /\ Kept

FinalSetup ==
    /\ rec.pc = "final"
    /\ UpdateStatus("Success", {}, Idle, FALSE, TRUE)
    /\ Kept

----------------------------------------------------------------------------
Worker ==
    \/ AddFinalizer \/ StartDelete \/ ExecuteFinalizer
    \/ SetupFailed \/ SetupApplied \/ SetupConnecting \/ SetupDone
    \/ \E u \in UUIDs : Send(u)
    \/ SomeFailed \/ AllSent \/ ValidateFound \/ ValidateMissing \/ ValidateFailed
    \/ Annotate \/ FinalSetup

Next ==
    \/ Edit \/ Delete \/ SyncCache \/ SyncSecret \/ ResyncCache \/ Restart
    \/ ClusterUp \/ ClusterDown \/ \E m \in Members : MemberRestart(m)
    \/ BuildConfig \/ WriteSecret
    \/ Reconcile \/ Worker

Spec == Init /\ [][Next]_vars

\* The worker takes what is queued and goes on, the caches follow, the status
\* service triggers the Hazelcast controller every ten seconds, and the
\* cluster gets ready.
FairSpec ==
    /\ Spec
    /\ WF_vars(Reconcile) /\ WF_vars(Worker)
    /\ WF_vars(SyncCache) /\ WF_vars(SyncSecret) /\ WF_vars(ResyncCache)
    /\ WF_vars(BuildConfig) /\ WF_vars(WriteSecret)
    /\ WF_vars(ClusterUp)

----------------------------------------------------------------------------
(* Properties.                                                             *)

\* Nothing is applied after the first spec.
Admissible(a, s) == a = None \/ a = s

\* What the controllers implement: a spec is declared applied while the user
\* wants it, and once and for all.  No edit, no stale copy and no restart makes
\* them take another one for the applied one (ValidateSpecUpdate,
\* handleCreatedBefore, updateLastSuccessfulConfigurationDS).
Applied == INSTANCE AppliedConfig
               WITH live <- ds.live, wanted <- ds.spec, applied <- ds.ann

\* A data structure is taken for applied only if every member has got a
\* configuration of it, or has started after that from the Secret.
AppliedOnMembers ==
    ds.ann # None => \A m \in Members : restarts[m] = 0 => conf[m] # None

\* In the end the data structure is gone, or its applied configuration is in
\* the Secret and the state tells whether the spec is the applied one.  No
\* failing call, swallowed conflict or dropped error keeps it from that.
Converged ==
    \/ ~ds.live
    \/ /\ ds.ann # None /\ secret = ds.ann
       /\ ds.state = IF ds.spec = ds.ann THEN "Success" ELSE "Failed"

\* Violated.  "Data structure configuration is applied successfully": when
\* that is the state, every member has the configuration of the spec.
SuccessIsOnMembers ==
    ds.state = "Success" /\ ds.ann = ds.spec =>
        \A m \in Members : conf[m] = ds.spec

============================================================================
