-------------------------------- MODULE Map --------------------------------
(***************************************************************************)
(* The Map controller.  Unlike the other data structures a map may be      *)
(* edited after it was applied: the first time its configuration is added  *)
(* to the members, later an update carries the fields that may change.     *)
(* The Hazelcast controller writes the configuration to the Secret, from   *)
(* which a member that restarts takes it.                                  *)
(***************************************************************************)
EXTENDS Naturals, FiniteSets

CONSTANTS
    Members,       \* the members of the cluster
    MaxEdits,      \* how often the user may edit the spec
    MaxMishaps,    \* how many calls may fail, operators or members restart,
                   \* and clusters become unready, taken together
    Deleted        \* whether the user deletes the object

VARIABLES
    map,           \* the object at the API server
    cache,         \* the informer cache of it
    event,         \* whether a change has still to reach the cache
    queued,        \* whether the object is in the work queue
    cluster,       \* the Hazelcast resource and the connection to it
    conf,          \* the configuration each member has, None without
    restarts,      \* how often each member restarted
    secret,        \* the configuration in the Secret, None without
    hz,            \* the Hazelcast reconciler: the configuration it will write
    rec,           \* the worker of the controller
    edits, mishaps \* how many of each happened so far

members == <<conf, restarts>>
config  == <<secret, hz>>
count   == <<edits, mishaps>>
vars    == <<map, cache, event, queued, cluster, members, config, rec, count>>

----------------------------------------------------------------------------
(* Specs and configurations.                                               *)

\* The fields of a spec by what becomes of them: upd may be updated (time to
\* live, eviction), idle too (max idle seconds), fixed may not (backup
\* counts, indexes, format, near cache ...) and 2 needs a feature that the
\* cluster lacks, open is in the request that adds the map and in no update,
\* but is not protected (attributes, map store, listeners, merkle tree).
Specs == [upd: 0..1, idle: 0..1, fixed: 0..2, open: 0..1]

None == [upd |-> 9, idle |-> 9, fixed |-> 9, open |-> 9]

FirstSpec == [upd |-> 0, idle |-> 1, fixed |-> 0, open |-> 0]

Configs == Specs \cup {None}

\* validateMapSpecCurrent: what the spec needs the cluster must have.
Unsupported(s) == s.fixed = 2

\* Fault: a field that may not be updated is not compared.
ForbiddenNever(ann, s) == FALSE

\* validateNotUpdatableMapFields
Forbidden(ann, s) == ann # None /\ ann.fixed # s.fixed

\* The configuration that the update leaves with a member that had c.
Updated(c, s) == IF c = None THEN None
                 ELSE [c EXCEPT !.upd = s.upd, !.idle = s.idle]

\* createMapConfig has no max idle seconds: the file holds the default.
CreateMapConfig(s) == IF s = None THEN None ELSE [s EXCEPT !.idle = 0]

----------------------------------------------------------------------------
(* The object.                                                             *)

States == {"", "Pending", "Persisting", "Success", "Failed", "Terminating"}

UUIDs   == Members \X (0..MaxMishaps)
UUID(m) == <<m, restarts[m]>>
Ordered == {UUID(m) : m \in Members}

\* ann is the annotation with the last successful spec, acked the members
\* with Success in MemberStatuses.
Objects == [live: BOOLEAN, deleting: BOOLEAN, fin: BOOLEAN, spec: Specs,
            ann: Configs, state: States, acked: SUBSET UUIDs]

New  == [live |-> TRUE, deleting |-> FALSE, fin |-> FALSE, spec |-> FirstSpec,
         ann |-> None, state |-> "", acked |-> {}]
Gone == [New EXCEPT !.live = FALSE]

\* map is the worker's copy and base the version it was read or written as;
\* todo are the members still to be called, acked and failed the answers.
Idle == [pc |-> "idle", map |-> Gone, base |-> Gone, todo |-> {}, acked |-> {},
         failed |-> FALSE]

PCs == {"idle", "finalizer", "setup", "send", "validate", "annotate", "final",
        "terminating", "remove"}

Clusters == {"Missing", "NotReady", "Connecting", "Running"}

Workers == [pc: PCs, map: Objects, base: Objects, todo: SUBSET UUIDs,
            acked: SUBSET UUIDs, failed: BOOLEAN]

TypeOK ==
    /\ map \in Objects /\ cache \in Objects
    /\ event \in BOOLEAN /\ queued \in BOOLEAN /\ cluster \in Clusters
    /\ conf \in [Members -> Configs]
    /\ restarts \in [Members -> 0..MaxMishaps]
    /\ secret \in Configs
    /\ hz \in [busy: BOOLEAN, config: Configs]
    /\ rec \in Workers
    /\ edits \in 0..MaxEdits /\ mishaps \in 0..MaxMishaps

Init ==
    /\ map = New /\ cache = Gone /\ event = TRUE /\ queued = FALSE
    /\ cluster = "Missing"
    /\ conf = [m \in Members |-> None] /\ restarts = [m \in Members |-> 0]
    /\ secret = None /\ hz = [busy |-> FALSE, config |-> None]
    /\ rec = Idle
    /\ edits = 0 /\ mishaps = 0

----------------------------------------------------------------------------
(* The user, the caches, the cluster and the restarts.                     *)

\* The object at the API server is written, or not.
Store(m) == map' = m /\ event' = TRUE
KeepMap  == UNCHANGED <<map, event>>

Fault == mishaps < MaxMishaps /\ mishaps' = mishaps + 1

NoFault == UNCHANGED mishaps

\* One field is edited.  The webhook, where it is installed, makes the same
\* checks as the controller earlier.
Edit(f) ==
    /\ map.live
    /\ edits < MaxEdits /\ edits' = edits + 1
    /\ \E v \in 0..2 : /\ v # map.spec[f] /\ (v = 2 => f = "fixed")
                       /\ Store([map EXCEPT !.spec[f] = v])
    /\ UNCHANGED <<cache, queued, cluster, members, config, rec, mishaps>>

Delete ==
    /\ Deleted
    /\ map.live /\ ~map.deleting
    /\ Store(IF map.fin THEN [map EXCEPT !.deleting = TRUE] ELSE Gone)
    /\ UNCHANGED <<cache, queued, cluster, members, config, rec, count>>

\* The informer sees the latest version and queues the object.
SyncCache ==
    /\ event
    /\ cache' = map /\ event' = FALSE /\ queued' = TRUE
    /\ UNCHANGED <<map, cluster, members, config, rec, count>>

Restart ==
    /\ Fault
    /\ cache' = map /\ event' = FALSE /\ queued' = TRUE
    /\ hz' = [busy |-> FALSE, config |-> None]
    /\ rec' = Idle
    /\ UNCHANGED <<map, cluster, members, secret, edits>>

\* The Hazelcast resource is created, becomes Running, and the client
\* connects.
ClusterUp ==
    /\ cluster # "Running"
    /\ cluster' = CASE cluster = "Missing"    -> "NotReady"
                    [] cluster = "NotReady"   -> "Connecting"
                    [] cluster = "Connecting" -> "Running"
    /\ UNCHANGED <<map, event, cache, queued, members, config, rec, count>>

ClusterDown ==
    /\ cluster = "Running"
    /\ Fault
    /\ cluster' = "NotReady"
    /\ UNCHANGED <<map, event, cache, queued, members, config, rec, edits>>

\* A member starts with the configuration of the Secret.
MemberRestart(m) ==
    /\ cluster = "Running" /\ Fault
    /\ restarts' = [restarts EXCEPT ![m] = @ + 1]
    /\ conf' = [conf EXCEPT ![m] = secret]
    /\ UNCHANGED <<map, event, cache, queued, cluster, config, rec, edits>>

----------------------------------------------------------------------------
(* The Hazelcast controller, as far as it writes the Secret.               *)

\* filterPersistedMaps: the spec, or the last successful one while the state
\* says that the current one is not applied.
FilterPersistedMaps(m) ==
    CASE m.live /\ m.state \in {"Persisting", "Success"} -> m.spec
      [] m.live /\ m.state \in {"Failed", "Pending"}     -> m.ann
      [] OTHER                                           -> None

FileOf(m) == CreateMapConfig(FilterPersistedMaps(m))

\* reconcileSecret builds the configuration and then writes the Secret.
BuildConfig ==
    /\ cluster # "Missing"
    /\ ~hz.busy /\ FileOf(cache) # secret
    /\ hz' = [busy |-> TRUE, config |-> FileOf(cache)]
    /\ UNCHANGED <<map, event, cache, queued, cluster, members, secret, rec, count>>

WriteSecret ==
    /\ hz.busy
    /\ secret' = hz.config
    /\ hz' = [busy |-> FALSE, config |-> None]
    /\ UNCHANGED <<map, event, cache, queued, cluster, members, rec, count>>

----------------------------------------------------------------------------
(* Reconcile: writes of the object and where they lead.                    *)

\* The API server rejects a write of the worker's copy.
Conflict == rec.base # map

Requeue == queued' = TRUE
Forget  == UNCHANGED queued

\* updateMapStatus with state s and member statuses a.  When it is written,
\* the worker goes on as after says and the object is queued again if q; a
\* conflict is swallowed, so that the worker goes on with a copy that is not
\* stored; any other failure is handed on.
UpdateMapStatus(s, a, after, q) ==
    LET stored == [rec.base EXCEPT !.state = s, !.acked = a]
        copy   == [rec.map EXCEPT !.state = s, !.acked = a]
        goOn(m, b) == rec' = IF after.pc = "idle" THEN Idle
                             ELSE [after EXCEPT !.map = m, !.base = b]
    IN \/ /\ ~Conflict /\ NoFault
          /\ Store(stored)
          /\ goOn(stored, stored)
          /\ IF q THEN Requeue ELSE Forget
       \/ /\ Conflict /\ NoFault
          /\ goOn(copy, rec.base)
          /\ KeepMap /\ Forget
       \/ /\ Fault
          /\ rec' = Idle
          /\ Requeue
          /\ KeepMap

\* Failed is written and the error that was met handed on.
UpdateFailed(a) == UpdateMapStatus("Failed", a, Idle, TRUE)

\* A failed call is reported in the status; the report may fail like the
\* call.  Only a conflict keeps the error from being handed on.
Reported(s) ==
    /\ KeepMap \/ (~Conflict /\ Store([map EXCEPT !.state = s]))
    /\ rec' = Idle
    /\ IF Conflict THEN Forget ELSE Requeue

To(pc) == [rec EXCEPT !.pc = pc]

\* What a step of the worker leaves alone besides the Secret and the caches.
Kept == UNCHANGED <<cache, cluster, members, config, edits>>

----------------------------------------------------------------------------
(* Reconcile until the members are called.                                 *)

Reconcile ==
    /\ rec.pc = "idle" /\ queued
    /\ queued' = FALSE
    /\ rec' = IF ~cache.live THEN Idle
              ELSE [Idle EXCEPT !.map = cache, !.base = cache,
                        !.pc = CASE cache.deleting             -> "terminating"
                                 [] ~cache.deleting /\ cache.fin -> "setup"
                                 [] OTHER                        -> "finalizer"]
    /\ UNCHANGED mishaps /\ KeepMap /\ Kept

AddFinalizer ==
    /\ rec.pc = "finalizer"
    /\ \/ /\ ~Conflict /\ NoFault
          /\ Store([rec.map EXCEPT !.fin = TRUE])
          /\ rec' = [To("setup") EXCEPT !.map = map', !.base = map']
          /\ Forget
       \/ /\ Conflict /\ NoFault
          /\ rec' = Idle /\ KeepMap /\ Forget
       \/ Fault /\ Reported("Failed")
    /\ Kept

\* Any error of the update to Terminating is ignored.
StartDelete ==
    /\ rec.pc = "terminating"
    /\ LET copy == [rec.map EXCEPT !.state = "Terminating"]
       IN \/ /\ ~Conflict /\ NoFault
             /\ Store(copy)
             /\ rec' = [To("remove") EXCEPT !.map = copy, !.base = copy]
          \/ /\ (Conflict /\ NoFault) \/ Fault
             /\ KeepMap
             /\ rec' = [To("remove") EXCEPT !.map = copy]
    /\ Forget /\ Kept

ExecuteFinalizer ==
    /\ rec.pc = "remove"
    /\ \/ ~Conflict /\ NoFault /\ Store(Gone) /\ rec' = Idle /\ Forget
       \/ Conflict /\ NoFault /\ KeepMap /\ rec' = Idle /\ Forget
       \/ Fault /\ Reported("Terminating")
    /\ Kept

\* ValidateMapSpec
Invalid == Unsupported(rec.map.spec) \/ Forbidden(rec.map.ann, rec.map.spec)

CreatedBefore == rec.map.ann # None

AlreadyApplied == rec.map.ann = rec.map.spec

SetupFailed ==
    /\ rec.pc = "setup"
    /\ \/ cluster \in {"Missing", "NotReady"}
       \/ Invalid
       \/ ~AlreadyApplied /\ cluster = "Connecting"
    /\ UpdateFailed(rec.map.acked)
    /\ Kept

SetupApplied ==
    /\ rec.pc = "setup" /\ cluster \in {"Connecting", "Running"} /\ ~Invalid
    /\ AlreadyApplied
    /\ UpdateMapStatus("Success", rec.map.acked, Idle, FALSE)
    /\ Kept

\* The members with Success in the status are left out.
Skipped == Ordered \cap rec.map.acked

ToSend == [rec EXCEPT !.pc = "send", !.todo = Ordered \ Skipped,
                      !.acked = Skipped, !.failed = FALSE]

SetupDone ==
    /\ rec.pc = "setup" /\ cluster = "Running" /\ ~Invalid /\ ~AlreadyApplied
    /\ IF rec.map.state = ""
       THEN UpdateMapStatus("Pending", rec.map.acked, ToSend, FALSE)
       ELSE rec' = ToSend /\ KeepMap /\ UNCHANGED <<queued, mishaps>>
    /\ Kept

----------------------------------------------------------------------------
(* ReconcileMapConfig and what follows.                                    *)

\* fillAddMapConfigInput cannot read the Secret with the properties of the
\* map store: the member statuses are dropped.
FillFailed ==
    /\ rec.pc = "send" /\ ~CreatedBefore /\ rec.acked = Skipped
    /\ Fault
    /\ KeepMap \/ (~Conflict /\ Store([map EXCEPT !.state = "Failed", !.acked = {}]))
    /\ rec' = Idle
    /\ IF Conflict THEN Forget ELSE Requeue
    /\ Kept

\* InvokeOnMember: the member may be gone, or the call may fail.
InvokeOnMember(u) ==
    /\ rec.pc = "send" /\ u \in rec.todo
    /\ \/ /\ u \in Ordered /\ NoFault
          /\ conf' = [conf EXCEPT ![u[1]] = IF CreatedBefore
                                            THEN Updated(@, rec.map.spec)
                                            ELSE rec.map.spec]
          /\ rec' = [rec EXCEPT !.todo = @ \ {u}, !.acked = @ \cup {u}]
       \/ /\ (u \notin Ordered /\ NoFault) \/ Fault
          /\ UNCHANGED conf
          /\ rec' = [rec EXCEPT !.todo = @ \ {u}, !.failed = TRUE]
    /\ KeepMap /\ UNCHANGED <<cache, queued, cluster, restarts, config, edits>>

SomeFailed ==
    /\ rec.pc = "send" /\ rec.todo = {} /\ rec.failed
    /\ UpdateFailed(rec.acked)
    /\ Kept

\* The member statuses of an earlier attempt stay.
AllSent ==
    /\ rec.pc = "send" /\ rec.todo = {} /\ ~rec.failed
    /\ UpdateMapStatus("Persisting", rec.map.acked, To("validate"), FALSE)
    /\ Kept

\* validateMapConfigPersistence
InSecret == secret = CreateMapConfig(rec.map.spec)

ValidateFound ==
    /\ rec.pc = "validate" /\ InSecret
    /\ rec' = To("annotate")
    /\ KeepMap /\ UNCHANGED <<queued, mishaps>> /\ Kept

ValidateMissing ==
    /\ rec.pc = "validate" /\ ~InSecret
    /\ UpdateMapStatus("Persisting", rec.map.acked, Idle, TRUE)
    /\ Kept

ValidateFailed ==
    /\ rec.pc = "validate" /\ Fault
    /\ Reported("Failed")
    /\ Kept

\* updateLastSuccessfulConfiguration; its error is only logged.
UpdateLastSuccessful ==
    /\ rec.pc = "annotate"
    /\ LET copy == [rec.base EXCEPT !.ann = rec.map.spec]
       IN \/ /\ ~Conflict /\ NoFault
             /\ Store(copy)
             /\ rec' = [To("final") EXCEPT !.map = copy, !.base = copy]
          \/ /\ (Conflict /\ NoFault) \/ Fault
             /\ KeepMap
             /\ rec' = [To("final") EXCEPT !.map.ann = rec.map.spec]
    /\ Forget /\ Kept

Succeed ==
    /\ rec.pc = "final"
    /\ UpdateMapStatus("Success", {}, Idle, FALSE)
    /\ Kept

----------------------------------------------------------------------------
Worker ==
    \/ AddFinalizer \/ StartDelete \/ ExecuteFinalizer
    \/ SetupFailed \/ SetupApplied \/ SetupDone
    \/ FillFailed \/ \E u \in UUIDs : InvokeOnMember(u)
    \/ SomeFailed \/ AllSent \/ ValidateFound \/ ValidateMissing \/ ValidateFailed
    \/ UpdateLastSuccessful \/ Succeed

Next ==
    \/ \E f \in DOMAIN FirstSpec : Edit(f)
    \/ Delete \/ SyncCache \/ Restart
    \/ ClusterUp \/ ClusterDown \/ \E m \in Members : MemberRestart(m)
    \/ BuildConfig \/ WriteSecret
    \/ Reconcile \/ Worker

Spec == Init /\ [][Next]_vars

\* The worker takes what is queued and goes on, the caches follow, the status
\* service triggers the Hazelcast controller every ten seconds, and the
\* cluster gets ready.
FairSpec ==
    /\ Spec
    /\ WF_vars(Reconcile) /\ WF_vars(Worker) /\ WF_vars(SyncCache)
    /\ WF_vars(BuildConfig) /\ WF_vars(WriteSecret)
    /\ WF_vars(ClusterUp)

----------------------------------------------------------------------------
(* Properties.                                                             *)

\* What may be applied after a: the cluster supports it, and the fixed fields
\* are those of a.
Admissible(a, s) == s.fixed \in 0..1 /\ (a = None \/ a.fixed = s.fixed)

\* What the controller implements: no stale copy, swallowed conflict, failed
\* call or restart declares applied what the user does not want at that moment
\* or what may not follow (updateLastSuccessfulConfiguration, ValidateMapSpec).
Applied == INSTANCE AppliedConfig
               WITH live <- map.live, wanted <- map.spec, applied <- map.ann

\* In the end the map is gone, or the state tells whether the spec is the
\* applied one and the Secret holds the applied configuration.
Converged ==
    \/ ~map.live
    \/ /\ map.state = IF map.spec = map.ann THEN "Success" ELSE "Failed"
       /\ secret = CreateMapConfig(map.ann)

\* When the map is taken for applied, every member has a configuration of it,
\* unless it restarted since: then it has what was in the Secret.
AppliedOnMembers ==
    map.ann # None => \A m \in Members : restarts[m] = 0 => conf[m] # None

----------------------------------------------------------------------------
(* The inductive invariant behind the safety properties.                   *)

\* There is a mishap for every restart of a member.
RestartInv == \A m \in Members : restarts[m] <= mishaps

IsLive(o) == o.live

\* What the worker's copy and the version it was read as share, although
\* conflicts are swallowed: the spec, always, and until the annotation is
\* written that this spec may be applied.
CopyInv ==
    /\ rec.pc # "idle" => IsLive(rec.base) /\ rec.map.spec = rec.base.spec
    /\ rec.pc \in {"finalizer", "setup", "terminating"} => rec.map = rec.base
    /\ rec.pc \in {"send", "validate", "annotate"} => Admissible(rec.base.ann, rec.base.spec)

\* The members of s that have not restarted have a configuration.
Confirmed(s, c, n) == \A m \in Members : n[m] = 0 /\ <<m, 0>> \in s => c[m] # None

\* Every member has a configuration, or started from the Secret.
Everywhere(c, n) == \A m \in Members : n[m] = 0 => c[m] # None

\* What a version of the object says of the members is the case.  An update
\* gives no configuration to a member that has none, so that a version with an
\* annotation has to be right about all of them.
Truthful(o, c, n) == Confirmed(o.acked, c, n) /\ (o.ann # None => Everywhere(c, n))

AckInv ==
    /\ Truthful(map, conf, restarts) /\ Truthful(cache, conf, restarts)
    /\ Truthful(rec.map, conf, restarts) /\ Truthful(rec.base, conf, restarts)
    /\ Confirmed(rec.acked, conf, restarts)

\* Who has not failed and is not called any more has answered.
SentInv ==
    /\ rec.pc = "send" /\ ~rec.failed =>
           \A m \in Members : restarts[m] = 0 => <<m, 0>> \in rec.todo \cup rec.acked
    /\ rec.pc \in {"validate", "annotate"} => Everywhere(conf, restarts)

Inv == TypeOK /\ RestartInv /\ CopyInv /\ AckInv /\ SentInv

============================================================================
