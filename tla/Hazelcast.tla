----------------------------- MODULE Hazelcast -----------------------------
(***************************************************************************)
(* The controller of the Hazelcast resource: Reconcile creates the roles,  *)
(* the services, the configuration and the StatefulSet of a cluster,       *)
(* connects to it and reports it as Running; when the resource is deleted  *)
(* it removes what no owner reference covers.                              *)
(*                                                                         *)
(* One action is the code between two calls that leave the process.  The   *)
(* calls that only this worker makes on objects nobody else writes are one *)
(* action.  Reads come from informer caches, which lag behind.             *)
(***************************************************************************)
EXTENDS Naturals, FiniteSets, Sequences

CONSTANTS
    Specs,         \* the specs the user may choose from
    MaxSize,       \* the largest cluster size
    MaxEdits,      \* how often the user may edit the spec
    MaxMishaps,    \* how many calls may fail, connections get lost and
                   \* operators restart, taken together
    Dependents,    \* the kinds of resources that refer to the cluster
    Lagging,       \* the cluster roles of which the cache may lag behind
    Deleted        \* whether the user deletes the resource

\* smart: ExposeExternally has type Smart, with one service per pod.
\* kind: what is wrong with the spec, or that nothing is.
Kinds == {"enterprise", "opensource", "invalid"}

\* What has no owner reference.
ClusterRoles == {"ClusterRole", "ClusterRoleBinding"}

ASSUME ConstantsAssumption ==
    /\ MaxSize \in Nat \ {0} /\ MaxEdits \in Nat /\ MaxMishaps \in Nat
    /\ Specs \subseteq [size: 1..MaxSize, smart: BOOLEAN, kind: Kinds]
    /\ IsFiniteSet(Dependents) /\ Lagging \subseteq ClusterRoles
    /\ Deleted \in BOOLEAN

VARIABLES
    hz,            \* the resource at the API server
    cache,         \* the informer cache of it
    queued,        \* whether it is in the work queue
    sts, stsCache, \* the StatefulSet and the cache of it
    svc, svcCache, \* the service of each pod and the cache of them
    endpoints,     \* the pods with a HazelcastEndpoint
    secret,        \* the spec whose configuration is in the Secret
    roles,         \* the roles, bindings and cluster-wide services
    rolesCache,    \* the lagging cluster roles that the cache shows
    missed,        \* the cluster roles that the last clean up did not find
    deps, depsCache, \* the dependent resources and the cache of them
    members,       \* the kind of the members that run
    client,        \* the client of the client registry
    status,        \* whether the status service runs
    rec,           \* the worker of the controller
    mishaps        \* how many mishaps happened so far

exposed   == <<svc, svcCache, endpoints>>
stateful  == <<sts, stsCache, members>>
general   == <<roles, rolesCache, missed>>
dependent == <<deps, depsCache>>
process   == <<client, status>>
vars == <<hz, cache, queued, stateful, exposed, secret, general, dependent,
          process, rec, mishaps>>

----------------------------------------------------------------------------
(* The objects.                                                            *)

None == [size |-> 0, smart |-> FALSE, kind |-> "invalid"]
Pods == 0..(MaxSize - 1)

Phases == {"", "Pending", "Running", "Failed", "Terminating"}

\* A spec with, if merged, the default properties the operator adds to it.
Full   == [of: Specs, merged: BOOLEAN]
NoSpec == [of |-> None, merged |-> FALSE]

\* applied and success are the annotations with the last applied and the last
\* successful spec; illegal says that the message is illegalClusterType.
Objects == [live: BOOLEAN, deleting: BOOLEAN, fin: BOOLEAN, generation: 0..MaxEdits,
            spec: Full \cup {NoSpec}, applied: Full \cup {NoSpec},
            success: Full \cup {NoSpec}, phase: Phases, illegal: BOOLEAN]

New(s) == [live |-> TRUE, deleting |-> FALSE, fin |-> FALSE, generation |-> 0,
           spec |-> [of |-> s, merged |-> FALSE], applied |-> NoSpec,
           success |-> NoSpec, phase |-> "", illegal |-> FALSE]
Gone == [New(None) EXCEPT !.live = FALSE]

\* count is the ServicePerPodCount annotation, 0 without; ready says that all
\* replicas of the current generation are ready.
StatefulSets == [live: BOOLEAN, spec: Specs \cup {None}, count: 0..MaxSize,
                 ready: BOOLEAN]
NoSts == [live |-> FALSE, spec |-> None, count |-> 0, ready |-> FALSE]

\* A service waits for its external address, or has it.
Services == [Pods -> {"none", "pending", "ready"}]

Order == <<"ServiceAccount", "Role", "RoleBinding", "ClusterRole",
           "ClusterRoleBinding", "Service", "WANServices">>
Roles == {Order[k] : k \in 1..Len(Order)}

\* h is the worker's copy, base the version it was read or written as, and
\* upd the status update to be made: the phase, what becomes of the message,
\* and whether the object is queued again once it is written.
Idle == [pc |-> "idle", h |-> Gone, base |-> Gone,
         upd |-> [phase |-> "", message |-> "keep", again |-> FALSE]]

PCs == {"idle", "finalizer", "applied", "roles", "services", "endpoints", "unused",
        "config", "sts", "check", "enterprise", "connected", "success", "update",
        "terminating", "dependents", "cleanup", "remove"}

Updates == [phase: Phases, message: {"keep", "other", "illegal"}, again: BOOLEAN]

TypeOK ==
    /\ hz \in Objects /\ cache \in Objects /\ queued \in BOOLEAN
    /\ sts \in StatefulSets /\ stsCache \in StatefulSets
    /\ svc \in Services /\ svcCache \in Services
    /\ endpoints \subseteq Pods /\ secret \in Specs \cup {None}
    /\ roles \subseteq Roles /\ rolesCache \subseteq Lagging
    /\ missed \subseteq ClusterRoles
    /\ deps \in [Dependents -> {"none", "live", "deleting"}]
    /\ depsCache \in [Dependents -> {"none", "live", "deleting"}]
    /\ members \in Kinds \cup {"none"}
    /\ client \in {"none", "connected", "lost"} /\ status \in BOOLEAN
    /\ rec \in [pc: PCs, h: Objects, base: Objects, upd: Updates]
    /\ mishaps \in 0..MaxMishaps

Init ==
    /\ \E s \in Specs : hz = New(s)
    /\ cache = Gone /\ queued = FALSE
    /\ sts = NoSts /\ stsCache = NoSts /\ members = "none"
    /\ svc = [i \in Pods |-> "none"] /\ svcCache = svc /\ endpoints = {}
    /\ secret = None /\ roles = {} /\ rolesCache = {} /\ missed = {}
    /\ deps = [d \in Dependents |-> "none"] /\ depsCache = deps
    /\ client = "none" /\ status = FALSE
    /\ rec = Idle /\ mishaps = 0

----------------------------------------------------------------------------
(* The user.                                                               *)

Fault   == mishaps < MaxMishaps /\ mishaps' = mishaps + 1
NoFault == UNCHANGED mishaps

Edit ==
    /\ hz.live /\ hz.generation < MaxEdits
    /\ \E s \in Specs \ {hz.spec.of} :
          hz' = [hz EXCEPT !.spec.of = s, !.generation = @ + 1]
    /\ UNCHANGED <<cache, queued, stateful, exposed, secret, general, dependent,
                   process, rec, mishaps>>

Delete ==
    /\ Deleted
    /\ hz.live /\ ~hz.deleting
    /\ hz' = IF hz.fin THEN [hz EXCEPT !.deleting = TRUE] ELSE Gone
    /\ UNCHANGED <<cache, queued, stateful, exposed, secret, general, dependent,
                   process, rec, mishaps>>

\* A dependent resource is created while the cluster is not being deleted.
CreateDependent(d) ==
    /\ hz.live /\ ~hz.deleting
    /\ deps[d] = "none" /\ depsCache[d] = "none"
    /\ deps' = [deps EXCEPT ![d] = "live"]
    /\ UNCHANGED <<hz, cache, queued, stateful, exposed, secret, general, depsCache,
                   process, rec, mishaps>>

\* The controller of the dependent resource removes its finalizer.
FinishDependent(d) ==
    /\ deps[d] = "deleting"
    /\ deps' = [deps EXCEPT ![d] = "none"]
    /\ UNCHANGED <<hz, cache, queued, stateful, exposed, secret, general, depsCache,
                   process, rec, mishaps>>

----------------------------------------------------------------------------
(* The caches, the cluster and the operator process.                       *)

\* The watches of SetupWithManager queue the resource when its cache, or the
\* cache of what it owns, follows.
SyncCache ==
    /\ cache # hz
    /\ cache' = hz /\ queued' = TRUE
    /\ UNCHANGED <<hz, stateful, exposed, secret, general, dependent, process, rec,
                   mishaps>>

SyncSts ==
    /\ stsCache # sts
    /\ stsCache' = sts /\ queued' = TRUE
    /\ UNCHANGED <<hz, cache, sts, members, exposed, secret, general, dependent,
                   process, rec, mishaps>>

SyncServices ==
    /\ svcCache # svc
    /\ svcCache' = svc /\ queued' = TRUE
    /\ UNCHANGED <<hz, cache, stateful, svc, endpoints, secret, general, dependent,
                   process, rec, mishaps>>

\* Maps and user code namespaces are watched, the other kinds are not.
SyncDependents ==
    /\ depsCache # deps
    /\ depsCache' = deps /\ queued' \in {queued, TRUE}
    /\ UNCHANGED <<hz, cache, stateful, exposed, secret, general, deps, process, rec,
                   mishaps>>

\* Nobody watches the cluster roles.
SyncRoles ==
    /\ \E r \in Lagging :
          /\ (r \in roles) # (r \in rolesCache)
          /\ rolesCache' = IF r \in roles THEN rolesCache \cup {r} ELSE rolesCache \ {r}
    /\ UNCHANGED <<hz, cache, queued, stateful, exposed, secret, roles, missed,
                   dependent, process, rec, mishaps>>

\* The members of the StatefulSet's template are up.
StsReady ==
    /\ sts.live /\ ~sts.ready
    /\ sts' = [sts EXCEPT !.ready = TRUE]
    /\ members' = sts.spec.kind
    /\ UNCHANGED <<hz, cache, queued, stsCache, exposed, secret, general, dependent,
                   process, rec, mishaps>>

AssignAddress ==
    /\ \E i \in Pods : svc[i] = "pending" /\ svc' = [svc EXCEPT ![i] = "ready"]
    /\ UNCHANGED <<hz, cache, queued, stateful, svcCache, endpoints, secret, general,
                   dependent, process, rec, mishaps>>

\* The garbage collector removes what has lost its owner: the endpoint of a
\* service, and what the resource owned.  Cluster roles have no owner.
CollectGarbage ==
    /\ endpoints' = {i \in endpoints : svc[i] # "none"}
    /\ IF hz.live
       THEN UNCHANGED <<sts, svc, secret, roles, members>>
       ELSE /\ sts' = NoSts /\ members' = "none"
            /\ svc' = [i \in Pods |-> "none"]
            /\ secret' = None /\ roles' = roles \cap ClusterRoles
    /\ <<endpoints, sts, svc, secret, roles>>' # <<endpoints, sts, svc, secret, roles>>
    /\ UNCHANGED <<hz, cache, queued, stsCache, svcCache, rolesCache, missed, dependent,
                   process, rec, mishaps>>

LoseConnection ==
    /\ client = "connected" /\ Fault
    /\ client' = "lost"
    /\ UNCHANGED <<hz, cache, queued, stateful, exposed, secret, general, dependent,
                   status, rec>>

Reconnect ==
    /\ client = "lost"
    /\ client' = "connected"
    /\ UNCHANGED <<hz, cache, queued, stateful, exposed, secret, general, dependent,
                   status, rec, mishaps>>

\* The status service triggers the controller every ten seconds.
Tick ==
    /\ status /\ ~queued
    /\ queued' = TRUE
    /\ UNCHANGED <<hz, cache, stateful, exposed, secret, general, dependent, process,
                   rec, mishaps>>

Restart ==
    /\ Fault
    /\ cache' = hz /\ stsCache' = sts /\ svcCache' = svc /\ depsCache' = deps
    /\ rolesCache' = roles \cap Lagging
    /\ queued' = TRUE
    /\ client' = "none" /\ status' = FALSE
    /\ rec' = Idle
    /\ UNCHANGED <<hz, sts, members, svc, endpoints, secret, roles, missed, deps>>

\* The controller of a dependent resource asks the registry for a client.
OtherClient ==
    /\ cache.live /\ cache.phase = "Running"
    /\ client = "none"
    /\ client' = "connected"
    /\ UNCHANGED <<hz, cache, queued, stateful, exposed, secret, general, dependent,
                   status, rec, mishaps>>

----------------------------------------------------------------------------
(* Where a step of the worker leads.                                       *)

To(pc) == rec' = [rec EXCEPT !.pc = pc]

\* The status is to be updated: phase p, message m, and queued again if a.
ToUpdate(p, m, a) ==
    rec' = [rec EXCEPT !.pc = "update",
                       !.upd = [phase |-> p, message |-> m, again |-> a]]

\* An error: withHzFailedPhase and recoptions.Error.
Fail == ToUpdate("Failed", "other", TRUE)

\* withHzPhase(Pending) and recoptions.RetryAfter.
Wait(m) == ToUpdate("Pending", m, TRUE)

Stop    == rec' = Idle /\ UNCHANGED queued
Requeue == queued' = TRUE

\* The API server rejects a write of the worker's copy.
Conflict == rec.base # hz

\* An Update of the resource: h is stored, or the call fails.
Stored(h, pc) ==
    /\ ~Conflict /\ NoFault
    /\ hz' = h
    /\ rec' = [rec EXCEPT !.pc = pc, !.h = h, !.base = h]

NotStored == ((Conflict /\ NoFault) \/ Fault) /\ UNCHANGED hz

\* What the steps of the worker leave alone.
Kept == UNCHANGED <<cache, stsCache, svcCache, rolesCache, depsCache>>

KeptCluster == UNCHANGED <<sts, members, svc, endpoints, secret, roles, missed, deps>>

Wanted == rec.h.spec.of

----------------------------------------------------------------------------
(* Reconcile: the resource itself.                                         *)

Reconcile ==
    /\ rec.pc = "idle" /\ queued
    /\ queued' = FALSE
    /\ rec' = IF ~cache.live THEN Idle
              ELSE [Idle EXCEPT !.h = cache, !.base = cache,
                        !.pc = CASE cache.deleting -> "terminating"
                                 [] ~cache.deleting /\ ~cache.fin -> "finalizer"
                                 [] OTHER -> "applied"]
    /\ UNCHANGED <<hz, process, mishaps>> /\ KeptCluster /\ Kept

AddFinalizer ==
    /\ rec.pc = "finalizer"
    /\ \/ Stored([rec.h EXCEPT !.fin = TRUE], "applied")
       \/ NotStored /\ Fail
    /\ UNCHANGED <<queued, process>> /\ KeptCluster /\ Kept

IsSpecChanged == rec.h.applied # rec.h.spec

\* A cluster that was refused is left alone until its spec changes.
Refused ==
    /\ rec.pc = "applied"
    /\ ~IsSpecChanged /\ rec.h.illegal
    /\ Stop
    /\ UNCHANGED <<hz, process, mishaps>> /\ KeptCluster /\ Kept

UpdateLastAppliedSpec ==
    /\ rec.pc = "applied"
    /\ \/ /\ ~IsSpecChanged /\ ~rec.h.illegal
          /\ To("roles")
          /\ UNCHANGED <<hz, mishaps>>
       \/ /\ IsSpecChanged
          /\ Stored([rec.h EXCEPT !.applied = rec.h.spec], "roles")
       \/ IsSpecChanged /\ NotStored /\ Fail
    /\ UNCHANGED <<queued, process>> /\ KeptCluster /\ Kept

\* ValidateHazelcastSpec, then what is created alike for every spec; a call
\* that fails leaves the rest undone.
ReconcileRoles ==
    /\ rec.pc = "roles"
    /\ \/ /\ Wanted.kind = "invalid"
          /\ Fail /\ UNCHANGED <<roles, mishaps>>
       \/ /\ Wanted.kind # "invalid" /\ NoFault
          /\ roles' = Roles
          /\ To("services")
       \/ /\ Wanted.kind # "invalid" /\ Fault
          /\ \E n \in 0..(Len(Order) - 1) :
                roles' = roles \cup {Order[k] : k \in 1..n}
          /\ Fail
    /\ UNCHANGED <<hz, queued, sts, members, svc, endpoints, secret, missed, deps, process>>
    /\ Kept

----------------------------------------------------------------------------
(* Reconcile: the services per pod and their endpoints.                    *)

\* The number of services per pod the spec asks for.
PerPod == IF Wanted.smart THEN Wanted.size ELSE 0

\* CreateOrUpdateForce: a service the cache does not show is created.
ReconcileServicePerPod ==
    /\ rec.pc = "services"
    /\ \E n \in 0..PerPod :
          /\ svc' = [i \in Pods |->
                        IF i < n /\ svcCache[i] = "none" /\ svc[i] = "none"
                        THEN "pending" ELSE svc[i]]
          /\ IF n = PerPod THEN To("endpoints") /\ NoFault ELSE Fail /\ Fault
    /\ UNCHANGED <<hz, queued, sts, members, endpoints, secret, roles, missed, deps, process>>
    /\ Kept

\* Every service of the cache has an endpoint, and no other has.  A call that
\* fails leaves the later endpoints uncreated, or the later ones undeleted.
ReconcileHazelcastEndpoints ==
    LET listed == {i \in Pods : svcCache[i] # "none"}
    IN /\ rec.pc = "endpoints"
       /\ \/ endpoints' = listed /\ To("unused") /\ NoFault
          \/ /\ endpoints' \in {endpoints \cup P : P \in SUBSET listed}
                              \cup {listed \cup P : P \in SUBSET endpoints}
             /\ Fail /\ Fault
       /\ UNCHANGED <<hz, queued, sts, members, svc, secret, roles, missed, deps, process>>
       /\ Kept

\* The services beyond those asked for, up to the number in the annotation.
Unused == {i \in Pods : /\ stsCache.live /\ PerPod <= i /\ i < stsCache.count
                        /\ svcCache[i] # "none"}

ReconcileUnusedServicePerPod ==
    /\ rec.pc = "unused"
    /\ \E U \in SUBSET Unused :
          /\ svc' = [i \in Pods |-> IF i \in U THEN "none" ELSE svc[i]]
          /\ \/ U = Unused /\ To("config") /\ NoFault
             \/ Fail /\ Fault
    /\ UNCHANGED <<hz, queued, sts, members, endpoints, secret, roles, missed, deps, process>>
    /\ Kept

\* Fault: one service too many is asked for.
IsServicePerPodReadyNext == \A i \in Pods : i <= PerPod => svcCache[i] = "ready"

IsServicePerPodReady == \A i \in Pods : i < PerPod => svcCache[i] = "ready"

----------------------------------------------------------------------------
(* Reconcile: the configuration and the StatefulSet.                       *)

\* reconcileSecret, reconcileInitContainerConfig and reconcileMTLSSecret; the
\* configuration merges the default properties into the worker's copy.
ReconcileSecret ==
    /\ rec.pc = "config"
    /\ \/ /\ ~IsServicePerPodReady
          /\ Wait("keep") /\ NoFault /\ UNCHANGED secret
       \/ /\ IsServicePerPodReady /\ NoFault
          /\ secret' = Wanted
          /\ rec' = [rec EXCEPT !.pc = "sts", !.h.spec.merged = TRUE]
       \/ /\ IsServicePerPodReady /\ Fault
          /\ secret' \in {secret, Wanted}
          /\ Fail
    /\ UNCHANGED <<hz, queued, sts, members, svc, endpoints, roles, missed, deps, process>>
    /\ Kept

\* The StatefulSet of the spec; the annotation is written for smart specs.
Desired(old) ==
    [old EXCEPT !.live = TRUE, !.spec = Wanted,
                !.count = IF Wanted.smart THEN Wanted.size ELSE @,
                !.ready = @ /\ old.spec = Wanted]

ReconcileStatefulset ==
    /\ rec.pc = "sts"
    /\ \/ \* nothing to do, or created before and not yet in the cache
          /\ IF stsCache.live THEN Desired(stsCache) = stsCache ELSE sts.live
          /\ To("check") /\ NoFault /\ UNCHANGED <<sts, queued>>
       \/ /\ ~stsCache.live /\ ~sts.live
          /\ sts' = Desired(NoSts)
          /\ To("check") /\ NoFault /\ UNCHANGED queued
       \/ /\ stsCache.live /\ Desired(stsCache) # stsCache /\ sts = stsCache
          /\ sts' = Desired(sts)
          /\ To("check") /\ NoFault /\ UNCHANGED queued
       \/ \* a conflict is left to the next reconcile loop
          /\ stsCache.live /\ Desired(stsCache) # stsCache /\ sts # stsCache
          /\ IF sts.live THEN Stop ELSE Fail /\ UNCHANGED queued
          /\ NoFault /\ UNCHANGED sts
       \/ Fault /\ Fail /\ UNCHANGED <<sts, queued>>
    /\ UNCHANGED <<hz, members, svc, endpoints, secret, roles, missed, deps, process>>
    /\ Kept

----------------------------------------------------------------------------
(* Reconcile: the running cluster.                                         *)

\* CheckIfRunning, for the StatefulSet of the cache.
IsRunning == stsCache.live /\ stsCache.ready /\ stsCache.spec.size = Wanted.size

\* The startup action may fail, the StatefulSet may be missing or not ready,
\* or its pods may have failed.
NotRunning ==
    /\ rec.pc = "check"
    /\ \/ ~IsRunning /\ NoFault /\ Wait("other")
       \/ Fault /\ Wait("keep")
       \/ stsCache.live /\ ~IsRunning /\ Fault /\ Fail
    /\ UNCHANGED <<hz, queued, process>> /\ KeptCluster /\ Kept

\* GetOrCreate of the client, and Create of the status service, which
\* triggers the controller when it starts.
Connect ==
    /\ rec.pc = "check" /\ IsRunning
    /\ \/ /\ NoFault
          /\ cache.live
          /\ client' = IF client = "none" THEN "connected" ELSE client
          /\ status' = TRUE
          /\ queued' = (queued \/ ~status)
          /\ To("enterprise")
       \/ /\ IF cache.live THEN client = "none" /\ Fault ELSE NoFault
          /\ Wait("other")
          /\ UNCHANGED <<queued, process>>
    /\ UNCHANGED hz /\ KeptCluster /\ Kept

\* What a member may answer: the old ones run until the last one is replaced.
Answers == ({members} \cup IF sts.live THEN {sts.spec.kind} ELSE {}) \ {"none"}

IsEnterpriseCluster ==
    /\ rec.pc = "enterprise"
    /\ \/ /\ client = "connected" /\ "enterprise" \in Answers /\ NoFault
          /\ To("connected")
          /\ UNCHANGED <<sts, members, queued>>
       \/ /\ client = "connected" /\ "opensource" \in Answers /\ NoFault
          /\ sts' = NoSts /\ members' = "none"
          /\ ToUpdate("Failed", "illegal", TRUE) /\ UNCHANGED queued
       \/ \* the StatefulSet cannot be deleted
          /\ client = "connected" /\ "opensource" \in Answers /\ Fault
          /\ rec' = Idle /\ Requeue
          /\ UNCHANGED <<sts, members>>
       \/ \* the member cannot be asked
          /\ IF client = "connected" /\ members # "none" THEN Fault ELSE NoFault
          /\ Fail
          /\ UNCHANGED <<sts, members, queued>>
    /\ UNCHANGED <<hz, svc, endpoints, secret, roles, missed, deps, process>> /\ Kept

\* ensureClusterActive may fail; a client without connection is removed with
\* its status service; some members may not be accessible.
IsClientConnected ==
    /\ rec.pc = "connected"
    /\ \/ /\ client = "connected" /\ NoFault
          /\ To("success")
          /\ UNCHANGED process
       \/ /\ client # "connected" /\ NoFault
          /\ client' = "none" /\ status' = FALSE
          /\ Wait("other")
       \/ /\ Fault
          /\ Wait("keep") \/ Wait("other")
          /\ UNCHANGED process
    /\ UNCHANGED <<hz, queued>> /\ KeptCluster /\ Kept

ToRunning(h, base) ==
    rec' = [rec EXCEPT !.pc = "update", !.h = h, !.base = base,
                       !.upd = [phase |-> "Running", message |-> "other",
                                again |-> FALSE]]

\* An error is only logged.  The properties merged into the copy are stored
\* together with the annotation.
UpdateLastSuccessfulConfiguration ==
    /\ rec.pc = "success"
    /\ LET h == [rec.h EXCEPT !.success = rec.h.spec]
       IN \/ /\ h = rec.h /\ NoFault
             /\ ToRunning(h, rec.base) /\ UNCHANGED hz
          \/ /\ h # rec.h /\ ~Conflict /\ NoFault
             /\ hz' = h /\ ToRunning(h, h)
          \/ h # rec.h /\ NotStored /\ ToRunning(h, rec.base)
    /\ UNCHANGED <<queued, process>> /\ KeptCluster /\ Kept

\* update: only the status is written.  A conflict ends the reconciliation
\* without an error.
Update ==
    /\ rec.pc = "update"
    /\ rec' = Idle
    /\ \/ /\ ~Conflict /\ NoFault
          /\ hz' = [hz EXCEPT !.phase = rec.upd.phase,
                              !.illegal = \/ rec.upd.message = "illegal"
                                          \/ rec.upd.message = "keep" /\ @]
          /\ queued' = (queued \/ rec.upd.again)
       \/ /\ Conflict /\ hz.live /\ NoFault
          /\ UNCHANGED <<hz, queued>>
       \/ /\ IF hz.live THEN Fault ELSE NoFault
          /\ Requeue /\ UNCHANGED hz
    /\ UNCHANGED process /\ KeptCluster /\ Kept

----------------------------------------------------------------------------
(* Reconcile: the resource is deleted.                                     *)

\* Any error of the update to Terminating is ignored.
Terminate ==
    /\ rec.pc = "terminating"
    /\ \/ Stored([rec.h EXCEPT !.phase = "Terminating"], "dependents")
       \/ NotStored /\ To("dependents")
    /\ UNCHANGED <<queued, process>> /\ KeptCluster /\ Kept

\* Fault: without dependent resources nothing is taken for created yet.
DeleteDependentCRsOnly ==
    /\ rec.pc = "dependents"
    /\ LET listed == {d \in Dependents : depsCache[d] # "none"}
       IN \/ listed = {} /\ To("remove") /\ UNCHANGED deps
          \/ /\ ToUpdate("Terminating", "other", TRUE)
             /\ \E d \in listed : deps' = [deps EXCEPT ![d] = "deleting"]
    /\ UNCHANGED <<hz, queued, sts, members, svc, endpoints, secret, roles, missed, process,
                   mishaps>>
    /\ Kept

\* deleteDependentCRs stops at the first kind of which the cache shows a
\* resource, after it has deleted it.
DeleteDependentCRs ==
    /\ rec.pc = "dependents"
    /\ LET listed == {d \in Dependents : depsCache[d] # "none"}
       IN \/ listed = {} /\ To("cleanup") /\ NoFault /\ UNCHANGED deps
          \/ /\ ToUpdate("Terminating", "other", TRUE) /\ NoFault
             /\ \E d \in listed :
                   deps' = [deps EXCEPT ![d] = IF depsCache[d] = "live" /\ @ = "live"
                                               THEN "deleting" ELSE @]
          \/ ToUpdate("Terminating", "other", TRUE) /\ Fault /\ UNCHANGED deps
    /\ UNCHANGED <<hz, queued, sts, members, svc, endpoints, secret, roles, missed, process>>
    /\ Kept

\* The cluster roles that the caches show.
Shown == (roles \cap (ClusterRoles \ Lagging)) \cup rolesCache

\* The cluster roles, the status service and the client.  A cluster role that
\* the cache does not show is taken for removed, one that it still shows cannot
\* be deleted again, and a failing call leaves the rest undone.  The Shutdown
\* of the client may fail when it is no longer in the registry.
CleanUp ==
    /\ rec.pc = "cleanup"
    /\ \/ /\ Shown \subseteq roles
          /\ roles' = roles \ Shown
          /\ status' = FALSE /\ client' = "none"
          /\ \/ /\ To("remove") /\ NoFault
                /\ missed' = (roles \cap ClusterRoles) \ Shown
             \/ /\ ToUpdate("Terminating", "other", TRUE) /\ client # "none" /\ Fault
                /\ UNCHANGED missed
       \/ /\ ~(Shown \subseteq roles) /\ NoFault
          /\ roles' = roles \ (Shown \cap {"ClusterRole"})
          /\ ToUpdate("Terminating", "other", TRUE)
          /\ UNCHANGED <<process, missed>>
       \/ /\ roles' \in {roles, roles \ (Shown \cap {"ClusterRole"})}
          /\ ToUpdate("Terminating", "other", TRUE) /\ Fault
          /\ UNCHANGED <<process, missed>>
    /\ UNCHANGED <<hz, queued, sts, members, svc, endpoints, secret, deps>> /\ Kept

RemoveFinalizer ==
    /\ rec.pc = "remove"
    /\ \/ ~Conflict /\ NoFault /\ hz' = Gone /\ rec' = Idle
       \/ NotStored /\ ToUpdate("Terminating", "other", TRUE)
    /\ UNCHANGED <<queued, process>> /\ KeptCluster /\ Kept

----------------------------------------------------------------------------
Worker ==
    \/ AddFinalizer \/ Refused \/ UpdateLastAppliedSpec \/ ReconcileRoles
    \/ ReconcileServicePerPod \/ ReconcileHazelcastEndpoints
    \/ ReconcileUnusedServicePerPod \/ ReconcileSecret \/ ReconcileStatefulset
    \/ NotRunning \/ Connect \/ IsEnterpriseCluster \/ IsClientConnected
    \/ UpdateLastSuccessfulConfiguration \/ Update
    \/ Terminate \/ DeleteDependentCRs \/ CleanUp \/ RemoveFinalizer

Next ==
    \/ Edit \/ Delete
    \/ \E d \in Dependents : CreateDependent(d) \/ FinishDependent(d)
    \/ SyncCache \/ SyncSts \/ SyncServices \/ SyncDependents \/ SyncRoles
    \/ StsReady \/ AssignAddress \/ CollectGarbage
    \/ LoseConnection \/ Reconnect \/ Tick \/ Restart \/ OtherClient
    \/ Reconcile \/ Worker

Spec == Init /\ [][Next]_vars

\* The worker takes what is queued and goes on, the caches follow, and what
\* Kubernetes and the client do by themselves gets done.  Nothing is assumed
\* of the ticks of the status service.
FairSpec ==
    /\ Spec
    /\ WF_vars(Reconcile) /\ WF_vars(Worker)
    /\ WF_vars(SyncCache) /\ WF_vars(SyncSts) /\ WF_vars(SyncServices)
    /\ WF_vars(SyncDependents) /\ WF_vars(SyncRoles)
    /\ WF_vars(StsReady) /\ WF_vars(AssignAddress) /\ WF_vars(CollectGarbage)
    /\ WF_vars(Reconnect)
    /\ \A d \in Dependents : WF_vars(FinishDependent(d))

----------------------------------------------------------------------------
(* Properties.                                                             *)

\* The cluster of the resource runs as its spec says, and the resource tells.
Settled ==
    LET s == hz.spec.of
    IN /\ hz.phase = "Running"
       /\ hz.applied = hz.spec /\ hz.success = hz.spec
       /\ sts.live /\ sts.ready /\ sts.spec = s /\ secret = s /\ roles = Roles
       /\ s.smart => \A i \in 0..(s.size - 1) : svc[i] = "ready" /\ i \in endpoints

\* In the end the resource is gone, is reported as Failed because its spec is
\* not valid, or runs as its spec says.  Swallowed conflicts, stale caches,
\* failing calls and restarts do not keep Reconcile from that, and a deletion
\* always completes.
Converges ==
    <>[](hz.live =>
            /\ ~hz.deleting
            /\ hz.spec.of.kind = "invalid" => hz.phase = "Failed"
            /\ hz.spec.of.kind = "enterprise" => Settled)

\* What has no owner reference is removed before the resource goes
\* (executeFinalizer): no status service is left behind, and no cluster role but
\* one that its lagging cache did not show when the finalizer looked for it.
\* Nobody makes one again, whatever old version of the resource is around.
GoneIsCleanedUp ==
    ~hz.live => roles \cap ClusterRoles \subseteq missed \cap Lagging /\ ~status

\* "Delete unused services (when the cluster was scaled down)": in the end
\* only the pods of the spec have a service.
UnusedServicesDeleted ==
    <>[](hz.live /\ hz.phase = "Running" =>
            \A i \in Pods : svc[i] # "none" =>
                hz.spec.of.smart /\ i < hz.spec.of.size)

============================================================================
