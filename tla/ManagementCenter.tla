--------------------------- MODULE ManagementCenter ---------------------------
(***************************************************************************)
(* The ManagementCenter controller.  The security provider (LDAP) is set   *)
(* up by a command that the pod runs when it starts: it is in the          *)
(* StatefulSet while status.configured is FALSE, and it is taken out again *)
(* by a second rollout (phase Configuring) once the pod ran.  Everything   *)
(* else of the pod follows the spec; the Ingress and the Route exist while *)
(* the spec wants them.                                                    *)
(***************************************************************************)
EXTENDS Naturals

CONSTANTS
    Specs,         \* records of ldap (0 for none) and conn, for the connectivity
                   \* and the clusters (0 for neither an Ingress nor a Route)
    Edits,         \* the specs that the user may put in the place of each
    OpenShift,     \* whether the platform has Routes
    Lagging,       \* the sets of children whose caches may lag
    MaxEvents      \* how many edits and failed calls, together

VARIABLES
    mc,            \* the object at the API server
    cache,         \* the informer cache of it
    queued,        \* whether the object is in the work queue
    children,      \* the Service, Ingress, Route and Secret: the conn they have
    childCache,    \* the informer caches of those that may lag
    sts,           \* the StatefulSet: its template, and the one its pod runs
    stsCache,      \* the informer cache of it
    ldap,          \* the security provider that is set up in the data of the pod
    rec,           \* the worker: its step and its copy of the object
    unsure,        \* what a cache that was behind, or a lost annotation, left wrong
    events         \* how many edits and failed calls so far

kube == <<mc, cache, queued>>
pods == <<sts, stsCache, ldap>>
kids == <<children, childCache>>
vars == <<kube, kids, pods, rec, unsure, events>>

None == [ldap |-> 9, conn |-> 9]

New(s) == [live |-> TRUE, deleting |-> FALSE, fin |-> FALSE, generation |-> 1, spec |-> s,
           ann |-> None, phase |-> "", configured |-> FALSE]

Gone == [New(None) EXCEPT !.live = FALSE]

Idle == [pc |-> "idle", mc |-> Gone, phase |-> "", configured |-> FALSE, requeue |-> FALSE]

Order == <<"service", "ingress", "route", "secret">>

Kids == {Order[i] : i \in DOMAIN Order}

Init ==
    /\ mc \in {New(s) : s \in Specs}
    /\ cache = Gone /\ queued = FALSE
    /\ children = [c \in Kids |-> None.conn]
    /\ \E l \in Lagging : childCache = [c \in l |-> None.conn]
    /\ sts = [template |-> None, pod |-> None] /\ stsCache = sts /\ ldap = 0
    /\ rec = Idle /\ unsure = {} /\ events = 0

Fault   == events < MaxEvents /\ events' = events + 1
NoFault == UNCHANGED events

----------------------------------------------------------------------------
(* The user, the caches and the pod.                                       *)

Edit ==
    /\ mc.live /\ ~mc.deleting /\ Fault
    /\ \E s \in Edits[mc.spec] : mc' = [mc EXCEPT !.spec = s, !.generation = @ + 1]
    /\ UNCHANGED <<cache, queued, kids, pods, rec, unsure>>

Delete ==
    /\ mc.live /\ ~mc.deleting
    /\ mc' = IF mc.fin THEN [mc EXCEPT !.deleting = TRUE] ELSE Gone
    /\ UNCHANGED <<cache, queued, kids, pods, rec, unsure, events>>

SyncCache ==
    /\ cache # mc
    /\ cache' = mc /\ queued' = TRUE
    /\ UNCHANGED <<mc, kids, pods, rec, unsure, events>>

\* The controller owns the StatefulSet: its events queue the object.
SyncStatefulSet ==
    /\ stsCache # sts
    /\ stsCache' = sts /\ queued' = TRUE
    /\ UNCHANGED <<mc, cache, kids, sts, ldap, rec, unsure, events>>

\* It owns the Service too, but not the others: their events queue nothing.  The
\* cache of a child that does not lag has it as soon as it is written.
SyncChild(c) ==
    /\ childCache[c] # children[c]
    /\ childCache' = [childCache EXCEPT ![c] = children[c]]
    /\ queued' = (queued \/ c = "service")
    /\ UNCHANGED <<mc, cache, children, pods, rec, unsure, events>>

\* The pod is replaced by one of the template, which runs its init command.
PodStart ==
    /\ sts.pod # sts.template
    /\ sts' = [sts EXCEPT !.pod = sts.template]
    /\ ldap' = IF sts.template.ldap = 0 THEN ldap ELSE sts.template.ldap
    /\ UNCHANGED <<kube, kids, stsCache, rec, unsure, events>>

----------------------------------------------------------------------------
(* The worker.                                                             *)

To(pc) == [rec EXCEPT !.pc = pc]

\* update(...): the phase and whether the provider is configured, and whether
\* the object is queued again after a write that succeeds.
Report(phase, configured, requeue) ==
    [rec EXCEPT !.pc = "status", !.phase = phase, !.configured = configured, !.requeue = requeue]

Failed == Report("Failed", rec.mc.configured, TRUE)

Fresh == rec.mc = mc

Reconcile ==
    /\ rec.pc = "idle" /\ queued
    /\ queued' = FALSE
    /\ rec' = IF ~cache.live THEN Idle
              ELSE [Idle EXCEPT !.mc = cache,
                                !.pc = CASE cache.deleting                -> "final"
                                         [] ~cache.deleting /\ ~cache.fin -> "finalizer"
                                         [] ~cache.deleting /\ cache.fin  -> "children"]
    /\ UNCHANGED <<mc, cache, kids, pods, unsure, events>>

UpdateFinalizer ==
    /\ rec.pc \in {"finalizer", "final"}
    /\ \/ /\ Fresh /\ NoFault
          /\ mc' = IF rec.pc = "final" THEN Gone ELSE [mc EXCEPT !.fin = TRUE]
          /\ rec' = IF rec.pc = "final" THEN Idle ELSE [rec EXCEPT !.pc = "children", !.mc = mc']
       \/ ((~Fresh /\ NoFault) \/ Fault) /\ rec' = Failed /\ UNCHANGED mc
    /\ UNCHANGED <<cache, queued, kids, pods, unsure>>

\* What reconcileService, reconcileIngress, reconcileRoute and reconcileSecret
\* want for a spec.
Wanted(s) ==
    LET no == {c \in {"ingress", "route"} : s.conn = 0 \/ (c = "route" /\ ~OpenShift)}
    IN  [c \in Kids |-> IF c \in no THEN None.conn ELSE s.conn]

Cached(c) == IF c \in DOMAIN childCache THEN childCache[c] ELSE children[c]

\* CreateOrUpdateForce compares with the cached child.  One that is missing there
\* is created, and that it exists is no error; one that differs is updated, if it
\* is the one of the server.  What is not wanted is deleted whatever the cache.
Blocked(c, w) == w # None.conn /\ Cached(c) \notin {None.conn, w, children[c]}

After(c, w) == IF w = None.conn \/ Cached(c) = children[c] THEN w ELSE children[c]

\* isMCReconfigured.
Reconfigured(o) == o.ann # None /\ o.ann.ldap # o.spec.ldap /\ o.configured

\* One child after the other, until a call fails or an update is refused.
ReconcileChildren ==
    LET w == Wanted(rec.mc.spec)
        Stops(n) == n \in DOMAIN Order /\ Blocked(Order[n], w[Order[n]])
    IN /\ rec.pc = "children"
       /\ \E n \in 1..5 :
            LET done == {Order[i] : i \in 1..(n - 1)}
            IN /\ \A i \in 1..(n - 1) : ~Stops(i)
               /\ IF n = 5 \/ Stops(n) THEN NoFault ELSE Fault
               /\ children' = [c \in Kids |-> IF c \in done THEN After(c, w[c]) ELSE children[c]]
               /\ unsure' = (unsure \ Kids) \cup {c \in done : children'[c] # w[c]}
               /\ rec' = CASE n < 5 -> Failed
                           [] n = 5 /\ Reconfigured(rec.mc) -> Report("Pending", FALSE, TRUE)
                           [] n = 5 /\ ~Reconfigured(rec.mc) -> To("sts")
       /\ UNCHANGED <<mc, cache, childCache, pods>>
       /\ queued' = (queued \/ Cached("service")' # Cached("service"))

\* The pod template, with buildMcInitCmd.
Template(o) == [ldap |-> IF o.configured THEN 0 ELSE o.spec.ldap, conn |-> o.spec.conn]

\* reconcileStatefulset compares with the cached one, and what follows reads the
\* cached one again.  That it exists is no error, and a conflict ends the reconcile.
ReconcileStatefulSet ==
    /\ rec.pc = "sts"
    /\ \/ /\ \/ stsCache.template = Template(rec.mc)
             \/ stsCache.template = None /\ sts.template # None
          /\ NoFault /\ rec' = To("check") /\ UNCHANGED sts
       \/ /\ stsCache.template # Template(rec.mc) /\ stsCache = sts /\ NoFault
          /\ sts' = [sts EXCEPT !.template = Template(rec.mc)]
          /\ rec' = To("check")
       \/ /\ stsCache.template \notin {None, Template(rec.mc)} /\ stsCache # sts /\ NoFault
          /\ rec' = Idle /\ UNCHANGED sts
       \/ Fault /\ rec' = Failed /\ UNCHANGED sts
    /\ UNCHANGED <<kube, kids, stsCache, ldap, unsure>>

\* CheckIfRunning, of a StatefulSet that may be older than the one just written.
Running == stsCache.template # None /\ stsCache.pod = stsCache.template

CheckIfRunning ==
    /\ rec.pc = "check"
    /\ \/ Running /\ NoFault /\ rec' = To("annotate")
       \/ ~Running /\ NoFault /\ rec' = IF rec.mc.phase = "Configuring"
                                       THEN Report("Configuring", rec.mc.configured, FALSE)
                                       ELSE Report("Pending", rec.mc.configured, TRUE)
       \/ Fault /\ rec' = Failed
    /\ unsure' = unsure \cup (IF Running /\ stsCache.template # Template(rec.mc)
                             THEN {"ldap"} ELSE {})
    /\ UNCHANGED <<kube, kids, pods>>

\* The annotation; an error is only logged.
UpdateLastSuccessful ==
    /\ rec.pc = "annotate"
    /\ \/ Fresh /\ NoFault /\ mc' = [mc EXCEPT !.ann = mc.spec] /\ UNCHANGED unsure
       \/ ~Fresh /\ NoFault /\ UNCHANGED <<mc, unsure>>
       \/ Fault /\ unsure' = unsure \cup {"ldap"} /\ UNCHANGED mc
    /\ LET configure == rec.mc.spec.ldap # 0 /\ rec.mc.phase = "Pending" IN
       rec' = [Report(IF configure THEN "Configuring" ELSE "Running", rec.mc.configured \/ configure, FALSE)
                 EXCEPT !.mc = IF mc' = mc THEN rec.mc ELSE mc']
    /\ UNCHANGED <<cache, queued, kids, pods>>

UpdateStatus ==
    /\ rec.pc = "status"
    /\ \/ /\ Fresh /\ NoFault
          /\ mc' = [mc EXCEPT !.phase = rec.phase, !.configured = rec.configured]
          /\ queued' = (queued \/ rec.requeue)
       \/ ((~Fresh /\ NoFault) \/ Fault) /\ queued' = TRUE /\ UNCHANGED mc
    /\ rec' = Idle
    /\ UNCHANGED <<cache, kids, pods, unsure>>

----------------------------------------------------------------------------
Worker ==
    \/ Reconcile \/ UpdateFinalizer \/ ReconcileChildren \/ ReconcileStatefulSet
    \/ CheckIfRunning \/ UpdateLastSuccessful \/ UpdateStatus

Caches == SyncCache \/ SyncStatefulSet \/ \E c \in DOMAIN childCache : SyncChild(c)

World == Caches \/ PodStart

Next == Edit \/ Delete \/ World \/ Worker

Spec == Init /\ [][Next]_vars

----------------------------------------------------------------------------
(* Properties.                                                             *)

\* Once the user stops, the object is gone or the children are those of the
\* spec, with neither an Ingress nor a Route that is not wanted, the pod runs
\* what the spec says and the phase is Running: the two rollouts of a security
\* provider end, although phase Configuring is not queued again by itself.  An
\* Ingress, a Route or a Secret that the last reconcile left as it was, because
\* its cache was behind, stays so: nothing queues the object when the cache has
\* caught up.
Converged ==
    mc.live => /\ ~mc.deleting /\ mc.phase = "Running"
               /\ \A c \in Kids : \/ children[c] = Wanted(mc.spec)[c]
                                  \/ c \in unsure \ {"service"}
               /\ sts.pod = Template(mc)

\* Once the user stops, the provider of the spec is set up: the command that
\* sets it up is taken out of the template only after a pod ran it, and an edit
\* of the provider puts it back.  What breaks it in the code is excused: a
\* cached StatefulSet taken for the one just written, and a lost annotation.
LdapOfSpec == mc.live /\ mc.spec.ldap # 0 /\ "ldap" \notin unsure => ldap = mc.spec.ldap

============================================================================
