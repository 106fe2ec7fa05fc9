--------------------------- MODULE UserCodeNamespace ---------------------------
(***************************************************************************)
(* The UserCodeNamespace controller: the bundle of the namespace is        *)
(* downloaded to every member at once, then the namespace is added to the  *)
(* configuration of the cluster, then the spec is annotated as applied and *)
(* the state reported.  Nothing is skipped because it was done before.     *)
(***************************************************************************)
EXTENDS Naturals

CONSTANTS
    Members,       \* the members
    Versions,      \* the specs: each one names a version of the bundle
    MaxEvents      \* how many edits and failed calls, together

VARIABLES
    ucn,           \* the object at the API server
    cache,         \* the informer cache of it
    queued,        \* whether the object is in the work queue
    hz,            \* the Hazelcast resource
    bundle,        \* the version of the bundle that each member has
    added,         \* the version that each member had when the namespace was
                   \* added there last
    applied,       \* which edit of the object was annotated as applied last
    rec,           \* the worker: its step and its copy of the object
    events         \* how many edits and failed calls so far

kube == <<ucn, cache, queued>>
vars == <<kube, hz, bundle, added, applied, rec, events>>

\* The first spec is 1; 0 is none.  gen counts the edits: it is part of the version
\* of the object, and an earlier spec that is put back is another edit.
New == [live |-> TRUE, deleting |-> FALSE, fin |-> FALSE, gen |-> 1, spec |-> 1,
        tried |-> 0, ann |-> 0, state |-> ""]

Gone == [New EXCEPT !.live = FALSE, !.gen = 0, !.spec = 0]

Idle == [pc |-> "idle", ucn |-> Gone]

Init ==
    /\ ucn = New /\ cache = Gone /\ queued = FALSE
    /\ hz = "missing"
    /\ bundle = [m \in Members |-> 0] /\ added = bundle /\ applied = 0
    /\ rec = Idle /\ events = 0

Fault   == events < MaxEvents /\ events' = events + 1
NoFault == UNCHANGED events

----------------------------------------------------------------------------
(* The user, the cache and the Hazelcast resource.                         *)

Edit ==
    /\ ucn.live /\ ~ucn.deleting /\ Fault
    /\ \E v \in Versions \ {ucn.spec} : ucn' = [ucn EXCEPT !.gen = @ + 1, !.spec = v]
    /\ UNCHANGED <<cache, queued, hz, bundle, added, applied, rec>>

Delete ==
    /\ ucn.live /\ ~ucn.deleting
    /\ ucn' = IF ucn.fin THEN [ucn EXCEPT !.deleting = TRUE] ELSE Gone
    /\ UNCHANGED <<cache, queued, hz, bundle, added, applied, rec, events>>

SyncCache ==
    /\ cache # ucn
    /\ cache' = ucn /\ queued' = TRUE
    /\ UNCHANGED <<ucn, hz, bundle, added, applied, rec, events>>

\* hzUpdates: a Hazelcast that is Running queues what is not Success yet.
HazelcastStarts ==
    /\ \/ hz = "missing" /\ hz' \in {"pending", "disabled"}
       \/ hz \in {"pending", "disabled"} /\ hz' = "running"
    /\ queued' = (queued \/ (hz' \in {"running", "disabled"} /\ cache.live /\ cache.state # "Success"))
    /\ UNCHANGED <<ucn, cache, bundle, added, applied, rec, events>>

HazelcastStops ==
    /\ hz = "running" /\ Fault
    /\ hz' = "pending"
    /\ UNCHANGED <<kube, bundle, added, applied, rec>>

----------------------------------------------------------------------------
(* The worker.                                                             *)

To(pc) == [rec EXCEPT !.pc = pc]

Fresh == rec.ucn = ucn

Reconcile ==
    /\ rec.pc = "idle" /\ queued
    /\ queued' = FALSE
    /\ rec' = IF ~cache.live THEN Idle
              ELSE [ucn |-> cache,
                    pc  |-> CASE cache.deleting                -> "final"
                              [] ~cache.deleting /\ ~cache.fin -> "finalizer"
                              [] ~cache.deleting /\ cache.fin  ->
                                    IF cache.tried = 0 THEN "tried" ELSE "hazelcast"]
    /\ UNCHANGED <<ucn, cache, hz, bundle, added, applied, events>>

\* The two finalizer writes and the first annotation.  The event of the object
\* goes on after the finalizer was added; a failure of that write is not
\* reported, only queued again.
UpdateObject ==
    /\ rec.pc \in {"finalizer", "final", "tried"}
    /\ \/ /\ Fresh /\ NoFault /\ UNCHANGED queued
          /\ ucn' = CASE rec.pc = "finalizer" -> [ucn EXCEPT !.fin = TRUE]
                      [] rec.pc = "final"     -> Gone
                      [] rec.pc = "tried"     -> [ucn EXCEPT !.tried = ucn.spec]
          /\ rec' = IF rec.pc = "tried" THEN [pc |-> "Pending", ucn |-> ucn'] ELSE Idle
       \/ /\ (~Fresh /\ NoFault) \/ Fault
          /\ rec' = IF rec.pc = "finalizer" THEN Idle ELSE To("Failure")
          /\ queued' = (queued \/ rec.pc = "finalizer")
          /\ UNCHANGED ucn
    /\ UNCHANGED <<cache, hz, bundle, added, applied>>

\* The Hazelcast resource must exist, run, and have user code namespaces enabled.
CheckHazelcast ==
    /\ rec.pc = "hazelcast"
    /\ \/ hz = "running" /\ NoFault /\ rec' = To("download")
       \/ ((hz # "running" /\ NoFault) \/ Fault) /\ rec' = To("Failure")
    /\ UNCHANGED <<kube, hz, bundle, added, applied>>

\* Fault: the goroutines are not waited for, one failure goes unnoticed.
DownloadedSome(ms) == ms # {}

\* g.Wait(): every member answered without an error.
Downloaded(ms) == ms = Members

\* downloadBundle: all members at once; those of ms succeed.
DownloadBundle ==
    /\ rec.pc = "download"
    /\ \E ms \in SUBSET Members :
         /\ IF ms = Members THEN NoFault ELSE Fault
         /\ bundle' = [m \in Members |-> IF m \in ms THEN rec.ucn.spec ELSE bundle[m]]
         /\ rec' = To(IF Downloaded(ms) THEN "apply" ELSE "Failure")
    /\ UNCHANGED <<kube, hz, added, applied>>

\* applyConfig: one member after the other adds the namespace, with the bundle it
\* has; those of ms do, up to the first that fails.
ApplyConfig ==
    /\ rec.pc = "apply"
    /\ \E ms \in SUBSET Members :
         /\ IF ms = Members THEN NoFault ELSE Fault
         /\ added' = [m \in Members |-> IF m \in ms THEN bundle[m] ELSE added[m]]
         /\ rec' = To(IF ms = Members THEN "annotate" ELSE "Failure")
    /\ UNCHANGED <<kube, hz, bundle, applied>>

\* An update is refused when the object changed since it was read.
Save(o) == o = ucn

\* InsertLastSuccessfullyAppliedSpec: the annotation holds the spec.
Annotate ==
    /\ rec.pc = "annotate"
    /\ \/ /\ Save(rec.ucn) /\ NoFault
          /\ ucn' = [ucn EXCEPT !.ann = ucn.spec] /\ applied' = ucn.gen
          /\ rec' = [pc |-> "Success", ucn |-> ucn']
       \/ /\ (~Save(rec.ucn) /\ NoFault) \/ Fault
          /\ rec' = To("Failure") /\ UNCHANGED <<ucn, applied>>
    /\ UNCHANGED <<cache, queued, hz, bundle, added>>

\* Fault: only a status that could not be written is tried again.
TriedAgainOnError(state, written) == ~written

\* updateUserCodeNamespaceStatus: Pending and Failure are tried again whether
\* the status was written or not, Success if it was not.
TriedAgain(state, written) == state # "Success" \/ ~written

UpdateStatus ==
    /\ rec.pc \in {"Pending", "Failure", "Success"}
    /\ \/ Fresh /\ NoFault /\ ucn' = [ucn EXCEPT !.state = rec.pc]
       \/ ((~Fresh /\ NoFault) \/ Fault) /\ UNCHANGED ucn
    /\ queued' = (queued \/ TriedAgain(rec.pc, Fresh /\ events' = events))
    /\ rec' = Idle
    /\ UNCHANGED <<cache, hz, bundle, added, applied>>

----------------------------------------------------------------------------
Worker ==
    \/ Reconcile \/ UpdateObject \/ CheckHazelcast \/ DownloadBundle \/ ApplyConfig
    \/ Annotate \/ UpdateStatus

Next == Edit \/ Delete \/ SyncCache \/ HazelcastStarts \/ HazelcastStops \/ Worker

Spec == Init /\ [][Next]_vars

----------------------------------------------------------------------------
(* Properties.                                                             *)

Everywhere == \A m \in Members : bundle[m] = ucn.spec /\ added[m] = ucn.spec

\* The last edit was annotated as applied.
LastIsApplied == ucn.state = "Success" /\ applied = ucn.gen

\* Nothing is left to do: no event is on the way, queued or being handled.
AtRest == ucn.live /\ rec.pc = "idle" /\ ~queued /\ cache = ucn

\* A namespace that is Success since the last edit was applied is on every member
\* in the version of its spec, and was added there after it was: one member whose
\* download or call failed, and an edit during the downloads, are both noticed.
\* That the annotation equals the spec does not say so: it is compared by content,
\* and equals one that was put back while another version was downloaded.  Once
\* the controller is at rest the object is Success and the version everywhere,
\* though.
SuccessIsEverywhere ==
    /\ LastIsApplied => Everywhere
    /\ AtRest => ucn.state = "Success" /\ ucn.ann = ucn.spec /\ Everywhere

\* Once the user and the calls that fail come to an end the object is gone, or
\* the cluster runs and the last version is on the members and Success.
Converged ==
    ucn.live => ~ucn.deleting /\ ucn.state = "Success" /\ Everywhere

----------------------------------------------------------------------------
(* The inductive invariant.                                                *)

States == {"", "Pending", "Failure", "Success"}

Objects == [live : BOOLEAN, deleting : BOOLEAN, fin : BOOLEAN, gen : Nat,
            spec : Nat, tried : Nat, ann : Nat, state : States]

PCs == {"idle", "final", "finalizer", "tried", "hazelcast", "download", "apply",
        "annotate", "Pending", "Failure", "Success"}

TypeInv ==
    /\ ucn \in Objects /\ cache \in Objects /\ queued \in BOOLEAN
    /\ bundle \in [Members -> Nat] /\ added \in [Members -> Nat] /\ applied \in Nat
    /\ rec \in [pc : PCs, ucn : Objects] /\ events \in Nat

Live(o) == o.live
Deleting(o) == o.deleting
HasFin(o) == o.fin

\* An object that exists was written once, and the status of one that is gone
\* went with it.
HasGen(o) == Live(o) => o.gen # 0

GenInv ==
    HasGen(ucn) /\ HasGen(cache) /\ (ucn.gen = 0 => ucn.state = "")

\* One edit has one spec.
Agree(o, e) == o.gen = e.gen => o.spec = e.spec

\* The object is at least as new as the cache, and what was applied is no newer
\* than the cache.
CacheInv ==
    ucn.gen # 0 => /\ applied <= cache.gen /\ cache.gen <= ucn.gen
                   /\ Agree(cache, ucn)
                   /\ HasFin(cache) => HasFin(ucn)
                   /\ Deleting(cache) => Deleting(ucn)

\* The copy lies between what was applied and the cache.
CopyInv ==
    rec.pc # "idle" =>
        /\ rec.ucn.gen # 0
        /\ ucn.gen # 0 => /\ applied <= rec.ucn.gen /\ rec.ucn.gen <= cache.gen
                          /\ Agree(rec.ucn, cache)

\* What the worker has done when it reaches a step.
DoneInv ==
    /\ rec.pc \in {"apply", "annotate", "Success"} =>
           \A m \in Members : bundle[m] = rec.ucn.spec
    /\ rec.pc \in {"annotate", "Success"} => \A m \in Members : added[m] = rec.ucn.spec
    /\ rec.pc = "Success" => rec.ucn.ann = rec.ucn.spec
    /\ rec.pc = "finalizer" => ~HasFin(rec.ucn)

Inv == TypeInv /\ GenInv /\ CacheInv /\ CopyInv /\ DoneInv /\ SuccessIsEverywhere

\* A write that is no edit.
Keeps(o, e) ==
    /\ e.gen = o.gen /\ e.spec = o.spec
    /\ Live(e) => Live(o)
    /\ HasFin(o) => HasFin(e)
    /\ Deleting(o) => Deleting(e)

============================================================================
