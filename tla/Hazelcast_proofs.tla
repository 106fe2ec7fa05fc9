-------------------------- MODULE Hazelcast_proofs --------------------------
(***************************************************************************)
(* What has no owner reference is gone when the Hazelcast resource is, but *)
(* for a cluster role that the cache did not show, for all specs, sizes    *)
(* and dependent resources and any number of edits and mishaps.            *)
(*                                                                         *)
(* The cluster roles and the status service are made by reconciliations    *)
(* that may hold an old copy of the resource.  The invariant says that     *)
(* they are made and kept only while the resource has its finalizer, which *)
(* nobody but the same worker takes away, and that from the deletion on    *)
(* neither the cache nor the worker has a version from before it.          *)
(***************************************************************************)
EXTENDS Hazelcast, TLAPS

\* What is needed of the types: an object and a worker have their fields.
SomeSpecs == [of: Specs \cup {None}, merged: BOOLEAN]

Shapes == [live: BOOLEAN, deleting: BOOLEAN, fin: BOOLEAN, generation: Nat, spec: SomeSpecs,
           applied: SomeSpecs, success: SomeSpecs, phase: Phases, illegal: BOOLEAN]

Workers == [pc: PCs, h: Shapes, base: Shapes, upd: Updates]

TypeInv == hz \in Shapes /\ cache \in Shapes /\ rec \in Workers

IsLive(o) == o.live
Ended(o)  == ~o.live \/ o.deleting
Marked(o) == o.live /\ o.deleting
Held(o)   == o.live /\ o.fin
Usable(o) == o.live /\ ~o.deleting /\ o.fin

Alike(o, p) == p.live = o.live /\ p.deleting = o.deleting /\ p.fin = o.fin

Creating == {"applied", "roles", "services", "endpoints", "unused", "config", "sts", "check",
             "enterprise", "connected", "success"}
Ending   == {"terminating", "dependents", "cleanup", "remove"}

\* Something is there that no owner reference covers, and that no clean up has
\* looked for in vain.
Dirty == ~(roles \cap ClusterRoles \subseteq missed \cap Lagging) \/ status

\* The copy differs from the version it was read as in what was worked out.
CopyInv ==
    /\ rec.pc # "idle" => Alike(rec.base, rec.h)
    /\ rec.pc = "finalizer" => IsLive(rec.base)

\* The cache follows the resource, and the worker the cache.
EndInv ==
    /\ Marked(cache) => Ended(hz)
    /\ rec.pc \in Ending => Ended(hz) /\ Ended(cache)

HeldInv ==
    /\ Usable(cache) => Held(hz)
    /\ rec.pc \in Creating => Held(hz)
    /\ Dirty => Held(hz)

CleanInv == rec.pc = "remove" => ~Dirty

Inv == TypeInv /\ CopyInv /\ EndInv /\ HeldInv /\ CleanInv

----------------------------------------------------------------------------
(* What the writes make of the resource.                                   *)

LEMMA NoneFields == NoSpec \in SomeSpecs /\ \A s \in Specs : [of |-> s, merged |-> FALSE] \in SomeSpecs
BY DEF NoSpec, SomeSpecs

LEMMA NewFields == \A s \in Specs \cup {None} : New(s) \in Shapes
<1> SUFFICES ASSUME NEW s \in Specs \cup {None} PROVE New(s) \in Shapes
  OBVIOUS
<1>1. [of |-> s, merged |-> FALSE] \in SomeSpecs /\ 0 \in Nat /\ "" \in Phases
  BY DEF SomeSpecs, Phases
<1> QED
  BY <1>1, NoneFields DEF New, Shapes

LEMMA GoneFields == Gone \in Shapes
<1>1. New(None) \in Shapes
  BY NewFields
<1> QED
  BY <1>1 DEF Gone, Shapes

LEMMA GoneEnded == Ended(Gone) /\ ~Marked(Gone) /\ ~Usable(Gone)
BY DEF Gone, New, Ended, Marked, Usable

LEMMA IdleFields == Idle \in Workers /\ Idle.pc = "idle"
<1>1. [phase |-> "", message |-> "keep", again |-> FALSE] \in Updates
  BY DEF Updates, Phases
<1> QED
  BY <1>1, GoneFields DEF Idle, Workers, PCs

LEMMA Marks ==
    ASSUME NEW o \in Shapes
    PROVE  (Marked(o) => Ended(o)) /\ (Usable(o) => Held(o)) /\ (Usable(o) => ~Ended(o))
BY DEF Shapes, Marked, Ended, Usable, Held

\* A resource that keeps its life keeps its finalizer and its deletion.
Keeps(o, e) == (Ended(o) => Ended(e)) /\ (Held(o) => Held(e))

LEMMA AlikeKeeps == \A o, e : Alike(o, e) => Keeps(o, e)
BY DEF Alike, Keeps, Ended, Held

LEMMA Itself == \A o : Alike(o, o) /\ Keeps(o, o)
BY DEF Alike, Keeps

LEMMA Transitive == \A o, p, q : Alike(o, p) /\ Alike(p, q) => Alike(o, q)
BY DEF Alike

LEMMA Edited ==
    ASSUME NEW o \in Shapes, NEW s \in Specs
    PROVE  LET e == [o EXCEPT !.spec.of = s, !.generation = @ + 1]
           IN  e \in Shapes /\ Alike(o, e)
<1>1. [o.spec EXCEPT !.of = s] \in SomeSpecs
  BY DEF Shapes, SomeSpecs
<1>2. o.generation + 1 \in Nat
  BY DEF Shapes
<1> QED
  BY <1>1, <1>2 DEF Shapes, Alike

LEMMA Deleting ==
    ASSUME NEW o \in Shapes
    PROVE  LET e == [o EXCEPT !.deleting = TRUE] IN e \in Shapes /\ Keeps(o, e)
BY DEF Shapes, Keeps, Ended, Held

LEMMA Finalizer ==
    ASSUME NEW o \in Shapes
    PROVE  LET e == [o EXCEPT !.fin = TRUE]
           IN  e \in Shapes /\ Keeps(o, e) /\ (IsLive(o) => Held(e))
BY DEF Shapes, Keeps, Ended, Held, IsLive

LEMMA Annotated ==
    ASSUME NEW o \in Shapes, NEW p \in Phases,
           NEW e \in {[o EXCEPT !.applied = o.spec], [o EXCEPT !.success = o.spec],
                      [o EXCEPT !.phase = p]}
    PROVE  e \in Shapes /\ Alike(o, e)
BY DEF Shapes, Alike

LEMMA Reported ==
    ASSUME NEW o \in Shapes, NEW p \in Phases, NEW b \in BOOLEAN
    PROVE  LET e == [o EXCEPT !.phase = p, !.illegal = b] IN e \in Shapes /\ Alike(o, e)
BY DEF Shapes, Alike

LEMMA Merged ==
    ASSUME NEW o \in Shapes
    PROVE  LET e == [o EXCEPT !.spec.merged = TRUE] IN e \in Shapes /\ Alike(o, e)
<1>1. [o.spec EXCEPT !.merged = TRUE] \in SomeSpecs
  BY DEF Shapes, SomeSpecs
<1> QED
  BY <1>1 DEF Shapes, Alike

----------------------------------------------------------------------------
(* Where the worker goes.                                                  *)

LEMMA Types ==
    ASSUME Inv
    PROVE  /\ hz \in Shapes /\ cache \in Shapes /\ rec \in Workers
           /\ rec.h \in Shapes /\ rec.base \in Shapes /\ rec.pc \in PCs /\ rec.upd \in Updates
BY DEF Inv, TypeInv, Workers

LEMMA Moved ==
    ASSUME rec \in Workers, NEW pc \in PCs, To(pc)
    PROVE  rec' \in Workers /\ rec'.pc = pc /\ rec'.h = rec.h /\ rec'.base = rec.base
BY DEF To, Workers

LEMMA Updating ==
    ASSUME rec \in Workers, NEW p \in Phases, NEW m \in {"keep", "other", "illegal"},
           NEW a \in BOOLEAN, ToUpdate(p, m, a)
    PROVE  rec' \in Workers /\ rec'.pc = "update" /\ rec'.h = rec.h /\ rec'.base = rec.base
<1>1. [phase |-> p, message |-> m, again |-> a] \in Updates
  BY DEF Updates
<1> QED
  BY <1>1 DEF ToUpdate, Workers, PCs

LEMMA StoredFields ==
    ASSUME rec \in Workers, NEW pc \in PCs, NEW h \in Shapes, Stored(h, pc)
    PROVE  /\ rec' \in Workers /\ rec'.pc = pc /\ rec'.h = h /\ rec'.base = h
           /\ hz' = h /\ rec.base = hz
BY DEF Stored, Workers, Conflict

----------------------------------------------------------------------------
\* What is left to show of a step.
LEMMA Step ==
    ASSUME Inv, hz' \in Shapes, Keeps(hz, hz'), cache' \in {cache, hz}, rec' \in Workers,
           rec'.pc = "idle" \/ Alike(rec'.base, rec'.h),
           rec'.pc = "finalizer" => IsLive(rec'.base),
           rec'.pc \in Ending => rec.pc \in Ending \/ Marked(cache),
           rec'.pc \in Creating => rec.pc \in Creating \/ Held(hz'),
           Dirty' => Dirty \/ rec.pc \in Creating,
           rec'.pc = "remove" => ~Dirty'
    PROVE  Inv'
<1>1. TypeInv'
  BY DEF Inv, TypeInv
<1>2. CopyInv'
  BY DEF CopyInv
<1>3. /\ Marked(hz) => Ended(hz)
      /\ Usable(hz) => Held(hz)
      /\ Marked(cache) => Ended(cache)
  BY Types, Marks
<1>4. EndInv'
  BY <1>3 DEF Inv, EndInv, Keeps
<1>5. HeldInv'
  BY <1>3 DEF Inv, HeldInv, Keeps
<1>6. CleanInv'
  BY DEF CleanInv
<1> QED
  BY <1>1, <1>2, <1>4, <1>5, <1>6 DEF Inv

\* The resource goes while nothing is left that it would have to clean up.
LEMMA GoneStep ==
    ASSUME Inv, ~Dirty, hz' = Gone, cache' = cache, ~Usable(cache), UNCHANGED <<roles, missed, status>>,
           rec' = rec \/ rec' = Idle, rec'.pc \notin Creating
    PROVE  Inv'
<1>1. TypeInv'
  BY GoneFields, IdleFields, Types DEF TypeInv
<1>2. ~Dirty'
  BY DEF Dirty
<1>3. CopyInv' /\ CleanInv'
  BY <1>2, IdleFields DEF Inv, CopyInv, CleanInv
<1>4. EndInv' /\ HeldInv'
  BY <1>2, GoneEnded, IdleFields DEF Inv, EndInv, HeldInv, Ending
<1> QED
  BY <1>1, <1>3, <1>4 DEF Inv

----------------------------------------------------------------------------
(* The steps that leave the resource and the worker alone.                 *)

LEMMA Aside ==
    ASSUME Inv, UNCHANGED <<hz, rec>>, cache' \in {cache, hz}, Dirty' => Dirty
    PROVE  Inv'
<1>1. hz' \in Shapes /\ Keeps(hz, hz') /\ rec' \in Workers
  BY Types, Itself
<1>2. rec'.pc = "idle" \/ Alike(rec'.base, rec'.h)
  BY DEF Inv, CopyInv
<1>3. rec'.pc = "finalizer" => IsLive(rec'.base)
  BY DEF Inv, CopyInv
<1>4. rec'.pc = "remove" => ~Dirty'
  BY DEF Inv, CleanInv
<1> QED
  BY <1>1, <1>2, <1>3, <1>4, Step

LEMMA OthersStep ==
    ASSUME Inv,
           \/ \E d \in Dependents : CreateDependent(d) \/ FinishDependent(d)
           \/ SyncCache \/ SyncSts \/ SyncServices \/ SyncDependents \/ SyncRoles
           \/ StsReady \/ AssignAddress \/ CollectGarbage
           \/ LoseConnection \/ Reconnect \/ Tick \/ OtherClient \/ UNCHANGED vars
    PROVE  Inv'
<1>1. UNCHANGED <<hz, rec, missed, status>> /\ cache' \in {cache, hz}
  BY DEF CreateDependent, FinishDependent, SyncCache, SyncSts, SyncServices, SyncDependents,
         SyncRoles, general,
         StsReady, AssignAddress, CollectGarbage, LoseConnection, Reconnect, Tick, OtherClient,
         vars, process, exposed, dependent, stateful
<1>2. roles' = roles \/ roles' = roles \cap ClusterRoles
  BY DEF CreateDependent, FinishDependent, SyncCache, SyncSts, SyncServices, SyncDependents,
         SyncRoles, general,
         StsReady, AssignAddress, CollectGarbage, LoseConnection, Reconnect, Tick, OtherClient,
         vars, process, exposed, dependent, stateful
<1>3. Dirty' => Dirty
  BY <1>1, <1>2 DEF Dirty
<1> QED
  BY <1>1, <1>3, Aside

LEMMA EditStep == ASSUME Inv, Edit PROVE Inv'
<1>1. UNCHANGED <<cache, roles, missed, status, rec>>
  BY DEF Edit, process, general
<1>2. hz' \in Shapes /\ Keeps(hz, hz')
  <2>1. PICK s \in Specs : hz' = [hz EXCEPT !.spec.of = s, !.generation = @ + 1]
    BY DEF Edit
  <2>2. hz' \in Shapes /\ Alike(hz, hz')
    BY <2>1, Types, Edited
  <2> QED
    BY <2>2, AlikeKeeps
<1>3. rec'.pc = "idle" \/ Alike(rec'.base, rec'.h)
  BY <1>1 DEF Inv, CopyInv
<1>4. rec'.pc = "finalizer" => IsLive(rec'.base)
  BY <1>1 DEF Inv, CopyInv
<1>5. Dirty' = Dirty
  BY <1>1 DEF Dirty
<1>6. rec'.pc = "remove" => ~Dirty'
  BY <1>1, <1>5 DEF Inv, CleanInv
<1> QED
  BY <1>1, <1>2, <1>3, <1>4, <1>5, <1>6, Types, Step

LEMMA DeleteStep == ASSUME Inv, Delete PROVE Inv'
<1>1. UNCHANGED <<cache, roles, missed, status, rec>>
  BY DEF Delete, process, general
<1>2. Dirty' = Dirty
  BY <1>1 DEF Dirty
<1>3. CASE hz.fin
  <2>1. hz' \in Shapes /\ Keeps(hz, hz')
    BY <1>3, Types, Deleting DEF Delete
  <2>2. rec'.pc = "idle" \/ Alike(rec'.base, rec'.h)
    BY <1>1 DEF Inv, CopyInv
  <2>3. rec'.pc = "finalizer" => IsLive(rec'.base)
    BY <1>1 DEF Inv, CopyInv
  <2>4. rec'.pc = "remove" => ~Dirty'
    BY <1>1, <1>2 DEF Inv, CleanInv
  <2> QED
    BY <1>1, <1>2, <2>1, <2>2, <2>3, <2>4, Types, Step
<1>4. CASE ~hz.fin
  <2>1. ~Held(hz)
    BY <1>4 DEF Held
  <2>2. ~Dirty /\ ~Usable(cache) /\ rec'.pc \notin Creating
    BY <1>1, <2>1 DEF Inv, HeldInv
  <2>3. hz' = Gone
    BY <1>4 DEF Delete
  <2> QED
    BY <1>1, <2>2, <2>3, GoneStep
<1> QED
  BY <1>3, <1>4

LEMMA RestartStep == ASSUME Inv, Restart PROVE Inv'
<1>1. hz' = hz /\ cache' = hz /\ rec' = Idle /\ UNCHANGED <<roles, missed>> /\ status' = FALSE
  BY DEF Restart
<1>2. hz' \in Shapes /\ Keeps(hz, hz') /\ rec' \in Workers /\ rec'.pc = "idle"
  BY <1>1, Types, Itself, IdleFields
<1>3. Dirty' => Dirty
  BY <1>1 DEF Dirty
<1> QED
  BY <1>1, <1>2, <1>3, Step DEF Ending, Creating

----------------------------------------------------------------------------
(* The steps of the worker.                                                *)

\* The worker goes on with its copy, or is to update the status.
LEMMA Onward ==
    ASSUME Inv, rec.pc # "idle", rec' \in Workers, UNCHANGED <<hz, cache>>,
           Alike(rec.h, rec'.h), rec'.base = rec.base,
           \/ rec'.pc = "update"
           \/ rec'.pc \in Creating /\ rec.pc \in Creating
           \/ rec'.pc \in Ending /\ rec.pc \in Ending,
           Dirty' => Dirty \/ rec.pc \in Creating,
           rec'.pc = "remove" => ~Dirty'
    PROVE  Inv'
<1>1. hz' \in Shapes /\ Keeps(hz, hz')
  BY Types, Itself
<1>2. Alike(rec'.base, rec'.h)
  BY Transitive DEF Inv, CopyInv
<1>3. /\ rec'.pc \in Ending => rec.pc \in Ending
      /\ rec'.pc \in Creating => rec.pc \in Creating
      /\ rec'.pc # "finalizer"
  BY DEF Ending, Creating
<1> QED
  BY <1>1, <1>2, <1>3, Step

\* The worker ends.
LEMMA Over ==
    ASSUME Inv, rec' = Idle, hz' \in Shapes, Keeps(hz, hz'), cache' = cache,
           Dirty' => Dirty
    PROVE  Inv'
<1>1. rec' \in Workers /\ rec'.pc = "idle"
  BY IdleFields
<1> QED
  BY <1>1, Step DEF Ending, Creating

\* The worker's copy is stored.
LEMMA StoredStep ==
    ASSUME Inv, rec.pc # "idle", NEW h \in Shapes, Alike(rec.h, h), rec.base = hz, hz' = h,
           cache' = cache, rec' \in Workers, rec'.h = h, rec'.base = h,
           \/ rec'.pc = "update"
           \/ rec'.pc \in Creating /\ rec.pc \in Creating
           \/ rec'.pc \in Ending /\ rec.pc \in Ending /\ rec'.pc # "remove",
           Dirty' => Dirty
    PROVE  Inv'
<1>1. Alike(hz, h)
  BY Transitive DEF Inv, CopyInv
<1>2. hz' \in Shapes /\ Keeps(hz, hz') /\ Alike(rec'.base, rec'.h)
  BY <1>1, AlikeKeeps, Itself
<1>3. /\ rec'.pc \in Ending => rec.pc \in Ending
      /\ rec'.pc \in Creating => rec.pc \in Creating
      /\ rec'.pc # "finalizer" /\ rec'.pc # "remove"
  BY DEF Ending, Creating
<1> QED
  BY <1>2, <1>3, Step

LEMMA ReconcileStep == ASSUME Inv, Reconcile PROVE Inv'
<1>1. UNCHANGED <<hz, cache, roles, missed, status>>
  BY DEF Reconcile, process, KeptCluster, Kept
<1>2. hz' \in Shapes /\ Keeps(hz, hz')
  BY <1>1, Types, Itself
<1>3. Dirty' = Dirty
  BY <1>1 DEF Dirty
<1>4. CASE rec' = Idle
  BY <1>1, <1>2, <1>3, <1>4, Over
<1>5. ASSUME NEW pc \in PCs, rec' = [Idle EXCEPT !.h = cache, !.base = cache, !.pc = pc],
             \/ pc = "terminating" /\ Marked(cache)
             \/ pc = "finalizer" /\ IsLive(cache)
             \/ pc = "applied" /\ Usable(cache)
      PROVE  Inv'
  <2>1. rec' \in Workers /\ rec'.pc = pc /\ rec'.h = cache /\ rec'.base = cache
    BY <1>5, Types, IdleFields DEF Workers
  <2>2. Alike(rec'.base, rec'.h)
    BY <2>1, Itself
  <2>3. pc \in Creating => Held(hz')
    BY <1>1, <1>5 DEF Inv, HeldInv, Creating
  <2>4. /\ pc \in Ending => Marked(cache)
        /\ pc = "finalizer" => IsLive(cache)
        /\ pc # "remove"
    BY <1>5 DEF Ending
  <2> QED
    BY <1>1, <1>2, <1>3, <2>1, <2>2, <2>3, <2>4, Step
<1>6. cache.live \in BOOLEAN /\ cache.deleting \in BOOLEAN /\ cache.fin \in BOOLEAN
  BY Types DEF Shapes
<1>7. {"terminating", "finalizer", "applied"} \subseteq PCs
  BY DEF PCs
<1>8. CASE cache.live /\ cache.deleting
  BY <1>5, <1>7, <1>8 DEF Reconcile, Marked
<1>9. CASE cache.live /\ ~cache.deleting /\ ~cache.fin
  BY <1>5, <1>7, <1>9 DEF Reconcile, IsLive
<1>10. CASE cache.live /\ ~cache.deleting /\ cache.fin
  BY <1>5, <1>7, <1>10 DEF Reconcile, Usable
<1> QED
  BY <1>4, <1>6, <1>8, <1>9, <1>10 DEF Reconcile

\* The status is to be updated after a failure, or to wait.
LEMMA ToStatus ==
    ASSUME Inv,
           \/ Fail \/ Wait("keep") \/ Wait("other") \/ ToUpdate("Failed", "illegal", TRUE)
           \/ ToUpdate("Terminating", "other", TRUE)
    PROVE  rec' \in Workers /\ rec'.pc = "update" /\ Alike(rec.h, rec'.h) /\ rec'.base = rec.base
<1>1. PICK p \in Phases, m \in {"keep", "other", "illegal"} : ToUpdate(p, m, TRUE)
  BY DEF Fail, Wait, Phases
<1> QED
  BY <1>1, Types, Updating, Itself

LEMMA Forward ==
    ASSUME Inv, NEW pc \in PCs, To(pc)
    PROVE  rec' \in Workers /\ rec'.pc = pc /\ Alike(rec.h, rec'.h) /\ rec'.base = rec.base
BY Types, Moved, Itself

LEMMA CreatingPCs ==
    Creating \subseteq PCs /\ Ending \subseteq PCs /\ "idle" \notin Creating /\ "idle" \notin Ending
BY DEF Creating, Ending, PCs

LEMMA AddFinalizerStep == ASSUME Inv, AddFinalizer PROVE Inv'
<1>1. UNCHANGED <<cache, roles, missed, status>> /\ rec.pc = "finalizer"
  BY DEF AddFinalizer, process, KeptCluster, Kept
<1>2. Dirty' = Dirty
  BY <1>1 DEF Dirty
<1>3. CASE NotStored /\ Fail
  <2>1. hz' = hz
    BY <1>3 DEF NotStored
  <2> QED
    BY <1>1, <1>2, <1>3, <2>1, ToStatus, Onward
<1>4. ASSUME NEW e \in Shapes, Keeps(rec.h, e), IsLive(rec.h) => Held(e), Stored(e, "applied")
      PROVE  Inv'
  <2>1. /\ rec' \in Workers /\ rec'.pc = "applied" /\ rec'.h = e /\ rec'.base = e
        /\ hz' = e /\ rec.base = hz
    BY <1>4, Types, StoredFields DEF PCs
  <2>2. Alike(hz, rec.h) /\ IsLive(hz)
    BY <1>1, <2>1 DEF Inv, CopyInv
  <2>3. IsLive(rec.h) /\ Keeps(hz, rec.h)
    BY <2>2, AlikeKeeps DEF Alike, IsLive
  <2>4. Keeps(hz, hz') /\ Held(hz')
    BY <1>4, <2>1, <2>3 DEF Keeps
  <2>5. Alike(rec'.base, rec'.h)
    BY <2>1, Itself
  <2>6. rec'.pc \notin Ending /\ rec'.pc # "finalizer" /\ rec'.pc # "remove"
    BY <2>1 DEF Ending
  <2> QED
    BY <1>1, <1>2, <2>1, <2>4, <2>5, <2>6, Step
<1>5. LET e == [rec.h EXCEPT !.fin = TRUE]
      IN  e \in Shapes /\ Keeps(rec.h, e) /\ (IsLive(rec.h) => Held(e))
  BY Types, Finalizer
<1> QED
  BY <1>3, <1>4, <1>5 DEF AddFinalizer

LEMMA RefusedStep == ASSUME Inv, Refused PROVE Inv'
<1>1. UNCHANGED <<hz, cache, roles, missed, status>> /\ rec' = Idle
  BY DEF Refused, Stop, process, KeptCluster, Kept
<1>2. Dirty' = Dirty
  BY <1>1 DEF Dirty
<1> QED
  BY <1>1, <1>2, Types, Itself, Over

LEMMA UpdateLastAppliedSpecStep == ASSUME Inv, UpdateLastAppliedSpec PROVE Inv'
<1>1. UNCHANGED <<cache, roles, missed, status>> /\ rec.pc = "applied"
  BY DEF UpdateLastAppliedSpec, process, KeptCluster, Kept
<1>2. Dirty' = Dirty
  BY <1>1 DEF Dirty
<1>3. rec.pc \in Creating /\ rec.pc # "idle" /\ "roles" \in Creating /\ "roles" \in PCs
  BY <1>1 DEF Creating, PCs
<1>4. CASE hz' = hz /\ To("roles")
  BY <1>1, <1>2, <1>3, <1>4, Forward, Onward
<1>5. CASE NotStored /\ Fail
  <2>1. hz' = hz
    BY <1>5 DEF NotStored
  <2> QED
    BY <1>1, <1>2, <1>5, <2>1, ToStatus, Onward
<1>6. ASSUME NEW e \in Shapes, Alike(rec.h, e), Stored(e, "roles")
      PROVE  Inv'
  BY <1>1, <1>2, <1>3, <1>6, Types, StoredFields, StoredStep
<1>7. LET e == [rec.h EXCEPT !.applied = rec.h.spec] IN e \in Shapes /\ Alike(rec.h, e)
  BY Types, Annotated DEF Phases
<1> QED
  BY <1>4, <1>5, <1>6, <1>7 DEF UpdateLastAppliedSpec

\* What the reconciliation of a live resource does after it has its finalizer.
LEMMA CreatingStep ==
    ASSUME Inv, rec.pc \in Creating, UNCHANGED <<hz, cache>>,
           \/ \E pc \in Creating : To(pc)
           \/ Fail \/ Wait("keep") \/ Wait("other") \/ ToUpdate("Failed", "illegal", TRUE)
    PROVE  Inv'
<1>1. /\ rec' \in Workers /\ Alike(rec.h, rec'.h) /\ rec'.base = rec.base
      /\ rec'.pc = "update" \/ rec'.pc \in Creating
  BY ToStatus, Forward, CreatingPCs
<1>2. rec'.pc # "remove" /\ rec.pc # "idle"
  BY <1>1 DEF Creating
<1> QED
  BY <1>1, <1>2, Onward

LEMMA CreatingSteps ==
    ASSUME Inv,
           \/ ReconcileRoles \/ ReconcileServicePerPod \/ ReconcileHazelcastEndpoints
           \/ ReconcileUnusedServicePerPod \/ NotRunning \/ Connect \/ IsClientConnected
    PROVE  Inv'
<1>1. UNCHANGED <<hz, cache>>
  BY DEF ReconcileRoles, ReconcileServicePerPod, ReconcileHazelcastEndpoints,
         ReconcileUnusedServicePerPod, NotRunning, Connect, IsClientConnected, Kept
<1>2. rec.pc \in Creating
  BY DEF ReconcileRoles, ReconcileServicePerPod, ReconcileHazelcastEndpoints,
         ReconcileUnusedServicePerPod, NotRunning, Connect, IsClientConnected, Creating
<1>3. {"services", "endpoints", "unused", "config", "enterprise", "success"} \subseteq Creating
  BY DEF Creating
<1>4. (\E pc \in Creating : To(pc)) \/ Fail \/ Wait("keep") \/ Wait("other")
  BY <1>3 DEF ReconcileRoles, ReconcileServicePerPod, ReconcileHazelcastEndpoints,
              ReconcileUnusedServicePerPod, NotRunning, Connect, IsClientConnected
<1> QED
  BY <1>1, <1>2, <1>4, CreatingStep

LEMMA ReconcileSecretStep == ASSUME Inv, ReconcileSecret PROVE Inv'
<1>1. UNCHANGED <<hz, cache>> /\ rec.pc = "config"
  BY DEF ReconcileSecret, Kept
<1>2. rec.pc \in Creating /\ rec.pc # "idle" /\ "sts" \in Creating /\ "sts" \in PCs
  BY <1>1 DEF Creating, PCs
<1>3. CASE Fail \/ Wait("keep")
  BY <1>1, <1>2, <1>3, CreatingStep
<1>4. ASSUME NEW e \in Shapes, Alike(rec.h, e), rec' = [rec EXCEPT !.pc = "sts", !.h = e]
      PROVE  Inv'
  <2>1. rec' \in Workers /\ rec'.pc = "sts" /\ rec'.h = e /\ rec'.base = rec.base
    BY <1>2, <1>4, Types DEF Workers
  <2>2. rec'.pc # "remove"
    BY <2>1
  <2> QED
    BY <1>1, <1>2, <1>4, <2>1, <2>2, Onward
<1>5. CASE rec' = [rec EXCEPT !.pc = "sts", !.h.spec.merged = TRUE]
  <2>1. LET e == [rec.h EXCEPT !.spec.merged = TRUE] IN e \in Shapes /\ Alike(rec.h, e)
    BY Types, Merged
  <2>2. rec' = [rec EXCEPT !.pc = "sts", !.h = [rec.h EXCEPT !.spec.merged = TRUE]]
    BY <1>5, Types DEF Workers
  <2> QED
    BY <1>4, <2>1, <2>2
<1> QED
  BY <1>3, <1>5 DEF ReconcileSecret

\* A conflict, or a StatefulSet that cannot be deleted, ends the reconciliation.
LEMMA StatefulSetSteps == ASSUME Inv, ReconcileStatefulset \/ IsEnterpriseCluster PROVE Inv'
<1>1. UNCHANGED <<hz, cache, roles, missed, status>>
  BY DEF ReconcileStatefulset, IsEnterpriseCluster, process, Kept
<1>2. rec.pc \in Creating /\ {"check", "connected"} \subseteq Creating
  BY DEF ReconcileStatefulset, IsEnterpriseCluster, Creating
<1>3. Dirty' = Dirty
  BY <1>1 DEF Dirty
<1>4. CASE rec' = Idle
  BY <1>1, <1>3, <1>4, Types, Itself, Over
<1>5. \/ rec' = Idle
      \/ \E pc \in Creating : To(pc)
      \/ Fail \/ ToUpdate("Failed", "illegal", TRUE)
  BY <1>2 DEF ReconcileStatefulset, IsEnterpriseCluster, Stop
<1> QED
  BY <1>1, <1>2, <1>4, <1>5, CreatingStep

LEMMA UpdateLastSuccessfulConfigurationStep ==
    ASSUME Inv, UpdateLastSuccessfulConfiguration PROVE Inv'
<1>1. UNCHANGED <<cache, roles, missed, status>> /\ rec.pc = "success"
  BY DEF UpdateLastSuccessfulConfiguration, process, KeptCluster, Kept
<1>2. Dirty' = Dirty
  BY <1>1 DEF Dirty
<1>3. ASSUME NEW e \in Shapes, NEW b \in Shapes, ToRunning(e, b)
      PROVE  rec' \in Workers /\ rec'.pc = "update" /\ rec'.h = e /\ rec'.base = b
  <2>1. [phase |-> "Running", message |-> "other", again |-> FALSE] \in Updates
    BY DEF Updates, Phases
  <2>2. "update" \in PCs
    BY DEF PCs
  <2>3. rec' = [rec EXCEPT !.pc = "update", !.h = e, !.base = b,
                           !.upd = [phase |-> "Running", message |-> "other", again |-> FALSE]]
    BY <1>3 DEF ToRunning
  <2> QED
    BY <2>1, <2>2, <2>3, Types DEF Workers
<1>4. PICK e \in Shapes :
        /\ Alike(rec.h, e)
        /\ \/ hz' = hz /\ ToRunning(e, rec.base)
           \/ hz' = e /\ rec.base = hz /\ ToRunning(e, e)
  <2>1. LET e == [rec.h EXCEPT !.success = rec.h.spec] IN e \in Shapes /\ Alike(rec.h, e)
    BY Types, Annotated DEF Phases
  <2> QED
    BY <2>1 DEF UpdateLastSuccessfulConfiguration, Conflict, NotStored
<1>5. CASE hz' = hz /\ ToRunning(e, rec.base)
  BY <1>1, <1>2, <1>3, <1>4, <1>5, Types, Onward
<1>6. CASE hz' = e /\ rec.base = hz /\ ToRunning(e, e)
  BY <1>1, <1>2, <1>3, <1>4, <1>6, Types, StoredStep
<1> QED
  BY <1>4, <1>5, <1>6

LEMMA UpdateStep == ASSUME Inv, Update PROVE Inv'
<1>1. UNCHANGED <<cache, roles, missed, status>> /\ rec' = Idle
  BY DEF Update, process, KeptCluster, Kept
<1>2. Dirty' = Dirty
  BY <1>1 DEF Dirty
<1>3. rec.upd.phase \in Phases
  BY Types DEF Updates
<1>4. \/ hz' = hz
      \/ \E b \in BOOLEAN : hz' = [hz EXCEPT !.phase = rec.upd.phase, !.illegal = b]
  <2> DEFINE b == rec.upd.message = "illegal" \/ (rec.upd.message = "keep" /\ hz.illegal)
  <2>1. b \in BOOLEAN
    BY Types DEF Shapes
  <2>2. \/ hz' = hz
        \/ hz' = [hz EXCEPT !.phase = rec.upd.phase, !.illegal = b]
    BY Types DEF Update, Shapes
  <2> QED
    BY <2>1, <2>2
<1>5. CASE hz' = hz
  BY <1>1, <1>2, <1>5, Types, Itself, Over
<1>6. ASSUME NEW b \in BOOLEAN, hz' = [hz EXCEPT !.phase = rec.upd.phase, !.illegal = b]
      PROVE  Inv'
  <2>1. hz' \in Shapes /\ Alike(hz, hz')
    BY <1>3, <1>6, Types, Reported
  <2>2. Keeps(hz, hz')
    BY <2>1, AlikeKeeps
  <2> QED
    BY <1>1, <1>2, <2>1, <2>2, Over
<1> QED
  BY <1>4, <1>5, <1>6

----------------------------------------------------------------------------
(* The steps of the deletion.                                              *)

LEMMA TerminateStep == ASSUME Inv, Terminate PROVE Inv'
<1>1. UNCHANGED <<cache, roles, missed, status>> /\ rec.pc = "terminating"
  BY DEF Terminate, process, KeptCluster, Kept
<1>2. Dirty' = Dirty
  BY <1>1 DEF Dirty
<1>3. rec.pc \in Ending /\ rec.pc # "idle" /\ "dependents" \in Ending /\ "dependents" \in PCs
  BY <1>1 DEF Ending, PCs
<1>4. CASE NotStored /\ To("dependents")
  <2>1. hz' = hz
    BY <1>4 DEF NotStored
  <2> QED
    BY <1>1, <1>2, <1>3, <1>4, <2>1, Forward, Onward
<1>5. ASSUME NEW e \in Shapes, Alike(rec.h, e), Stored(e, "dependents")
      PROVE  Inv'
  BY <1>1, <1>2, <1>3, <1>5, Types, StoredFields, StoredStep
<1>6. LET e == [rec.h EXCEPT !.phase = "Terminating"] IN e \in Shapes /\ Alike(rec.h, e)
  BY Types, Annotated DEF Phases
<1> QED
  BY <1>4, <1>5, <1>6 DEF Terminate

LEMMA DeleteDependentCRsStep == ASSUME Inv, DeleteDependentCRs PROVE Inv'
<1>1. UNCHANGED <<hz, cache, roles, missed, status>> /\ rec.pc = "dependents"
  BY DEF DeleteDependentCRs, process, Kept
<1>2. Dirty' = Dirty
  BY <1>1 DEF Dirty
<1>3. rec.pc \in Ending /\ rec.pc # "idle" /\ "cleanup" \in Ending /\ "cleanup" \in PCs
  BY <1>1 DEF Ending, PCs
<1>4. To("cleanup") \/ ToUpdate("Terminating", "other", TRUE)
  BY DEF DeleteDependentCRs
<1> QED
  BY <1>1, <1>2, <1>3, <1>4, Forward, ToStatus, Onward

LEMMA CleanUpStep == ASSUME Inv, CleanUp PROVE Inv'
<1>1. UNCHANGED <<hz, cache>> /\ rec.pc = "cleanup"
  BY DEF CleanUp, Kept
<1>2. rec.pc \in Ending /\ rec.pc # "idle" /\ "remove" \in Ending /\ "remove" \in PCs
  BY <1>1 DEF Ending, PCs
<1>3. CASE /\ To("remove") /\ roles' = roles \ Shown /\ status' = FALSE
           /\ missed' = (roles \cap ClusterRoles) \ Shown
  <2>1. ~Dirty'
    BY <1>3 DEF Dirty, Shown
  <2> QED
    BY <1>1, <1>2, <1>3, <2>1, Forward, Onward
<1>4. CASE /\ ToUpdate("Terminating", "other", TRUE)
           /\ roles' \subseteq roles /\ missed' = missed /\ (status' = FALSE \/ status' = status)
  <2>1. Dirty' => Dirty
    BY <1>4 DEF Dirty
  <2> QED
    BY <1>1, <1>2, <1>4, <2>1, ToStatus, Onward
<1> QED
  BY <1>3, <1>4 DEF CleanUp, process

LEMMA RemoveFinalizerStep == ASSUME Inv, RemoveFinalizer PROVE Inv'
<1>1. UNCHANGED <<cache, roles, missed, status>> /\ rec.pc = "remove"
  BY DEF RemoveFinalizer, process, KeptCluster, Kept
<1>2. ~Dirty /\ ~Dirty'
  BY <1>1 DEF Inv, CleanInv, Dirty
<1>3. CASE NotStored /\ ToUpdate("Terminating", "other", TRUE)
  <2>1. hz' = hz
    BY <1>3 DEF NotStored
  <2> QED
    BY <1>1, <1>2, <1>3, <2>1, ToStatus, Onward
<1>4. CASE hz' = Gone /\ rec' = Idle
  <2>1. Ended(cache)
    BY <1>1 DEF Inv, EndInv, Ending
  <2>2. ~Usable(cache)
    BY <2>1, Types, Marks
  <2>3. rec'.pc \notin Creating
    BY <1>4, IdleFields, CreatingPCs
  <2> QED
    BY <1>1, <1>2, <1>4, <2>2, <2>3, GoneStep
<1> QED
  BY <1>3, <1>4 DEF RemoveFinalizer

----------------------------------------------------------------------------
(* The theorem.                                                            *)

LEMMA InitInv == Init => Inv
<1> SUFFICES ASSUME Init PROVE Inv
  OBVIOUS
<1>1. TypeInv
  BY NewFields, GoneFields, IdleFields DEF Init, TypeInv
<1>2. rec.pc = "idle" /\ ~Dirty /\ ~Marked(cache) /\ ~Usable(cache)
  BY IdleFields, GoneEnded DEF Init, Dirty
<1>3. CopyInv /\ EndInv /\ HeldInv /\ CleanInv
  BY <1>2, CreatingPCs DEF CopyInv, EndInv, HeldInv, CleanInv
<1> QED
  BY <1>1, <1>3 DEF Inv

LEMMA NextInv == Inv /\ [Next]_vars => Inv'
<1> SUFFICES ASSUME Inv, [Next]_vars PROVE Inv'
  OBVIOUS
<1>1. CASE Worker
  BY <1>1, AddFinalizerStep, RefusedStep, UpdateLastAppliedSpecStep, CreatingSteps,
     ReconcileSecretStep, StatefulSetSteps, UpdateLastSuccessfulConfigurationStep, UpdateStep,
     TerminateStep, DeleteDependentCRsStep, CleanUpStep, RemoveFinalizerStep
  DEF Worker
<1> QED
  BY <1>1, OthersStep, EditStep, DeleteStep, RestartStep, ReconcileStep DEF Next

\* Whatever is interleaved with the deletion, and however often the operator is
\* restarted or a call fails, a resource that is gone leaves no status service behind,
\* and no cluster role but one that its cache did not show when the finalizer looked
\* for it (executeFinalizer, removeClusterRole and removeClusterRoleBinding of
\* HazelcastReconciler).
THEOREM CleanedUp == Spec => []GoneIsCleanedUp
<1>1. Inv => GoneIsCleanedUp
  BY DEF Inv, HeldInv, Dirty, Held, GoneIsCleanedUp
<1> QED
  BY <1>1, InitInv, NextInv, PTL DEF Spec

============================================================================
