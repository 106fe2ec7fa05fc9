-------------------- MODULE CodeControllers_proofs --------------------
(***************************************************************************)
(* What holds of the controllers of CodeControllers, for every value of    *)
(* the constants.  Every part is about one of them: its inductive          *)
(* invariant is defined in its own module, in terms of its own variables,  *)
(* and here its step lemmas are in those of the composition.               *)
(***************************************************************************)
EXTENDS CodeControllers, TLAPS

----------------------------------------------------------------------------
(* A snapshot is exported at most once for each resource while the         *)
(* operator does not restart, for any number of edits and failed calls.    *)
(*                                                                         *)
(* The map in memory remembers that the export was begun, but the          *)
(* finalizer empties it, even when the object then stays because it could  *)
(* not be written.  No export follows nevertheless: an object that is      *)
(* being deleted is so in the cache the worker reads from then on, and no  *)
(* reconciliation is under way that read an earlier version.               *)

(* What the writes make of an object.                                      *)

LEMMA SnapshotNumbers ==
    0 \in Snapshot!Specs /\ Snapshot!None \in Snapshot!Anns
    /\ Snapshot!Specs \subseteq Snapshot!Anns
    /\ \A n \in Snapshot!Specs : 1 - n \in Snapshot!Specs
BY DEF Snapshot!Specs, Snapshot!Anns

LEMMA SnapshotNewFields ==
    Snapshot!New \in Snapshot!Objects /\ Snapshot!Gone \in Snapshot!Objects
<1>1. Snapshot!New \in Snapshot!Objects
  BY SnapshotNumbers DEF Snapshot!New, Snapshot!Objects
<1> QED
  BY <1>1 DEF Snapshot!Gone, Snapshot!Objects

LEMMA SnapshotGoneEnded == Snapshot!Ended(Snapshot!Gone) /\ ~Snapshot!Marked(Snapshot!Gone)
BY DEF Snapshot!Gone, Snapshot!New, Snapshot!Ended, Snapshot!Marked

LEMMA SnapshotIdleFields ==
    Snapshot!Idle \in [pc : Snapshot!PCs, jjs : Snapshot!Objects] /\ Snapshot!Idle.pc = "idle"
BY SnapshotNewFields DEF Snapshot!Idle, Snapshot!PCs

LEMMA SnapshotEdited ==
    ASSUME NEW o \in Snapshot!Objects
    PROVE  LET e == [o EXCEPT !.spec = 1 - @]
           IN  e \in Snapshot!Objects /\ (Snapshot!Ended(o) => Snapshot!Ended(e))
<1>1. 1 - o.spec \in Snapshot!Specs
  BY SnapshotNumbers DEF Snapshot!Objects
<1> QED
  BY <1>1 DEF Snapshot!Objects, Snapshot!Ended

LEMMA SnapshotDeleted ==
    ASSUME NEW o \in Snapshot!Objects
    PROVE  LET e == [o EXCEPT !.deleting = TRUE]
           IN  e \in Snapshot!Objects /\ Snapshot!Ended(e)
BY DEF Snapshot!Objects, Snapshot!Ended

LEMMA SnapshotWritten ==
    ASSUME NEW o \in Snapshot!Objects, NEW s \in {"", "Failed", "Exporting", "Exported"},
           NEW e \in {[o EXCEPT !.state = s], [o EXCEPT !.time = TRUE], [o EXCEPT !.fin = TRUE],
                      [o EXCEPT !.owned = TRUE]}
    PROVE  e \in Snapshot!Objects /\ (Snapshot!Ended(o) => Snapshot!Ended(e))
BY DEF Snapshot!Objects, Snapshot!Ended

LEMMA SnapshotAnnotated ==
    ASSUME NEW o \in Snapshot!Objects
    PROVE  LET e == [o EXCEPT !.ann = o.spec]
           IN  e \in Snapshot!Objects /\ (Snapshot!Ended(o) => Snapshot!Ended(e))
BY SnapshotNumbers DEF Snapshot!Objects, Snapshot!Ended

LEMMA SnapshotMoved ==
    ASSUME NEW pc \in Snapshot!PCs, rec \in [pc : Snapshot!PCs, jjs : Snapshot!Objects]
    PROVE  Snapshot!To(pc) \in [pc : Snapshot!PCs, jjs : Snapshot!Objects]
           /\ Snapshot!To(pc).pc = pc
BY DEF Snapshot!To

LEMMA SnapshotSetupPcs ==
    ASSUME NEW o \in Snapshot!Objects
    PROVE  Snapshot!Setup(o) \in {"idle", "failed", "owner", "job"}
BY DEF Snapshot!Setup, Snapshot!Objects

----------------------------------------------------------------------------
\* A step that leaves the export alone, and after which the worker is not
\* nearer to one.
LEMMA SnapshotAside ==
    ASSUME Snapshot!Inv, object' \in Snapshot!Objects,
           Snapshot!Ended(object) => Snapshot!Ended(object'), cache' \in {cache, object},
           rec' \in [pc : Snapshot!PCs, jjs : Snapshot!Objects],
           rec'.pc = rec.pc \/ rec'.pc \in {"idle", "failed"}
           \/ (Snapshot!Over => Snapshot!Over'),
           rec'.pc = "final" => rec.pc = "final" \/ Snapshot!Marked(cache),
           UNCHANGED <<v2, v3, v4, flag>>
    PROVE  Snapshot!Inv'
<1>1. Snapshot!TypeInv'
  BY DEF Snapshot!Inv, Snapshot!TypeInv
<1>2. Snapshot!Marked(object) => Snapshot!Ended(object)
  BY DEF Snapshot!Marked, Snapshot!Ended
<1>3. Snapshot!Marked(cache) => Snapshot!Ended(cache)
  BY DEF Snapshot!Marked, Snapshot!Ended
<1>4. Snapshot!Marked(cache)' => Snapshot!Ended(object)'
  BY <1>2 DEF Snapshot!Inv, Snapshot!EndInv
<1>5. rec'.pc = "final" => Snapshot!Ended(object)' /\ Snapshot!Ended(cache)'
  BY <1>3 DEF Snapshot!Inv, Snapshot!EndInv
<1>6. Snapshot!Over => Snapshot!Over'
  BY DEF Snapshot!Over
<1> QED
  BY <1>1, <1>4, <1>5, <1>6 DEF Snapshot!Inv, Snapshot!EndInv, Snapshot!CountInv
----------------------------------------------------------------------------
(* The steps.                                                              *)

LEMMA SnapshotTypes ==
    ASSUME Snapshot!Inv
    PROVE  /\ object \in Snapshot!Objects /\ cache \in Snapshot!Objects
           /\ rec \in [pc : Snapshot!PCs, jjs : Snapshot!Objects]
           /\ rec.pc \in Snapshot!PCs /\ v3 \in Snapshot!Tasks /\ v4 \in Nat
BY DEF Snapshot!Inv, Snapshot!TypeInv

LEMMA SnapshotOthersStep ==
    Snapshot!Inv /\ (Snapshot!Edit \/ Snapshot!Delete \/ Snapshot!SyncCache \/ Snapshot!JetJobChange) => Snapshot!Inv'
<1> SUFFICES ASSUME Snapshot!Inv,
                    Snapshot!Edit \/ Snapshot!Delete \/ Snapshot!SyncCache \/
                        Snapshot!JetJobChange
             PROVE  Snapshot!Inv'
  OBVIOUS
<1>1. UNCHANGED <<v2, v3, v4, flag, rec>> /\ cache' \in {cache, object}
  BY 
  DEF Snapshot!Edit, Snapshot!Delete, Snapshot!SyncCache, Snapshot!JetJobChange, Snapshot!kube
<1>2. object' \in Snapshot!Objects /\ (Snapshot!Ended(object) => Snapshot!Ended(object'))
  <2>1. CASE Snapshot!Edit
    BY <2>1, SnapshotTypes, SnapshotEdited DEF Snapshot!Edit
  <2>2. CASE Snapshot!Delete
    BY <2>2, SnapshotTypes, SnapshotDeleted, SnapshotNewFields, SnapshotGoneEnded
    DEF Snapshot!Delete
  <2>3. CASE object' = object
    BY <2>3, SnapshotTypes
  <2> QED
    BY <2>1, <2>2, <2>3 DEF Snapshot!SyncCache, Snapshot!JetJobChange, Snapshot!kube
<1> QED
  BY <1>1, <1>2, SnapshotTypes, SnapshotAside

LEMMA SnapshotRestartStep == Snapshot!Inv /\ Snapshot!Restart => Snapshot!Inv'
<1> SUFFICES ASSUME Snapshot!Inv, Snapshot!Restart PROVE Snapshot!Inv'
  OBVIOUS
<1>1. /\ object' = object /\ cache' = object /\ rec' = Snapshot!Idle /\ v3' = "none" /\ v4' = v4
      /\ flag' = TRUE
  BY DEF Snapshot!Restart
<1>2. Snapshot!TypeInv'
  BY <1>1, SnapshotTypes, SnapshotIdleFields DEF Snapshot!TypeInv, Snapshot!Tasks
<1>3. Snapshot!Marked(object) => Snapshot!Ended(object)
  BY DEF Snapshot!Marked, Snapshot!Ended
<1>4. Snapshot!EndInv'
  BY <1>1, <1>3, SnapshotIdleFields DEF Snapshot!EndInv
<1> QED
  BY <1>1, <1>2, <1>4 DEF Snapshot!Inv, Snapshot!CountInv

LEMMA SnapshotReconcileStep == Snapshot!Inv /\ Snapshot!Reconcile => Snapshot!Inv'
<1> SUFFICES ASSUME Snapshot!Inv, Snapshot!Reconcile PROVE Snapshot!Inv'
  OBVIOUS
<1>1. UNCHANGED <<object, cache, v2, v3, v4, flag>> /\ rec.pc = "idle"
  BY DEF Snapshot!Reconcile
<1>2. CASE ~cache.live
  <2>1. rec' = Snapshot!Idle
    BY <1>2 DEF Snapshot!Reconcile
  <2> QED
    BY <1>1, <2>1, SnapshotTypes, SnapshotIdleFields, SnapshotAside
<1>3. CASE cache.live
  <2>1. PICK pc \in Snapshot!PCs :
          /\ rec' = [jjs |-> cache, pc |-> pc]
          /\ cache.deleting => pc = "final"
          /\ ~cache.deleting => pc # "final"
    <3>1. cache.fin \in BOOLEAN /\ cache.deleting \in BOOLEAN
      BY SnapshotTypes DEF Snapshot!Objects
    <3>2. Snapshot!Setup(cache) \in Snapshot!PCs /\ Snapshot!Setup(cache) # "final"
      BY SnapshotTypes, SnapshotSetupPcs DEF Snapshot!PCs
    <3> QED
      BY <1>3, <3>1, <3>2 DEF Snapshot!Reconcile, Snapshot!PCs
  <2>2. rec' \in [pc : Snapshot!PCs, jjs : Snapshot!Objects] /\ rec'.pc = pc
    BY <2>1, SnapshotTypes
  <2>3. pc = "final" <=> Snapshot!Marked(cache)
    BY <1>3, <2>1 DEF Snapshot!Marked
  <2>4. Snapshot!Ended(cache) => Snapshot!Marked(cache)
    BY <1>3 DEF Snapshot!Ended, Snapshot!Marked
  <2>5. Snapshot!Over => Snapshot!Over'
    BY <1>1, <2>2, <2>3, <2>4 DEF Snapshot!Over
  <2> QED
    BY <1>1, <2>2, <2>3, <2>5, SnapshotTypes, SnapshotAside
<1> QED
  BY <1>2, <1>3

LEMMA SnapshotUpdateObjectStep == Snapshot!Inv /\ Snapshot!UpdateObject => Snapshot!Inv'
<1> SUFFICES ASSUME Snapshot!Inv, Snapshot!UpdateObject PROVE Snapshot!Inv'
  OBVIOUS
<1>1. /\ UNCHANGED <<cache, v2, v3, v4, flag>>
      /\ rec.pc \in {"finalizer", "owner"}
  BY DEF Snapshot!UpdateObject
<1>2. ~Snapshot!Over
  BY <1>1 DEF Snapshot!Over
<1>3. CASE rec' = Snapshot!To("failed") /\ object' = object
  BY <1>1, <1>3, SnapshotTypes, SnapshotMoved, SnapshotAside DEF Snapshot!PCs
<1>4. CASE /\ object' = IF rec.pc = "owner" THEN [object EXCEPT !.owned = TRUE] ELSE [object EXCEPT !.fin = TRUE]
           /\ rec' = [pc |-> IF rec.pc = "owner" THEN "job" ELSE Snapshot!Setup(object'), jjs |-> object']
  <2>1. object' \in Snapshot!Objects /\ (Snapshot!Ended(object) => Snapshot!Ended(object'))
    BY <1>4, SnapshotTypes, SnapshotWritten
  <2>2. Snapshot!Setup(object') \in Snapshot!PCs /\ Snapshot!Setup(object') # "final"
    BY <2>1, SnapshotSetupPcs DEF Snapshot!PCs
  <2>3. rec' \in [pc : Snapshot!PCs, jjs : Snapshot!Objects] /\ rec'.pc # "final"
    BY <1>4, <2>1, <2>2 DEF Snapshot!PCs
  <2> QED
    BY <1>1, <1>2, <2>1, <2>3, SnapshotAside
<1> QED
  BY <1>3, <1>4 DEF Snapshot!UpdateObject

LEMMA SnapshotStatusStep == Snapshot!Inv /\ Snapshot!UpdateStatus => Snapshot!Inv'
<1> SUFFICES ASSUME Snapshot!Inv, Snapshot!UpdateStatus PROVE Snapshot!Inv'
  OBVIOUS
<1>1. UNCHANGED <<cache, v2, v3, v4, flag>> /\ rec' = Snapshot!Idle
  BY DEF Snapshot!UpdateStatus
<1>2. object' \in Snapshot!Objects /\ (Snapshot!Ended(object) => Snapshot!Ended(object'))
  BY SnapshotTypes, SnapshotWritten DEF Snapshot!UpdateStatus
<1> QED
  BY <1>1, <1>2, SnapshotIdleFields, SnapshotAside

LEMMA SnapshotCheckJobStep == Snapshot!Inv /\ Snapshot!CheckJob => Snapshot!Inv'
<1> SUFFICES ASSUME Snapshot!Inv, Snapshot!CheckJob PROVE Snapshot!Inv'
  OBVIOUS
<1>1. UNCHANGED <<object, cache, v2, v3, v4, flag>> /\ rec.pc = "job"
  BY DEF Snapshot!CheckJob
<1>2. ~Snapshot!Over
  BY <1>1 DEF Snapshot!Over
<1>3. rec' \in [pc : Snapshot!PCs, jjs : Snapshot!Objects] /\ rec'.pc # "final"
  BY SnapshotTypes, SnapshotIdleFields, SnapshotMoved DEF Snapshot!CheckJob, Snapshot!PCs
<1> QED
  BY <1>1, <1>2, <1>3, SnapshotTypes, SnapshotAside

LEMMA SnapshotUpdateLastSuccessfulStep ==
    Snapshot!Inv /\ Snapshot!UpdateLastSuccessful => Snapshot!Inv'
<1> SUFFICES ASSUME Snapshot!Inv, Snapshot!UpdateLastSuccessful PROVE Snapshot!Inv'
  OBVIOUS
<1>1. UNCHANGED <<cache, v2, v3, v4, flag>> /\ rec' = Snapshot!Idle
  BY DEF Snapshot!UpdateLastSuccessful
<1>2. object' \in Snapshot!Objects /\ (Snapshot!Ended(object) => Snapshot!Ended(object'))
  BY SnapshotTypes, SnapshotAnnotated DEF Snapshot!UpdateLastSuccessful
<1> QED
  BY <1>1, <1>2, SnapshotIdleFields, SnapshotAside

\* The worker that exports is not past the end: nothing was begun unless the
\* map says so.
LEMMA SnapshotExportSnapshotStep == Snapshot!Inv /\ Snapshot!ExportSnapshot => Snapshot!Inv'
<1> SUFFICES ASSUME Snapshot!Inv, Snapshot!ExportSnapshot PROVE Snapshot!Inv'
  OBVIOUS
<1>1. /\ UNCHANGED <<object, cache, v4, flag>> /\ rec.pc = "export"
      /\ rec' = Snapshot!To("annotate")
  BY DEF Snapshot!ExportSnapshot, Snapshot!kube
<1>2. rec' \in [pc : Snapshot!PCs, jjs : Snapshot!Objects] /\ rec'.pc = "annotate"
  BY <1>1, SnapshotTypes, SnapshotMoved DEF Snapshot!PCs
<1>3. ~Snapshot!Over
  BY <1>1 DEF Snapshot!Over
<1>4. v3' \in Snapshot!Tasks
  BY SnapshotTypes DEF Snapshot!ExportSnapshot, Snapshot!Tasks
<1>5. Snapshot!TypeInv' /\ Snapshot!EndInv'
  BY <1>1, <1>2, <1>4, SnapshotTypes DEF Snapshot!Inv, Snapshot!TypeInv, Snapshot!EndInv
<1>6. \/ v3' = "begin" /\ v2' /\ ~v2
      \/ v3' = v3 /\ (v2' <=> v2)
      \/ v3' = v3 /\ v2'
  BY DEF Snapshot!ExportSnapshot, Snapshot!Begin
<1>7. Snapshot!CountInv'
  BY <1>1, <1>3, <1>6, SnapshotTypes DEF Snapshot!Inv, Snapshot!CountInv
<1> QED
  BY <1>5, <1>7 DEF Snapshot!Inv

\* The finalizer empties the map; the object is at its end by then.
LEMMA SnapshotExecuteFinalizerStep == Snapshot!Inv /\ Snapshot!ExecuteFinalizer => Snapshot!Inv'
<1> SUFFICES ASSUME Snapshot!Inv, Snapshot!ExecuteFinalizer PROVE Snapshot!Inv'
  OBVIOUS
<1>1. UNCHANGED <<cache, v3, v4, flag>> /\ rec.pc = "final"
  BY DEF Snapshot!ExecuteFinalizer
<1>2. rec' \in [pc : Snapshot!PCs, jjs : Snapshot!Objects] /\ rec'.pc \in {"idle", "failed"}
  BY SnapshotTypes, SnapshotIdleFields, SnapshotMoved
  DEF Snapshot!ExecuteFinalizer, Snapshot!PCs
<1>3. object' \in {object, Snapshot!Gone}
  BY DEF Snapshot!ExecuteFinalizer
<1>4. Snapshot!Ended(object) /\ Snapshot!Ended(cache)
  BY <1>1 DEF Snapshot!Inv, Snapshot!EndInv
<1>5. object' \in Snapshot!Objects /\ Snapshot!Ended(object')
  BY <1>3, <1>4, SnapshotTypes, SnapshotNewFields, SnapshotGoneEnded
<1>6. Snapshot!TypeInv' /\ Snapshot!EndInv'
  BY <1>1, <1>2, <1>5, SnapshotTypes DEF Snapshot!TypeInv, Snapshot!EndInv
<1>7. Snapshot!Over'
  BY <1>1, <1>2, <1>4, <1>5 DEF Snapshot!Over
<1>8. Snapshot!CountInv'
  BY <1>1, <1>7 DEF Snapshot!Inv, Snapshot!CountInv
<1> QED
  BY <1>6, <1>8 DEF Snapshot!Inv

LEMMA SnapshotReportStep ==
    ASSUME Snapshot!Inv, NEW o \in Snapshot!Objects,
           Snapshot!Ended(object) => Snapshot!Ended(o), NEW from \in Snapshot!Tasks,
           NEW to \in Snapshot!Tasks,
           from # "none", to = "export" => from = "begin", to # "begin",
           Snapshot!Report(from, o, to)
    PROVE  Snapshot!Inv'
<1>1. UNCHANGED <<cache, v2, v4, rec, flag>> /\ v3 = from /\ v3' = to
  BY DEF Snapshot!Report
<1>2. object' \in Snapshot!Objects /\ (Snapshot!Ended(object) => Snapshot!Ended(object'))
  BY SnapshotTypes DEF Snapshot!Report, Snapshot!Write
<1>3. Snapshot!TypeInv'
  BY <1>1, <1>2, SnapshotTypes DEF Snapshot!TypeInv
<1>4. Snapshot!EndInv'
  BY <1>1, <1>2 DEF Snapshot!Inv, Snapshot!EndInv
<1>5. Snapshot!Over => Snapshot!Over'
  BY <1>1, <1>2 DEF Snapshot!Over
<1>6. Snapshot!CountInv'
  BY <1>1, <1>5 DEF Snapshot!Inv, Snapshot!CountInv
<1> QED
  BY <1>3, <1>4, <1>6 DEF Snapshot!Inv

LEMMA SnapshotExportStep == Snapshot!Inv /\ Snapshot!Export => Snapshot!Inv'
<1> SUFFICES ASSUME Snapshot!Inv, Snapshot!Export PROVE Snapshot!Inv'
  OBVIOUS
<1>1. UNCHANGED <<object, cache, v2, rec, flag>> /\ v3 = "export"
  BY DEF Snapshot!Export, Snapshot!kube
<1>2. \/ v4' = v4 + 1 /\ v3' = "time"
      \/ v4' = v4 /\ v3' = "failed"
  BY DEF Snapshot!Export
<1>3. Snapshot!TypeInv' /\ Snapshot!EndInv'
  BY <1>1, <1>2, SnapshotTypes
  DEF Snapshot!Inv, Snapshot!TypeInv, Snapshot!EndInv, Snapshot!Tasks
<1>4. Snapshot!Over => Snapshot!Over'
  BY <1>1 DEF Snapshot!Over
<1>5. Snapshot!CountInv'
  BY <1>1, <1>2, <1>4, SnapshotTypes DEF Snapshot!Inv, Snapshot!CountInv
<1> QED
  BY <1>3, <1>5 DEF Snapshot!Inv

LEMMA SnapshotTaskStep == Snapshot!Inv /\ Snapshot!Task => Snapshot!Inv'
<1> SUFFICES ASSUME Snapshot!Inv, Snapshot!Task PROVE Snapshot!Inv'
  OBVIOUS
<1>1. CASE Snapshot!Report("begin", [object EXCEPT !.state = "Exporting"], "export")
  BY <1>1, SnapshotTypes, SnapshotWritten, SnapshotReportStep DEF Snapshot!Tasks
<1>2. CASE Snapshot!Report("time", [object EXCEPT !.time = TRUE], "exported")
  BY <1>2, SnapshotTypes, SnapshotWritten, SnapshotReportStep DEF Snapshot!Tasks
<1>3. CASE Snapshot!Report("exported", [object EXCEPT !.state = "Exported"], "none")
  BY <1>3, SnapshotTypes, SnapshotWritten, SnapshotReportStep DEF Snapshot!Tasks
<1>4. CASE Snapshot!Report("failed", [object EXCEPT !.state = "Failed"], "none")
  BY <1>4, SnapshotTypes, SnapshotWritten, SnapshotReportStep DEF Snapshot!Tasks
<1> QED
  BY <1>1, <1>2, <1>3, <1>4, SnapshotExportStep DEF Snapshot!Task

----------------------------------------------------------------------------
(* The theorem.                                                            *)

LEMMA SnapshotInitInv == Snapshot!Init => Snapshot!Inv
<1> SUFFICES ASSUME Snapshot!Init PROVE Snapshot!Inv
  OBVIOUS
<1>1. Snapshot!TypeInv
  BY SnapshotNewFields, SnapshotIdleFields DEF Snapshot!Init, Snapshot!TypeInv, Snapshot!Tasks
<1>2. Snapshot!EndInv
  BY SnapshotGoneEnded, SnapshotIdleFields DEF Snapshot!Init, Snapshot!EndInv
<1>3. Snapshot!CountInv
  BY DEF Snapshot!Init, Snapshot!CountInv
<1> QED
  BY <1>1, <1>2, <1>3 DEF Snapshot!Inv

LEMMA SnapshotNextInv == Snapshot!Inv /\ [Snapshot!Next]_(Snapshot!vars) => Snapshot!Inv'
<1> SUFFICES ASSUME Snapshot!Inv, [Snapshot!Next]_(Snapshot!vars) PROVE Snapshot!Inv'
  OBVIOUS
<1>1. CASE UNCHANGED Snapshot!vars
  BY <1>1, SnapshotTypes, SnapshotAside DEF Snapshot!vars, Snapshot!kube
<1> QED
  BY <1>1, SnapshotOthersStep, SnapshotRestartStep, SnapshotReconcileStep,
     SnapshotUpdateObjectStep, SnapshotStatusStep, SnapshotCheckJobStep,
     SnapshotUpdateLastSuccessfulStep, SnapshotExportSnapshotStep, SnapshotExecuteFinalizerStep,
     SnapshotTaskStep
  DEF Snapshot!Next, Snapshot!Worker

\* While the operator does not restart, the members export at most one snapshot
\* for the resource (exportSnapshot), whatever the map in memory, the annotation
\* and the creation time say after writes that failed.
THEOREM Once == CodeSpec => []ExportedOnce
<1> DEFINE I == which = "snapshot" => Snapshot!Inv
<1>1. CodeInit => I
  BY SnapshotInitInv DEF CodeInit, SnapshotInit, NamespaceInit
<1>2. I /\ [CodeNext]_vars => I'
  <2> SUFFICES ASSUME I, [CodeNext]_vars, which' = "snapshot" PROVE Snapshot!Inv'
    OBVIOUS
  <2>1. which = "snapshot"
    BY DEF CodeNext, vars, SnapshotStep, NamespaceStep
  <2>2. CASE Snapshot!Next
    BY <2>1, <2>2, SnapshotNextInv
  <2>3. CASE UNCHANGED Snapshot!vars
    BY <2>1, <2>3, SnapshotNextInv
  <2>4. Snapshot!Next \/ UNCHANGED Snapshot!vars
    BY <2>1 DEF CodeNext, vars, slots, Snapshot!vars, Snapshot!kube,
                SnapshotStep, NamespaceStep
  <2> QED
    BY <2>2, <2>3, <2>4
<1>3. I => ExportedOnce
  BY DEF ExportedOnce, Snapshot!ExportedOnce, Snapshot!Inv, Snapshot!CountInv
<1> QED
  BY <1>1, <1>2, <1>3, PTL DEF CodeSpec

----------------------------------------------------------------------------
(* A namespace that is Success since its last edit was applied is on every *)
(* member, and so is one whose controller has nothing left to do, for      *)
(* every set of members and any number of edits and failed calls.          *)
(*                                                                         *)
(* The danger is a reconciliation that works with an old copy: it would    *)
(* put an old bundle under a Success that was reported for a newer one.    *)
(* The invariant says why there is none.  The edits that the object, the   *)
(* cache and the copy hold are ordered, one edit has one spec, and what    *)
(* was annotated as applied is never newer than the copy.  At rest the     *)
(* last write was the Success of the copy that the object still is: every  *)
(* other end of a reconciliation queues the object again or changes it.    *)

(* What the writes make of an object.                                      *)

LEMMA NamespaceGoneFields ==
    /\ Namespace!Gone \in Namespace!Objects /\ ~Namespace!Live(Namespace!Gone)
    /\ ~Namespace!HasFin(Namespace!Gone) /\ ~Namespace!Deleting(Namespace!Gone)
    /\ Namespace!Gone.gen = 0 /\ Namespace!Gone.state = ""
BY DEF Namespace!Gone, Namespace!New, Namespace!Objects, Namespace!States, Namespace!Live,
       Namespace!HasFin, Namespace!Deleting

LEMMA NamespaceNewFields ==
    Namespace!New \in Namespace!Objects /\ Namespace!New.gen = 1 /\ Namespace!New.state = ""
BY DEF Namespace!New, Namespace!Objects, Namespace!States

LEMMA NamespaceIdleFields ==
    Namespace!Idle \in [pc : Namespace!PCs, ucn : Namespace!Objects]
    /\ Namespace!Idle.pc = "idle"
BY NamespaceGoneFields DEF Namespace!Idle, Namespace!PCs

LEMMA NamespaceFields ==
    ASSUME NEW o \in Namespace!Objects
    PROVE  o.gen \in Nat /\ o.spec \in Nat /\ o.ann \in Nat
BY DEF Namespace!Objects

\* An edit makes another generation, and every other write keeps the spec.
LEMMA NamespaceEdited ==
    ASSUME NEW o \in Namespace!Objects, NEW v \in Nat
    PROVE  LET e == [o EXCEPT !.gen = @ + 1, !.spec = v]
           IN  /\ e \in Namespace!Objects /\ e.gen = o.gen + 1
               /\ Namespace!HasFin(o) => Namespace!HasFin(e)
               /\ Namespace!Deleting(o) => Namespace!Deleting(e)
<1>1. o.gen + 1 \in Nat
  BY NamespaceFields
<1> QED
  BY <1>1 DEF Namespace!Objects, Namespace!HasFin, Namespace!Deleting

LEMMA NamespaceMarked ==
    ASSUME NEW o \in Namespace!Objects,
           NEW t \in {[o EXCEPT !.deleting = TRUE], [o EXCEPT !.fin = TRUE],
                      [o EXCEPT !.tried = o.spec]}
    PROVE  t \in Namespace!Objects /\ Namespace!Keeps(o, t) /\ t.state = o.state
BY DEF Namespace!Objects, Namespace!Keeps, Namespace!Live, Namespace!HasFin, Namespace!Deleting

LEMMA NamespaceDeleting ==
    ASSUME NEW o \in Namespace!Objects
    PROVE  Namespace!Deleting([o EXCEPT !.deleting = TRUE]) /\ Namespace!HasFin([o EXCEPT !.fin = TRUE])
BY DEF Namespace!Objects, Namespace!HasFin, Namespace!Deleting

LEMMA NamespaceAnnotated ==
    ASSUME NEW o \in Namespace!Objects
    PROVE  LET e == [o EXCEPT !.ann = o.spec]
           IN  e \in Namespace!Objects /\ Namespace!Keeps(o, e)
               /\ e.ann = o.spec /\ e.state = o.state
BY DEF Namespace!Objects, Namespace!Keeps, Namespace!Live, Namespace!HasFin, Namespace!Deleting

LEMMA NamespaceReported ==
    ASSUME NEW o \in Namespace!Objects, NEW s \in {"Pending", "Failure", "Success"}
    PROVE  LET e == [o EXCEPT !.state = s]
           IN  e \in Namespace!Objects /\ Namespace!Keeps(o, e)
               /\ e.ann = o.ann /\ e.state = s
BY DEF Namespace!Objects, Namespace!States, Namespace!Keeps, Namespace!Live, Namespace!HasFin,
       Namespace!Deleting

LEMMA NamespaceCopied ==
    ASSUME NEW r \in [pc : Namespace!PCs, ucn : Namespace!Objects], NEW pc \in Namespace!PCs
    PROVE  LET e == [r EXCEPT !.pc = pc]
           IN  e \in [pc : Namespace!PCs, ucn : Namespace!Objects] /\ e.pc = pc /\ e.ucn = r.ucn
OBVIOUS

(* What a step that leaves the cache and what was applied keeps.           *)

LEMMA NamespaceKept ==
    ASSUME Namespace!GenInv, Namespace!CacheInv, object.gen # 0,
           Namespace!Keeps(object, object'), UNCHANGED <<cache, v4>>
    PROVE  Namespace!GenInv' /\ Namespace!CacheInv'
<1>1. Namespace!GenInv'
  BY DEF Namespace!GenInv, Namespace!HasGen, Namespace!Keeps
<1>2. Namespace!Agree(cache, object) => Namespace!Agree(cache, object')
  BY DEF Namespace!Agree, Namespace!Keeps
<1>3. object'.gen = object.gen
  BY DEF Namespace!Keeps
<1>4. Namespace!CacheInv'
  BY <1>2, <1>3 DEF Namespace!CacheInv, Namespace!Keeps
<1> QED
  BY <1>1, <1>4

LEMMA NamespaceCopyKept ==
    ASSUME Namespace!CopyInv, UNCHANGED <<cache, v4>>, object.gen = 0 => object'.gen = 0,
           rec'.pc # "idle" => /\ rec.pc # "idle"
                               /\ rec'.ucn.gen = rec.ucn.gen /\ rec'.ucn.spec = rec.ucn.spec
    PROVE  Namespace!CopyInv'
BY DEF Namespace!CopyInv, Namespace!Agree

LEMMA NamespaceAppliedKept ==
    ASSUME Namespace!LastIsApplied => Namespace!Everywhere, UNCHANGED <<v2, v3, v4>>,
           \/ object'.state # "Success"
           \/ object'.state = object.state /\ object'.gen = object.gen /\ object'.spec = object.spec
    PROVE  (Namespace!LastIsApplied => Namespace!Everywhere)'
BY DEF Namespace!LastIsApplied, Namespace!Everywhere

LEMMA NamespaceNotAtRest ==
    ASSUME \/ rec'.pc # "idle" \/ queued' = TRUE \/ cache' # object' \/ ~Namespace!Live(object')
    PROVE  ~Namespace!AtRest'
BY DEF Namespace!AtRest, Namespace!Live

----------------------------------------------------------------------------
LEMMA NamespaceInitInv == Namespace!Init => Namespace!Inv
<1> SUFFICES ASSUME Namespace!Init PROVE Namespace!Inv
  OBVIOUS
<1>1. Namespace!TypeInv
  <2>1. [m \in Members |-> 0] \in [Members -> Nat]
    OBVIOUS
  <2> QED
    BY <2>1, NamespaceGoneFields, NamespaceNewFields, NamespaceIdleFields
    DEF Namespace!Init, Namespace!TypeInv
<1>2. object.gen = 1 /\ cache.gen = 0 /\ v4 = 0 /\ object.state = ""
  BY NamespaceGoneFields, NamespaceNewFields DEF Namespace!Init
<1>9. 1 # 0 /\ 0 <= 0 /\ 0 <= 1
  OBVIOUS
<1>8. ~Namespace!Live(cache) /\ ~Namespace!HasFin(cache) /\ ~Namespace!Deleting(cache)
  BY NamespaceGoneFields DEF Namespace!Init
<1>3. Namespace!GenInv
  BY <1>2, <1>8, <1>9, Zenon DEF Namespace!GenInv, Namespace!HasGen
<1>4. Namespace!CacheInv
  <2>1. v4 <= cache.gen /\ cache.gen <= object.gen /\ Namespace!Agree(cache, object)
    BY <1>2, <1>9, Zenon DEF Namespace!Agree
  <2> QED
    BY <1>8, <2>1, Zenon DEF Namespace!CacheInv
<1>5. Namespace!CopyInv /\ Namespace!DoneInv
  BY NamespaceIdleFields DEF Namespace!Init, Namespace!CopyInv, Namespace!DoneInv
<1>6. cache # object
  BY <1>2, <1>9, Zenon
<1>7. Namespace!SuccessIsEverywhere
  BY <1>2, <1>6 DEF Namespace!LastIsApplied, Namespace!AtRest, Namespace!SuccessIsEverywhere
<1> QED
  BY <1>1, <1>3, <1>4, <1>5, <1>7 DEF Namespace!Inv

\* A worker that only goes on to the download, reports a failure, or stops and
\* comes back.
LEMMA NamespaceGoesOn ==
    ASSUME Namespace!Inv, UNCHANGED <<object, cache, v2, v3, v4>>,
           rec.pc # "idle", queued' \in BOOLEAN, events' \in Nat,
           \/ rec' = Namespace!Idle /\ queued' = TRUE
           \/ rec' \in {Namespace!To("download"), Namespace!To("Failure")}
    PROVE  Namespace!Inv'
<1>1. /\ rec' \in [pc : Namespace!PCs, ucn : Namespace!Objects]
      /\ rec'.pc \in {"idle", "download", "Failure"}
      /\ rec'.pc # "idle" => rec'.ucn = rec.ucn
      /\ rec'.pc = "idle" => queued' = TRUE
  <2>1. CASE rec' = Namespace!Idle /\ queued' = TRUE
    BY <2>1, NamespaceIdleFields
  <2>2. rec \in [pc : Namespace!PCs, ucn : Namespace!Objects]
    BY DEF Namespace!Inv, Namespace!TypeInv
  <2>3. CASE rec' = Namespace!To("download")
    BY <2>2, <2>3, NamespaceCopied DEF Namespace!To, Namespace!PCs
  <2>4. CASE rec' = Namespace!To("Failure")
    BY <2>2, <2>4, NamespaceCopied DEF Namespace!To, Namespace!PCs
  <2> QED
    BY <2>1, <2>3, <2>4
<1>2. Namespace!TypeInv' /\ Namespace!DoneInv'
  BY <1>1 DEF Namespace!Inv, Namespace!TypeInv, Namespace!DoneInv
<1>3. Namespace!CopyInv'
  BY <1>1, NamespaceCopyKept DEF Namespace!Inv
<1>4. Namespace!GenInv' /\ Namespace!CacheInv'
  BY DEF Namespace!Inv, Namespace!GenInv, Namespace!CacheInv
<1>5. (Namespace!LastIsApplied => Namespace!Everywhere)'
  BY NamespaceAppliedKept DEF Namespace!Inv, Namespace!SuccessIsEverywhere
<1>6. ~Namespace!AtRest'
  BY <1>1, NamespaceNotAtRest
<1> QED
  BY <1>2, <1>3, <1>4, <1>5, <1>6 DEF Namespace!Inv, Namespace!SuccessIsEverywhere

\* What was applied is the spec of the copy, when it is the one of the object.
LEMMA NamespaceSameSpec ==
    ASSUME Namespace!TypeInv, Namespace!GenInv, Namespace!CacheInv, Namespace!CopyInv,
           rec.pc # "idle", Namespace!LastIsApplied
    PROVE  rec.ucn.spec = object.spec
<1>1. object.gen \in Nat /\ cache.gen \in Nat /\ rec.ucn.gen \in Nat /\ v4 \in Nat
  BY NamespaceFields DEF Namespace!TypeInv
<1>2. object.gen # 0
  BY DEF Namespace!GenInv, Namespace!LastIsApplied
<1>3. rec.ucn.gen = cache.gen /\ cache.gen = object.gen
  BY <1>1, <1>2 DEF Namespace!CacheInv, Namespace!CopyInv, Namespace!LastIsApplied
<1> QED
  BY <1>2, <1>3 DEF Namespace!CacheInv, Namespace!CopyInv, Namespace!Agree

LEMMA NamespaceNextInv == Namespace!Inv /\ [Namespace!Next]_(Namespace!vars) => Namespace!Inv'
<1> SUFFICES ASSUME Namespace!Inv, [Namespace!Next]_(Namespace!vars) PROVE Namespace!Inv'
  OBVIOUS
<1>t. Namespace!TypeInv
  BY DEF Namespace!Inv
<1>g. Namespace!GenInv
  BY DEF Namespace!Inv
<1>c. Namespace!CacheInv
  BY DEF Namespace!Inv
<1>o. Namespace!CopyInv
  BY DEF Namespace!Inv
<1>d. Namespace!DoneInv
  BY DEF Namespace!Inv
<1>l. Namespace!LastIsApplied => Namespace!Everywhere
  BY DEF Namespace!Inv, Namespace!SuccessIsEverywhere
<1>r. Namespace!AtRest =>
        object.state = "Success" /\ object.ann = object.spec /\ Namespace!Everywhere
  BY DEF Namespace!Inv, Namespace!SuccessIsEverywhere
<1>n. /\ object.gen \in Nat /\ cache.gen \in Nat /\ rec.ucn.gen \in Nat
      /\ object.spec \in Nat /\ rec.ucn.spec \in Nat /\ v4 \in Nat
  BY <1>t, NamespaceFields DEF Namespace!TypeInv
<1>f. Namespace!Fault \/ Namespace!NoFault => events' \in Nat
  BY <1>t DEF Namespace!Fault, Namespace!NoFault, Namespace!TypeInv
<1>1. CASE Namespace!Edit
  <2>1. UNCHANGED <<cache, queued, v2, v3, v4, rec>> /\ Namespace!Live(object) /\ events' \in Nat
    BY <1>1, <1>f DEF Namespace!Edit, Namespace!Live
  <2>2. PICK v \in Versions : object' = [object EXCEPT !.gen = @ + 1, !.spec = v]
    BY <1>1 DEF Namespace!Edit
  <2>3. /\ object' \in Namespace!Objects /\ object'.gen = object.gen + 1
        /\ Namespace!HasFin(object) => Namespace!HasFin(object')
        /\ Namespace!Deleting(object) => Namespace!Deleting(object')
    BY <2>2, <1>t, NamespaceEdited, VersionsAssumption DEF Namespace!TypeInv
  <2>4. object.gen # 0
    BY <2>1, <1>g DEF Namespace!GenInv, Namespace!HasGen
  <2>5. object'.gen # 0 /\ cache.gen <= object.gen /\ v4 <= cache.gen
    BY <1>n, <2>3, <2>4, <1>c DEF Namespace!CacheInv
  <2>6. cache.gen # object'.gen /\ v4 # object'.gen
    BY <1>n, <2>3, <2>5
  <2>7. Namespace!TypeInv'
    BY <2>1, <2>3, <1>t DEF Namespace!TypeInv
  <2>8. Namespace!GenInv'
    BY <2>1, <2>5, <1>g DEF Namespace!GenInv, Namespace!HasGen
  <2>9. Namespace!Agree(cache, object')
    BY <2>6 DEF Namespace!Agree
  <2>10. Namespace!CacheInv'
    BY <1>n, <2>1, <2>3, <2>4, <2>5, <2>9, <1>c DEF Namespace!CacheInv
  <2>11. Namespace!CopyInv'
    BY <2>1, <2>4, <1>o, NamespaceCopyKept
  <2>12. Namespace!DoneInv'
    BY <2>1, <1>d DEF Namespace!DoneInv
  <2>13. ~Namespace!LastIsApplied'
    BY <2>1, <2>6 DEF Namespace!LastIsApplied
  <2>14. ~Namespace!AtRest'
    BY <2>1, <2>6, NamespaceNotAtRest
  <2> QED
    BY <2>7, <2>8, <2>10, <2>11, <2>12, <2>13, <2>14
    DEF Namespace!Inv, Namespace!SuccessIsEverywhere
<1>2. CASE Namespace!Delete
  <2>1. UNCHANGED <<cache, queued, v2, v3, v4, rec, events>>
    BY <1>2 DEF Namespace!Delete
  <2>2. Namespace!Live(object) /\ ~Namespace!Deleting(object)
    BY <1>2 DEF Namespace!Delete, Namespace!Live, Namespace!Deleting
  <2>3. object.gen # 0
    BY <2>2, <1>g DEF Namespace!GenInv, Namespace!HasGen
  <2>4. Namespace!CopyInv'
    BY <2>1, <2>3, <1>o, NamespaceCopyKept
  <2>5. Namespace!DoneInv'
    BY <2>1, <1>d DEF Namespace!DoneInv
  <2>6. CASE object' = [object EXCEPT !.deleting = TRUE]
    <3>1. object' \in Namespace!Objects /\ Namespace!Keeps(object, object')
          /\ object'.state = object.state
      BY <2>6, <1>t, NamespaceMarked DEF Namespace!TypeInv
    <3>2. Namespace!TypeInv'
      BY <2>1, <3>1, <1>t DEF Namespace!TypeInv
    <3>3. Namespace!GenInv' /\ Namespace!CacheInv'
      BY <2>1, <2>3, <3>1, <1>g, <1>c, NamespaceKept
    <3>4. (Namespace!LastIsApplied => Namespace!Everywhere)'
      BY <2>1, <3>1, <1>l, NamespaceAppliedKept DEF Namespace!Keeps
    <3>5. ~Namespace!Deleting(cache) /\ Namespace!Deleting(object')
      BY <2>2, <2>3, <2>6, <1>c, <1>t, NamespaceDeleting DEF Namespace!CacheInv, Namespace!TypeInv
    <3>6. ~Namespace!AtRest'
      BY <2>1, <3>5, NamespaceNotAtRest
    <3> QED
      BY <2>4, <2>5, <3>2, <3>3, <3>4, <3>6 DEF Namespace!Inv, Namespace!SuccessIsEverywhere
  <2>7. CASE object' = Namespace!Gone
    <3>1. object' \in Namespace!Objects /\ object'.gen = 0 /\ object'.state = ""
          /\ ~Namespace!Live(object')
      BY <2>7, NamespaceGoneFields
    <3>2. Namespace!TypeInv'
      BY <2>1, <3>1, <1>t DEF Namespace!TypeInv
    <3>3. Namespace!GenInv' /\ Namespace!CacheInv'
      BY <2>1, <3>1, <1>g DEF Namespace!GenInv, Namespace!HasGen, Namespace!CacheInv
    <3>4. ~Namespace!LastIsApplied' /\ ~Namespace!AtRest'
      BY <3>1, NamespaceNotAtRest DEF Namespace!LastIsApplied
    <3> QED
      BY <2>4, <2>5, <3>2, <3>3, <3>4 DEF Namespace!Inv, Namespace!SuccessIsEverywhere
  <2> QED
    BY <1>2, <2>6, <2>7 DEF Namespace!Delete
<1>3. CASE Namespace!SyncCache
  <2>1. UNCHANGED <<object, v2, v3, v4, rec, events>> /\ cache' = object /\ queued' = TRUE
    BY <1>3 DEF Namespace!SyncCache
  <2>2. Namespace!TypeInv'
    BY <2>1, <1>t DEF Namespace!TypeInv
  <2>3. Namespace!GenInv'
    BY <2>1, <1>g DEF Namespace!GenInv
  <2>4. Namespace!CacheInv'
    BY <1>n, <2>1, <1>c DEF Namespace!CacheInv, Namespace!Agree
  <2>5. Namespace!CopyInv'
    <3>1. CASE object.gen = 0 \/ rec.pc = "idle"
      BY <2>1, <3>1, <1>o DEF Namespace!CopyInv
    <3>2. CASE object.gen # 0 /\ rec.pc # "idle"
      <4>1. rec.ucn.gen # 0 /\ v4 <= rec.ucn.gen /\ rec.ucn.gen <= cache.gen
            /\ cache.gen <= object.gen
        BY <3>2, <1>o, <1>c DEF Namespace!CopyInv, Namespace!CacheInv
      <4>2. Namespace!Agree(rec.ucn, cache) /\ Namespace!Agree(cache, object)
        BY <3>2, <1>o, <1>c DEF Namespace!CopyInv, Namespace!CacheInv
      <4>3. rec.ucn.gen <= object.gen /\ Namespace!Agree(rec.ucn, object)
        BY <1>n, <4>1, <4>2 DEF Namespace!Agree
      <4> QED
        BY <2>1, <4>1, <4>3 DEF Namespace!CopyInv
    <3> QED
      BY <3>1, <3>2
  <2>6. Namespace!DoneInv'
    BY <2>1, <1>d DEF Namespace!DoneInv
  <2>7. (Namespace!LastIsApplied => Namespace!Everywhere)'
    BY <2>1, <1>l, NamespaceAppliedKept
  <2>8. ~Namespace!AtRest'
    BY <2>1, NamespaceNotAtRest
  <2> QED
    BY <2>2, <2>3, <2>4, <2>5, <2>6, <2>7, <2>8 DEF Namespace!Inv, Namespace!SuccessIsEverywhere
<1>4. CASE Namespace!HazelcastStarts \/ Namespace!HazelcastStops
  <2>1. UNCHANGED <<object, cache, v2, v3, v4, rec>> /\ events' \in Nat
    BY <1>4, <1>f, <1>t
    DEF Namespace!HazelcastStarts, Namespace!HazelcastStops, Namespace!kube, Namespace!TypeInv
  <2>2. queued' \in BOOLEAN /\ (queued => queued')
    BY <1>4, <1>t
    DEF Namespace!HazelcastStarts, Namespace!HazelcastStops, Namespace!kube, Namespace!TypeInv
  <2>3. Namespace!TypeInv'
    BY <2>1, <2>2, <1>t DEF Namespace!TypeInv
  <2>4. Namespace!GenInv' /\ Namespace!CacheInv' /\ Namespace!CopyInv' /\ Namespace!DoneInv'
    BY <2>1, <1>g, <1>c, <1>o, <1>d
    DEF Namespace!GenInv, Namespace!CacheInv, Namespace!CopyInv, Namespace!DoneInv
  <2>5. Namespace!AtRest' => Namespace!AtRest
    BY <2>1, <2>2 DEF Namespace!AtRest
  <2>6. Namespace!SuccessIsEverywhere'
    BY <2>1, <2>5, <1>l, <1>r
    DEF Namespace!SuccessIsEverywhere, Namespace!LastIsApplied, Namespace!Everywhere
  <2> QED
    BY <2>3, <2>4, <2>6 DEF Namespace!Inv
<1>5. CASE Namespace!Reconcile
  <2>1. UNCHANGED <<object, cache, v2, v3, v4, events>> /\ queued' = FALSE
    BY <1>5 DEF Namespace!Reconcile
  <2>2. CASE ~Namespace!Live(cache) /\ rec' = Namespace!Idle
    <3>1. rec' \in [pc : Namespace!PCs, ucn : Namespace!Objects] /\ rec'.pc = "idle"
      BY <2>2, NamespaceIdleFields
    <3>2. Namespace!TypeInv'
      BY <2>1, <3>1, <1>t DEF Namespace!TypeInv
    <3>3. Namespace!GenInv' /\ Namespace!CacheInv'
      BY <2>1, <1>g, <1>c DEF Namespace!GenInv, Namespace!CacheInv
    <3>4. Namespace!CopyInv' /\ Namespace!DoneInv'
      BY <3>1 DEF Namespace!CopyInv, Namespace!DoneInv
    <3>5. ~Namespace!AtRest'
      BY <2>1, <2>2, NamespaceNotAtRest
    <3>6. (Namespace!LastIsApplied => Namespace!Everywhere)'
      BY <2>1, <1>l, NamespaceAppliedKept
    <3> QED
      BY <3>2, <3>3, <3>4, <3>5, <3>6 DEF Namespace!Inv, Namespace!SuccessIsEverywhere
  <2>3. CASE Namespace!Live(cache) /\ rec'.ucn = cache
             /\ rec' \in [pc : Namespace!PCs, ucn : Namespace!Objects]
             /\ rec'.pc \in {"final", "finalizer", "tried", "hazelcast"}
             /\ (rec'.pc = "finalizer" => ~Namespace!HasFin(cache))
    <3>1. cache.gen # 0
      BY <2>3, <1>g DEF Namespace!GenInv, Namespace!HasGen
    <3>2. Namespace!TypeInv'
      BY <2>1, <2>3, <1>t DEF Namespace!TypeInv
    <3>3. Namespace!GenInv' /\ Namespace!CacheInv'
      BY <2>1, <1>g, <1>c DEF Namespace!GenInv, Namespace!CacheInv
    <3>4. Namespace!CopyInv'
      BY <1>n, <2>1, <2>3, <3>1, <1>c DEF Namespace!CopyInv, Namespace!CacheInv, Namespace!Agree
    <3>5. Namespace!DoneInv'
      BY <2>3 DEF Namespace!DoneInv
    <3>6. ~Namespace!AtRest'
      BY <2>3, NamespaceNotAtRest
    <3>7. (Namespace!LastIsApplied => Namespace!Everywhere)'
      BY <2>1, <1>l, NamespaceAppliedKept
    <3> QED
      BY <3>2, <3>3, <3>4, <3>5, <3>6, <3>7 DEF Namespace!Inv, Namespace!SuccessIsEverywhere
  <2>4. CASE ~cache.live
    BY <1>5, <2>2, <2>4 DEF Namespace!Reconcile, Namespace!Live
  <2>5. CASE cache.live
    <3>1. PICK pc \in {"final", "finalizer", "tried", "hazelcast"} :
            rec' = [ucn |-> cache, pc |-> pc] /\ (pc = "finalizer" => ~cache.fin)
      BY <1>5, <1>t, <2>5 DEF Namespace!Reconcile, Namespace!TypeInv, Namespace!Objects
    <3>2. rec'.ucn = cache /\ rec'.pc = pc
          /\ rec' \in [pc : Namespace!PCs, ucn : Namespace!Objects]
      BY <3>1, <1>t DEF Namespace!PCs, Namespace!TypeInv
    <3> QED
      BY <2>3, <2>5, <3>1, <3>2 DEF Namespace!Live, Namespace!HasFin
  <2> QED
    BY <2>4, <2>5
<1>6. CASE Namespace!UpdateObject
  <2>1. UNCHANGED <<cache, v2, v3, v4>> /\ rec.pc # "idle" /\ events' \in Nat
    BY <1>6, <1>f DEF Namespace!UpdateObject
  <2>2. queued' \in BOOLEAN
    BY <1>6, <1>t DEF Namespace!UpdateObject, Namespace!TypeInv
  <2>3. CASE UNCHANGED object /\ (\/ rec' = Namespace!Idle /\ queued' = TRUE
                                  \/ rec' = Namespace!To("Failure"))
    BY <2>1, <2>2, <2>3, NamespaceGoesOn
  <2>4. CASE /\ rec.pc = "finalizer" /\ rec.ucn = object
             /\ rec' = Namespace!Idle /\ object' = [object EXCEPT !.fin = TRUE]
    <3>1. object' \in Namespace!Objects /\ Namespace!Keeps(object, object')
          /\ object'.state = object.state
      BY <2>4, <1>t, NamespaceMarked DEF Namespace!TypeInv
    <3>2. rec' \in [pc : Namespace!PCs, ucn : Namespace!Objects] /\ rec'.pc = "idle"
      BY <2>4, NamespaceIdleFields
    <3>3. object.gen # 0
      BY <2>4, <1>o DEF Namespace!CopyInv
    <3>4. Namespace!TypeInv'
      BY <2>1, <2>2, <3>1, <3>2, <1>t DEF Namespace!TypeInv
    <3>5. Namespace!GenInv' /\ Namespace!CacheInv'
      BY <2>1, <3>1, <3>3, <1>g, <1>c, NamespaceKept
    <3>6. Namespace!CopyInv' /\ Namespace!DoneInv'
      BY <3>2 DEF Namespace!CopyInv, Namespace!DoneInv
    <3>7. (Namespace!LastIsApplied => Namespace!Everywhere)'
      BY <2>1, <3>1, <1>l, NamespaceAppliedKept DEF Namespace!Keeps
    <3>8. ~Namespace!HasFin(cache)
      BY <2>4, <3>3, <1>d, <1>c DEF Namespace!DoneInv, Namespace!CacheInv
    <3>9. Namespace!HasFin(object')
      BY <2>4, <1>t, NamespaceDeleting DEF Namespace!TypeInv
    <3>10. ~Namespace!AtRest'
      BY <2>1, <3>8, <3>9, NamespaceNotAtRest
    <3> QED
      BY <3>4, <3>5, <3>6, <3>7, <3>10 DEF Namespace!Inv, Namespace!SuccessIsEverywhere
  <2>5. CASE rec' = Namespace!Idle /\ object' = Namespace!Gone
    <3>1. object' \in Namespace!Objects /\ object'.gen = 0 /\ object'.state = ""
          /\ ~Namespace!Live(object')
      BY <2>5, NamespaceGoneFields
    <3>2. rec' \in [pc : Namespace!PCs, ucn : Namespace!Objects] /\ rec'.pc = "idle"
      BY <2>5, NamespaceIdleFields
    <3>3. Namespace!TypeInv'
      BY <2>1, <2>2, <3>1, <3>2, <1>t DEF Namespace!TypeInv
    <3>4. Namespace!GenInv' /\ Namespace!CacheInv'
      BY <2>1, <3>1, <1>g DEF Namespace!GenInv, Namespace!HasGen, Namespace!CacheInv
    <3>5. Namespace!CopyInv' /\ Namespace!DoneInv'
      BY <3>2 DEF Namespace!CopyInv, Namespace!DoneInv
    <3>6. ~Namespace!LastIsApplied' /\ ~Namespace!AtRest'
      BY <3>1, NamespaceNotAtRest DEF Namespace!LastIsApplied
    <3> QED
      BY <3>3, <3>4, <3>5, <3>6 DEF Namespace!Inv, Namespace!SuccessIsEverywhere
  <2>6. CASE rec.ucn = object /\ rec' = [pc |-> "Pending", ucn |-> object']
             /\ object' = [object EXCEPT !.tried = object.spec]
    <3>1. object' \in Namespace!Objects /\ Namespace!Keeps(object, object')
          /\ object'.state = object.state
      BY <2>6, <1>t, NamespaceMarked DEF Namespace!TypeInv
    <3>2. /\ rec' \in [pc : Namespace!PCs, ucn : Namespace!Objects]
          /\ rec'.pc = "Pending" /\ rec'.ucn = object'
      BY <2>6, <3>1 DEF Namespace!PCs
    <3>3. object.gen # 0
      BY <2>1, <2>6, <1>o DEF Namespace!CopyInv
    <3>4. Namespace!TypeInv'
      BY <2>1, <2>2, <3>1, <3>2, <1>t DEF Namespace!TypeInv
    <3>5. Namespace!GenInv' /\ Namespace!CacheInv'
      BY <2>1, <3>1, <3>3, <1>g, <1>c, NamespaceKept
    <3>6. Namespace!CopyInv'
      BY <2>1, <2>6, <3>1, <3>2, <3>3, <1>o, NamespaceCopyKept DEF Namespace!Keeps
    <3>7. Namespace!DoneInv'
      BY <3>2 DEF Namespace!DoneInv
    <3>8. (Namespace!LastIsApplied => Namespace!Everywhere)'
      BY <2>1, <3>1, <1>l, NamespaceAppliedKept DEF Namespace!Keeps
    <3>9. ~Namespace!AtRest'
      BY <3>2, NamespaceNotAtRest
    <3> QED
      BY <3>4, <3>5, <3>6, <3>7, <3>8, <3>9 DEF Namespace!Inv, Namespace!SuccessIsEverywhere
  <2>8. \/ /\ rec.pc = "finalizer" /\ Namespace!Fresh
           /\ rec' = Namespace!Idle /\ object' = [object EXCEPT !.fin = TRUE]
        \/ rec' = Namespace!Idle /\ object' = Namespace!Gone
        \/ /\ Namespace!Fresh /\ rec' = [pc |-> "Pending", ucn |-> object']
           /\ object' = [object EXCEPT !.tried = object.spec]
        \/ UNCHANGED object /\ (\/ rec' = Namespace!Idle /\ queued' = TRUE
                                \/ rec' = Namespace!To("Failure"))
    BY <1>6 DEF Namespace!UpdateObject
  <2> QED
    BY <2>3, <2>4, <2>5, <2>6, <2>8 DEF Namespace!Fresh
<1>7. CASE Namespace!CheckHazelcast
  <2>1. UNCHANGED <<object, cache, queued, v2, v3, v4>> /\ rec.pc # "idle" /\ events' \in Nat
    BY <1>7, <1>f DEF Namespace!CheckHazelcast, Namespace!kube
  <2>2. queued' \in BOOLEAN
    BY <2>1, <1>t DEF Namespace!TypeInv
  <2> QED
    BY <1>7, <2>1, <2>2, NamespaceGoesOn DEF Namespace!CheckHazelcast
<1>8. CASE Namespace!DownloadBundle
  <2>1. UNCHANGED <<object, cache, queued, v3, v4>> /\ rec.pc = "download" /\ events' \in Nat
    BY <1>8, <1>f DEF Namespace!DownloadBundle, Namespace!kube
  <2>2. PICK ms \in SUBSET Members :
          /\ v2' = [m \in Members |-> IF m \in ms THEN rec.ucn.spec ELSE v2[m]]
          /\ rec' = Namespace!To(IF ms = Members THEN "apply" ELSE "Failure")
    BY <1>8 DEF Namespace!DownloadBundle, Namespace!Downloaded
  <2>3. /\ v2' \in [Members -> Nat]
        /\ \A m \in Members : v2[m] = rec.ucn.spec => v2'[m] = rec.ucn.spec
        /\ ms = Members => \A m \in Members : v2'[m] = rec.ucn.spec
    BY <1>n, <1>t, <2>2 DEF Namespace!TypeInv
  <2>4. /\ rec' \in [pc : Namespace!PCs, ucn : Namespace!Objects] /\ rec'.ucn = rec.ucn
        /\ rec'.pc = IF ms = Members THEN "apply" ELSE "Failure"
    BY <2>2, <1>t, NamespaceCopied DEF Namespace!To, Namespace!PCs, Namespace!TypeInv
  <2>5. Namespace!LastIsApplied => rec.ucn.spec = object.spec
    BY <2>1, <1>t, <1>g, <1>c, <1>o, NamespaceSameSpec
  <2>6. Namespace!TypeInv'
    BY <2>1, <2>3, <2>4, <1>t DEF Namespace!TypeInv
  <2>7. Namespace!GenInv' /\ Namespace!CacheInv'
    BY <2>1, <1>g, <1>c DEF Namespace!GenInv, Namespace!CacheInv
  <2>8. Namespace!CopyInv'
    BY <2>1, <2>4, <1>o, NamespaceCopyKept
  <2>9. Namespace!DoneInv'
    BY <2>3, <2>4 DEF Namespace!DoneInv
  <2>10. (Namespace!LastIsApplied => Namespace!Everywhere)'
    BY <2>1, <2>3, <2>5, <1>l DEF Namespace!LastIsApplied, Namespace!Everywhere
  <2>11. ~Namespace!AtRest'
    BY <2>4, NamespaceNotAtRest
  <2> QED
    BY <2>6, <2>7, <2>8, <2>9, <2>10, <2>11 DEF Namespace!Inv, Namespace!SuccessIsEverywhere
<1>9. CASE Namespace!ApplyConfig
  <2>1. UNCHANGED <<object, cache, queued, v2, v4>> /\ rec.pc = "apply" /\ events' \in Nat
    BY <1>9, <1>f DEF Namespace!ApplyConfig, Namespace!kube
  <2>2. PICK ms \in SUBSET Members :
          /\ v3' = [m \in Members |-> IF m \in ms THEN v2[m] ELSE v3[m]]
          /\ rec' = Namespace!To(IF ms = Members THEN "annotate" ELSE "Failure")
    BY <1>9 DEF Namespace!ApplyConfig
  <2>3. \A m \in Members : v2[m] = rec.ucn.spec
    BY <2>1, <1>d DEF Namespace!DoneInv
  <2>4. /\ v3' \in [Members -> Nat]
        /\ \A m \in Members : v3[m] = rec.ucn.spec => v3'[m] = rec.ucn.spec
        /\ ms = Members => \A m \in Members : v3'[m] = rec.ucn.spec
    BY <1>n, <1>t, <2>2, <2>3 DEF Namespace!TypeInv
  <2>5. /\ rec' \in [pc : Namespace!PCs, ucn : Namespace!Objects] /\ rec'.ucn = rec.ucn
        /\ rec'.pc = IF ms = Members THEN "annotate" ELSE "Failure"
    BY <2>2, <1>t, NamespaceCopied DEF Namespace!To, Namespace!PCs, Namespace!TypeInv
  <2>6. Namespace!LastIsApplied => rec.ucn.spec = object.spec
    BY <2>1, <1>t, <1>g, <1>c, <1>o, NamespaceSameSpec
  <2>7. Namespace!TypeInv'
    BY <2>1, <2>4, <2>5, <1>t DEF Namespace!TypeInv
  <2>8. Namespace!GenInv' /\ Namespace!CacheInv'
    BY <2>1, <1>g, <1>c DEF Namespace!GenInv, Namespace!CacheInv
  <2>9. Namespace!CopyInv'
    BY <2>1, <2>5, <1>o, NamespaceCopyKept
  <2>10. Namespace!DoneInv'
    BY <2>1, <2>3, <2>4, <2>5 DEF Namespace!DoneInv
  <2>11. (Namespace!LastIsApplied => Namespace!Everywhere)'
    BY <2>1, <2>4, <2>6, <1>l DEF Namespace!LastIsApplied, Namespace!Everywhere
  <2>12. ~Namespace!AtRest'
    BY <2>5, NamespaceNotAtRest
  <2> QED
    BY <2>7, <2>8, <2>9, <2>10, <2>11, <2>12 DEF Namespace!Inv, Namespace!SuccessIsEverywhere
<1>10. CASE Namespace!Annotate
  <2>1. /\ UNCHANGED <<cache, queued, v2, v3>> /\ rec.pc = "annotate" /\ events' \in Nat
        /\ queued' \in BOOLEAN
    BY <1>10, <1>f, <1>t DEF Namespace!Annotate, Namespace!TypeInv
  <2>2. CASE rec.ucn = object /\ object' = [object EXCEPT !.ann = object.spec]
             /\ v4' = object.gen /\ rec' = [pc |-> "Success", ucn |-> object']
    <3>1. object' \in Namespace!Objects /\ Namespace!Keeps(object, object')
          /\ object'.ann = object.spec /\ object'.state = object.state
      BY <2>2, <1>t, NamespaceAnnotated DEF Namespace!TypeInv
    <3>2. /\ rec' \in [pc : Namespace!PCs, ucn : Namespace!Objects]
          /\ rec'.pc = "Success" /\ rec'.ucn = object'
      BY <2>2, <3>1 DEF Namespace!PCs
    <3>3. object'.gen = object.gen /\ object'.spec = object.spec
      BY <3>1 DEF Namespace!Keeps
    <3>4. object.gen # 0 /\ object.gen <= cache.gen
      BY <2>1, <2>2, <1>o DEF Namespace!CopyInv
    <3>5. cache.gen = object.gen /\ cache.spec = object.spec
      BY <1>n, <3>4, <1>c DEF Namespace!CacheInv, Namespace!Agree
    <3>6. \A m \in Members : v2'[m] = object'.spec /\ v3'[m] = object'.spec
      BY <2>1, <2>2, <3>3, <1>d DEF Namespace!DoneInv
    <3>7. Namespace!TypeInv'
      BY <1>n, <2>1, <2>2, <3>1, <3>2, <1>t DEF Namespace!TypeInv
    <3>8. Namespace!GenInv'
      BY <2>1, <3>1, <3>4, <1>g DEF Namespace!GenInv, Namespace!HasGen, Namespace!Keeps
    <3>9. Namespace!CacheInv'
      <4>1. (Namespace!HasFin(cache) => Namespace!HasFin(object'))
            /\ (Namespace!Deleting(cache) => Namespace!Deleting(object'))
        BY <3>1, <3>4, <1>c DEF Namespace!CacheInv, Namespace!Keeps
      <4>2. v4' <= cache'.gen /\ cache'.gen <= object'.gen /\ Namespace!Agree(cache', object')
        BY <1>n, <2>1, <2>2, <3>3, <3>5 DEF Namespace!Agree
      <4> QED
        BY <2>1, <4>1, <4>2 DEF Namespace!CacheInv
    <3>10. Namespace!CopyInv'
      BY <1>n, <2>1, <2>2, <3>2, <3>3, <3>4, <3>5 DEF Namespace!CopyInv, Namespace!Agree
    <3>11. Namespace!DoneInv'
      BY <3>1, <3>2, <3>3, <3>6 DEF Namespace!DoneInv
    <3>12. (Namespace!LastIsApplied => Namespace!Everywhere)'
      BY <3>6 DEF Namespace!Everywhere
    <3>13. ~Namespace!AtRest'
      BY <3>2, NamespaceNotAtRest
    <3> QED
      BY <3>7, <3>8, <3>9, <3>10, <3>11, <3>12, <3>13
      DEF Namespace!Inv, Namespace!SuccessIsEverywhere
  <2>3. CASE UNCHANGED <<object, v4>> /\ rec' = Namespace!To("Failure")
    BY <2>1, <2>3, NamespaceGoesOn
  <2> QED
    BY <1>10, <2>2, <2>3 DEF Namespace!Annotate, Namespace!Save
<1>11. CASE Namespace!UpdateStatus
  <2>1. /\ UNCHANGED <<cache, v2, v3, v4>> /\ rec' = Namespace!Idle /\ events' \in Nat
        /\ rec.pc \in {"Pending", "Failure", "Success"}
    BY <1>11, <1>f DEF Namespace!UpdateStatus
  <2>2. queued' \in BOOLEAN
    BY <1>11 DEF Namespace!UpdateStatus
  <2>3. rec' \in [pc : Namespace!PCs, ucn : Namespace!Objects] /\ rec'.pc = "idle"
    BY <2>1, NamespaceIdleFields
  <2>4. CASE /\ rec.ucn = object /\ object' = [object EXCEPT !.state = rec.pc]
             /\ rec.pc # "Success" => queued' = TRUE
    <3>1. object' \in Namespace!Objects /\ Namespace!Keeps(object, object')
          /\ object'.ann = object.ann /\ object'.state = rec.pc
      <4>1. object \in Namespace!Objects
        BY <1>t DEF Namespace!TypeInv
      <4>2. PICK s \in {"Pending", "Failure", "Success"} : s = rec.pc
        BY <2>1
      <4>3. object' = [object EXCEPT !.state = s]
        BY <2>4, <4>2
      <4> QED
        BY <4>1, <4>2, <4>3, NamespaceReported
    <3>2. object'.spec = object.spec
      BY <3>1 DEF Namespace!Keeps
    <3>3. object.gen # 0
      BY <2>1, <2>4, <1>o DEF Namespace!CopyInv
    <3>4. Namespace!TypeInv'
      BY <2>1, <2>2, <2>3, <3>1, <1>t DEF Namespace!TypeInv
    <3>5. Namespace!GenInv' /\ Namespace!CacheInv'
      BY <2>1, <3>1, <3>3, <1>g, <1>c, NamespaceKept
    <3>6. Namespace!CopyInv' /\ Namespace!DoneInv'
      BY <2>3 DEF Namespace!CopyInv, Namespace!DoneInv
    <3>7. CASE rec.pc = "Success"
      <4>1. Namespace!Everywhere' /\ object'.ann = object'.spec
        BY <2>1, <2>4, <3>1, <3>2, <3>7, <1>d DEF Namespace!DoneInv, Namespace!Everywhere
      <4> QED
        BY <3>1, <3>4, <3>5, <3>6, <3>7, <4>1 DEF Namespace!Inv, Namespace!SuccessIsEverywhere
    <3>8. CASE rec.pc # "Success"
      <4>1. ~Namespace!LastIsApplied'
        BY <3>1, <3>8 DEF Namespace!LastIsApplied
      <4>2. ~Namespace!AtRest'
        BY <2>4, <3>8, NamespaceNotAtRest
      <4> QED
        BY <3>4, <3>5, <3>6, <4>1, <4>2 DEF Namespace!Inv, Namespace!SuccessIsEverywhere
    <3> QED
      BY <3>7, <3>8
  <2>5. CASE UNCHANGED object /\ queued' = TRUE
    BY <2>1, <2>2, <2>5, NamespaceGoesOn
  <2>6. rec.pc # "Success" => queued' = TRUE
    BY <1>11 DEF Namespace!UpdateStatus, Namespace!TriedAgain
  <2>7. (~Namespace!Fresh \/ events' # events) => queued' = TRUE
    BY <1>11 DEF Namespace!UpdateStatus, Namespace!TriedAgain
  <2>8. Namespace!Fault => events' # events
    BY <1>t DEF Namespace!Fault, Namespace!TypeInv
  <2>9. \/ Namespace!Fresh /\ object' = [object EXCEPT !.state = rec.pc]
        \/ (~Namespace!Fresh \/ Namespace!Fault) /\ UNCHANGED object
    BY <1>11 DEF Namespace!UpdateStatus
  <2> QED
    BY <2>4, <2>5, <2>6, <2>7, <2>8, <2>9 DEF Namespace!Fresh
<1>12. CASE UNCHANGED Namespace!vars
  <2>1. UNCHANGED <<object, cache, queued, v2, v3, v4, rec, events>>
    BY <1>12 DEF Namespace!vars, Namespace!kube
  <2>2. Namespace!TypeInv' /\ Namespace!GenInv' /\ Namespace!CacheInv'
    BY <2>1, <1>t, <1>g, <1>c DEF Namespace!TypeInv, Namespace!GenInv, Namespace!CacheInv
  <2>3. Namespace!CopyInv' /\ Namespace!DoneInv'
    BY <2>1, <1>o, <1>d DEF Namespace!CopyInv, Namespace!DoneInv
  <2>4. Namespace!SuccessIsEverywhere'
    BY <2>1, <1>l, <1>r
    DEF Namespace!SuccessIsEverywhere, Namespace!LastIsApplied, Namespace!AtRest,
        Namespace!Everywhere
  <2> QED
    BY <2>2, <2>3, <2>4 DEF Namespace!Inv
<1> QED
  BY <1>1, <1>2, <1>3, <1>4, <1>5, <1>6, <1>7, <1>8, <1>9, <1>10, <1>11, <1>12
     DEF Namespace!Next, Namespace!Worker

\* A namespace that is Success since its last edit was annotated as applied is on
\* every member in the version of its spec, and was added there after it was; and
\* when nothing is queued, on the way or being handled, it is Success and there
\* (downloadBundle, applyConfig, updateLastSuccessfulConfiguration).
THEOREM Everywhere == CodeSpec => []SuccessIsEverywhere
<1> DEFINE I == which = "namespace" => Namespace!Inv
<1>1. CodeInit => I
  BY NamespaceInitInv DEF CodeInit, SnapshotInit, NamespaceInit
<1>2. I /\ [CodeNext]_vars => I'
  <2> SUFFICES ASSUME I, [CodeNext]_vars, which' = "namespace" PROVE Namespace!Inv'
    OBVIOUS
  <2>1. which = "namespace"
    BY DEF CodeNext, vars, SnapshotStep, NamespaceStep
  <2>2. CASE Namespace!Next
    BY <2>1, <2>2, NamespaceNextInv
  <2>3. CASE UNCHANGED Namespace!vars
    BY <2>1, <2>3, NamespaceNextInv
  <2>4. Namespace!Next \/ UNCHANGED Namespace!vars
    BY <2>1 DEF CodeNext, vars, slots, Namespace!vars, Namespace!kube,
                SnapshotStep, NamespaceStep
  <2> QED
    BY <2>2, <2>3, <2>4
<1>3. I => SuccessIsEverywhere
  BY DEF SuccessIsEverywhere, Namespace!SuccessIsEverywhere, Namespace!Inv
<1> QED
  BY <1>1, <1>2, <1>3, PTL DEF CodeSpec

============================================================================
