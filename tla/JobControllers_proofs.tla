-------------------- MODULE JobControllers_proofs --------------------
(***************************************************************************)
(* What holds of the controllers of JobControllers, for every value of     *)
(* the constants.  Every part is about one of them: its inductive          *)
(* invariant is defined in its own module, in terms of its own variables,  *)
(* and here its step lemmas are in those of the composition.               *)
(***************************************************************************)
EXTENDS JobControllers, FiniteSetTheorems, WellFoundedInduction, TLAPS

----------------------------------------------------------------------------
(* The cron has no entry but the one the controller knows, and none once   *)
(* the object is gone, for any number of backups, edits, failed calls and  *)
(* restarts.                                                               *)
(*                                                                         *)
(* That replacing, suspending and deleting stop every earlier schedule     *)
(* follows from the first part itself.  The second needs that no           *)
(* reconciliation schedules with a copy of an object that is gone: who     *)
(* schedules has read the finalizer, and the finalizer is only taken away  *)
(* by the same worker, after it has read the deletion.                     *)

(* What the writes make of an object.                                      *)

LEMMA CronFirstSpec == [suspend |-> FALSE, template |-> 0] \in Cron!Specs
BY DEF Cron!Specs

LEMMA CronNewFields == Cron!New \in Cron!Objects /\ Cron!Gone \in Cron!Objects
<1>1. Cron!New \in Cron!Objects
  BY CronFirstSpec DEF Cron!New, Cron!Objects
<1> QED
  BY <1>1 DEF Cron!Gone, Cron!Objects

LEMMA CronGoneEnded ==
    Cron!Ended(Cron!Gone) /\ ~Cron!Marked(Cron!Gone) /\ ~Cron!Usable(Cron!Gone)
BY DEF Cron!Gone, Cron!New, Cron!Ended, Cron!Marked, Cron!Usable

LEMMA CronIdleFields ==
    Cron!Idle \in [pc : Cron!PCs, chb : Cron!Objects] /\ Cron!Idle.pc = "idle"
BY CronNewFields DEF Cron!Idle, Cron!PCs

LEMMA CronMarks ==
    ASSUME NEW o \in Cron!Objects
    PROVE  (Cron!Marked(o) => Cron!Ended(o)) /\ (Cron!Usable(o) => Cron!Held(o))
           /\ (Cron!Usable(o) => ~Cron!Ended(o))
BY DEF Cron!Objects, Cron!Marked, Cron!Ended, Cron!Usable, Cron!Held

LEMMA CronEdited ==
    ASSUME NEW o \in Cron!Objects, NEW s \in Cron!Specs
    PROVE  LET e == [o EXCEPT !.spec = s] IN e \in Cron!Objects /\ Cron!Keeps(o, e)
BY DEF Cron!Objects, Cron!Keeps, Cron!Ended, Cron!Held

LEMMA CronAnnotated ==
    ASSUME NEW o \in Cron!Objects
    PROVE  LET e == [o EXCEPT !.ann = o.spec] IN e \in Cron!Objects /\ Cron!Keeps(o, e)
BY DEF Cron!Objects, Cron!Keeps, Cron!Ended, Cron!Held

LEMMA CronDeleting ==
    ASSUME NEW o \in Cron!Objects
    PROVE  LET e == [o EXCEPT !.deleting = TRUE] IN e \in Cron!Objects /\ Cron!Keeps(o, e)
BY DEF Cron!Objects, Cron!Keeps, Cron!Ended, Cron!Held

LEMMA CronFinalizer ==
    ASSUME NEW o \in Cron!Objects
    PROVE  LET e == [o EXCEPT !.fin = TRUE]
           IN  e \in Cron!Objects /\ Cron!Keeps(o, e) /\ (o.live => Cron!Held(e))
BY DEF Cron!Objects, Cron!Keeps, Cron!Ended, Cron!Held

LEMMA CronMoved ==
    ASSUME NEW pc \in Cron!PCs, rec \in [pc : Cron!PCs, chb : Cron!Objects]
    PROVE  Cron!To(pc) \in [pc : Cron!PCs, chb : Cron!Objects] /\ Cron!To(pc).pc = pc
BY DEF Cron!To

LEMMA CronCleaningFields ==
    ASSUME NEW o \in Cron!Objects
    PROVE  Cron!Cleaning(o) \in [pc : Cron!PCs, chb : Cron!Objects]
           /\ Cron!Cleaning(o).pc = "cleanup"
<1>1. o.spec \in Cron!Specs /\ o.ann \in Cron!Specs \cup {Cron!None}
  BY DEF Cron!Objects
<1>2. [Cron!Gone EXCEPT !.spec = o.spec, !.ann = o.ann] \in Cron!Objects
  BY <1>1, CronNewFields DEF Cron!Objects
<1> QED
  BY <1>2 DEF Cron!Cleaning, Cron!PCs

LEMMA CronTypes ==
    ASSUME Cron!Inv
    PROVE  /\ object \in Cron!Objects /\ cache \in Cron!Objects
           /\ rec \in [pc : Cron!PCs, chb : Cron!Objects]
           /\ rec.chb \in Cron!Objects /\ rec.pc \in Cron!PCs
BY DEF Cron!Inv, Cron!TypeInv

----------------------------------------------------------------------------
\* A step that leaves the cron alone and does not end the object.
LEMMA CronAside ==
    ASSUME Cron!Inv, object' \in Cron!Objects, Cron!Keeps(object, object'),
           cache' \in {cache, object},
           rec' \in [pc : Cron!PCs, chb : Cron!Objects],
           rec'.pc \in {"final", "left"} =>
               rec'.pc = rec.pc \/ (rec'.pc = "final" /\ Cron!Marked(cache)),
           rec'.pc \in {"cleanup", "schedule", "annotate"} =>
               rec.pc \in {"cleanup", "schedule", "annotate"} \/ Cron!Held(object'),
           UNCHANGED <<v3, v4>>
    PROVE  Cron!Inv'
<1>1. Cron!TypeInv'
  BY DEF Cron!Inv, Cron!TypeInv
<1>2. /\ Cron!Marked(object) => Cron!Ended(object)
      /\ Cron!Usable(object) => Cron!Held(object)
      /\ Cron!Marked(cache) => Cron!Ended(cache)
  BY CronTypes, CronMarks
<1>3. Cron!EndInv'
  BY <1>2 DEF Cron!Inv, Cron!EndInv, Cron!Keeps
<1>4. Cron!HeldInv'
  BY <1>2 DEF Cron!Inv, Cron!HeldInv, Cron!Keeps
<1>5. Cron!EntryInv'
  BY DEF Cron!Inv, Cron!EntryInv
<1> QED
  BY <1>1, <1>3, <1>4, <1>5 DEF Cron!Inv

\* A step of the worker after which the object is gone.
LEMMA CronGoneStep ==
    ASSUME Cron!Inv, v3 = {}, object' = Cron!Gone, cache' = cache, ~Cron!Usable(cache),
           rec' = rec \/ rec' = Cron!Idle, rec'.pc \notin {"cleanup", "schedule", "annotate"},
           UNCHANGED <<v3, v4>>
    PROVE  Cron!Inv'
<1>1. Cron!TypeInv' /\ Cron!EntryInv'
  BY CronNewFields, CronIdleFields, CronTypes DEF Cron!Inv, Cron!TypeInv, Cron!EntryInv
<1>2. Cron!EndInv' /\ Cron!HeldInv'
  BY CronGoneEnded, CronIdleFields DEF Cron!Inv, Cron!EndInv, Cron!HeldInv
<1> QED
  BY <1>1, <1>2 DEF Cron!Inv
----------------------------------------------------------------------------
(* The steps.                                                              *)

LEMMA CronUnchanged == \A o : Cron!Keeps(o, o)
BY DEF Cron!Keeps

LEMMA CronEditStep == Cron!Inv /\ Cron!Edit => Cron!Inv'
<1> SUFFICES ASSUME Cron!Inv, Cron!Edit PROVE Cron!Inv'
  OBVIOUS
<1>1. UNCHANGED <<cache, v3, v4, rec>>
  BY DEF Cron!Edit
<1>2. PICK s \in Cron!Specs : object' = [object EXCEPT !.spec = s]
  BY DEF Cron!Edit
<1> QED
  BY <1>1, <1>2, CronTypes, CronEdited, CronAside

LEMMA CronDeleteStep == Cron!Inv /\ Cron!Delete => Cron!Inv'
<1> SUFFICES ASSUME Cron!Inv, Cron!Delete PROVE Cron!Inv'
  OBVIOUS
<1>1. UNCHANGED <<cache, v3, v4, rec>>
  BY DEF Cron!Delete
<1>2. CASE object.fin
  <2>1. object' = [object EXCEPT !.deleting = TRUE]
    BY <1>2 DEF Cron!Delete
  <2> QED
    BY <1>1, <2>1, CronTypes, CronDeleting, CronAside
<1>3. CASE ~object.fin
  <2>1. object' = Cron!Gone
    BY <1>3 DEF Cron!Delete
  <2>2. ~Cron!Held(object)
    BY <1>3 DEF Cron!Held
  <2>3. v3 = {} /\ ~Cron!Usable(cache) /\ rec.pc \notin {"cleanup", "schedule", "annotate"}
    BY <2>2 DEF Cron!Inv, Cron!HeldInv
  <2> QED
    BY <1>1, <2>1, <2>3, CronGoneStep
<1> QED
  BY <1>2, <1>3

LEMMA CronOthersStep ==
    Cron!Inv /\ (Cron!SyncCache \/ Cron!SyncBackups \/ Cron!CreateHotBackup \/
                 Cron!UserDeletes \/ Cron!HotBackups) => Cron!Inv'
<1> SUFFICES ASSUME Cron!Inv,
                    Cron!SyncCache \/ Cron!SyncBackups \/ Cron!CreateHotBackup \/
                        Cron!UserDeletes \/ Cron!HotBackups
             PROVE  Cron!Inv'
  OBVIOUS
<1>1. UNCHANGED <<object, v3, v4, rec>> /\ cache' \in {cache, object}
  BY DEF Cron!SyncCache, Cron!SyncBackups, Cron!CreateHotBackup, Cron!UserDeletes,
         Cron!HotBackups, Cron!BackupEnds, Cron!GarbageCollect, Cron!DeleteBackup
<1> QED
  BY <1>1, CronTypes, CronUnchanged, CronAside

LEMMA CronRestartStep == Cron!Inv /\ Cron!Restart => Cron!Inv'
<1> SUFFICES ASSUME Cron!Inv, Cron!Restart PROVE Cron!Inv'
  OBVIOUS
<1>1. object' = object /\ cache' = object /\ rec' = Cron!Idle /\ v3' = {}
  BY DEF Cron!Restart
<1>2. Cron!TypeInv' /\ Cron!EntryInv'
  BY <1>1, CronTypes, CronIdleFields DEF Cron!TypeInv, Cron!EntryInv
<1>3. Cron!EndInv' /\ Cron!HeldInv'
  BY <1>1, CronTypes, CronIdleFields, CronMarks DEF Cron!EndInv, Cron!HeldInv
<1> QED
  BY <1>2, <1>3 DEF Cron!Inv

LEMMA CronReconcileStep == Cron!Inv /\ Cron!Reconcile => Cron!Inv'
<1> SUFFICES ASSUME Cron!Inv, Cron!Reconcile PROVE Cron!Inv'
  OBVIOUS
<1>1. UNCHANGED <<object, cache, v3, v4>> /\ rec.pc = "idle"
  BY DEF Cron!Reconcile
<1>2. cache.live \in BOOLEAN /\ cache.deleting \in BOOLEAN /\ cache.fin \in BOOLEAN
  BY CronTypes DEF Cron!Objects
<1>3. CASE rec' = Cron!Idle
  BY <1>1, <1>3, CronTypes, CronIdleFields, CronUnchanged, CronAside
<1>4. CASE cache.live /\ cache.deleting /\ rec' = [pc |-> "final", chb |-> cache]
  <2>1. Cron!Marked(cache)
    BY <1>4 DEF Cron!Marked
  <2>2. rec' \in [pc : Cron!PCs, chb : Cron!Objects] /\ rec'.pc = "final"
    BY <1>4, CronTypes DEF Cron!PCs
  <2> QED
    BY <1>1, <2>1, <2>2, CronTypes, CronUnchanged, CronAside
<1>5. CASE rec' = [pc |-> "finalizer", chb |-> cache]
  <2>1. rec' \in [pc : Cron!PCs, chb : Cron!Objects] /\ rec'.pc = "finalizer"
    BY <1>5, CronTypes DEF Cron!PCs
  <2> QED
    BY <1>1, <2>1, CronTypes, CronUnchanged, CronAside
<1>6. CASE cache.live /\ ~cache.deleting /\ cache.fin /\ rec' = Cron!Cleaning(cache)
  <2>1. Cron!Held(object)
    BY <1>6 DEF Cron!Inv, Cron!HeldInv, Cron!Usable
  <2>2. rec' \in [pc : Cron!PCs, chb : Cron!Objects] /\ rec'.pc = "cleanup"
    BY <1>6, CronTypes, CronCleaningFields
  <2> QED
    BY <1>1, <2>1, <2>2, CronTypes, CronUnchanged, CronAside
<1> QED
  BY <1>2, <1>3, <1>4, <1>5, <1>6 DEF Cron!Reconcile

\* The copy has the finalizer that the write adds to the object; the object
\* lives, since the worker has read it and it did not change.
LEMMA CronAddFinalizerStep == Cron!Inv /\ Cron!LiveCopy /\ Cron!AddFinalizer => Cron!Inv'
<1> SUFFICES ASSUME Cron!Inv, Cron!LiveCopy, Cron!AddFinalizer PROVE Cron!Inv'
  OBVIOUS
<1>1. UNCHANGED <<cache, v3, v4>> /\ rec.pc = "finalizer"
  BY DEF Cron!AddFinalizer
<1>2. CASE rec' = Cron!Idle /\ object' = object
  BY <1>1, <1>2, CronTypes, CronIdleFields, CronUnchanged, CronAside
<1>3. CASE rec.chb = object /\ object' = [object EXCEPT !.fin = TRUE]
           /\ rec' = Cron!Cleaning(object')
  <2>1. object.live
    BY <1>1, <1>3 DEF Cron!LiveCopy
  <2>2. object' \in Cron!Objects /\ Cron!Keeps(object, object') /\ Cron!Held(object')
    BY <1>3, <2>1, CronTypes, CronFinalizer
  <2>3. rec' \in [pc : Cron!PCs, chb : Cron!Objects] /\ rec'.pc = "cleanup"
    BY <1>3, <2>2, CronCleaningFields
  <2> QED
    BY <1>1, <2>2, <2>3, CronAside
<1> QED
  BY <1>2, <1>3 DEF Cron!AddFinalizer

LEMMA CronCleanupStep == Cron!Inv /\ Cron!Cleanup => Cron!Inv'
<1> SUFFICES ASSUME Cron!Inv, Cron!Cleanup PROVE Cron!Inv'
  OBVIOUS
<1>1. UNCHANGED <<object, cache, v3, v4>> /\ rec.pc = "cleanup"
  BY DEF Cron!Cleanup
<1>2. CASE rec' = Cron!Idle
  BY <1>1, <1>2, CronTypes, CronIdleFields, CronUnchanged, CronAside
<1>3. CASE rec' = [pc |-> "schedule", chb |-> [Cron!Gone EXCEPT !.spec = rec.chb.spec]]
  <2>1. rec.chb.spec \in Cron!Specs
    BY CronTypes DEF Cron!Objects
  <2>2. [Cron!Gone EXCEPT !.spec = rec.chb.spec] \in Cron!Objects
    BY <2>1, CronNewFields, CronEdited
  <2>3. rec' \in [pc : Cron!PCs, chb : Cron!Objects] /\ rec'.pc = "schedule"
    BY <1>3, <2>2 DEF Cron!PCs
  <2> QED
    BY <1>1, <2>3, CronTypes, CronUnchanged, CronAside
<1> QED
  BY <1>2, <1>3 DEF Cron!Cleanup

\* What the controller knew is replaced or removed, so that one entry is left
\* or none; a schedule that does not parse changes nothing.
LEMMA CronUpdateScheduleStep == Cron!Inv /\ Cron!UpdateSchedule => Cron!Inv'
<1> SUFFICES ASSUME Cron!Inv, Cron!UpdateSchedule PROVE Cron!Inv'
  OBVIOUS
<1>1. UNCHANGED <<object, cache>> /\ rec.pc = "schedule"
  BY DEF Cron!UpdateSchedule
<1>2. CASE rec' = Cron!Idle /\ UNCHANGED <<v3, v4>>
  BY <1>1, <1>2, CronTypes, CronIdleFields, CronUnchanged, CronAside
<1>3. {x \in v3 : x.id # v4} = {}
  BY DEF Cron!Inv, Cron!EntryInv
<1>4. CASE /\ rec' = Cron!To("annotate")
           /\ v3' = {} \/ \E e : v3' = {e} /\ e.id = v4'
  <2>1. rec' \in [pc : Cron!PCs, chb : Cron!Objects] /\ rec'.pc = "annotate"
    BY <1>4, CronTypes, CronMoved DEF Cron!PCs
  <2>2. Cron!TypeInv' /\ Cron!EndInv'
    BY <1>1, <2>1, CronTypes DEF Cron!Inv, Cron!TypeInv, Cron!EndInv
  <2>3. Cron!HeldInv'
    BY <1>1 DEF Cron!Inv, Cron!HeldInv
  <2>4. Cron!EntryInv'
    BY <1>4, <2>1 DEF Cron!EntryInv
  <2> QED
    BY <2>2, <2>3, <2>4 DEF Cron!Inv
<1> QED
  BY <1>2, <1>3, <1>4 DEF Cron!UpdateSchedule, Cron!Suspend, Cron!Replace

LEMMA CronUpdateLastSuccessfulStep == Cron!Inv /\ Cron!UpdateLastSuccessful => Cron!Inv'
<1> SUFFICES ASSUME Cron!Inv, Cron!UpdateLastSuccessful PROVE Cron!Inv'
  OBVIOUS
<1>1. UNCHANGED <<cache, v3, v4>> /\ rec' = Cron!Idle
  BY DEF Cron!UpdateLastSuccessful
<1>2. object' \in Cron!Objects /\ Cron!Keeps(object, object')
  BY CronTypes, CronAnnotated, CronUnchanged DEF Cron!UpdateLastSuccessful
<1> QED
  BY <1>1, <1>2, CronIdleFields, CronAside

LEMMA CronExecuteFinalizerStep == Cron!Inv /\ Cron!ExecuteFinalizer => Cron!Inv'
<1> SUFFICES ASSUME Cron!Inv, Cron!ExecuteFinalizer PROVE Cron!Inv'
  OBVIOUS
<1>1. UNCHANGED <<object, cache>> /\ rec.pc = "final" /\ v3' = Cron!RemoveSchedule
  BY DEF Cron!ExecuteFinalizer
<1>2. v3' = {}
  BY <1>1 DEF Cron!Inv, Cron!EntryInv, Cron!RemoveSchedule
<1>3. rec' \in [pc : Cron!PCs, chb : Cron!Objects] /\ rec'.pc \in {"idle", "left"}
  BY CronTypes, CronIdleFields, CronMoved DEF Cron!ExecuteFinalizer, Cron!PCs
<1>4. Cron!TypeInv' /\ Cron!EntryInv'
  BY <1>1, <1>2, <1>3, CronTypes DEF Cron!TypeInv, Cron!EntryInv
<1>5. Cron!EndInv' /\ Cron!HeldInv'
  BY <1>1, <1>2, <1>3 DEF Cron!Inv, Cron!EndInv, Cron!HeldInv
<1> QED
  BY <1>4, <1>5 DEF Cron!Inv

LEMMA CronRemoveFinalizerStep == Cron!Inv /\ Cron!RemoveFinalizer => Cron!Inv'
<1> SUFFICES ASSUME Cron!Inv, Cron!RemoveFinalizer PROVE Cron!Inv'
  OBVIOUS
<1>1. UNCHANGED <<cache, v3, v4>> /\ rec.pc = "left" /\ rec' = Cron!Idle
  BY DEF Cron!RemoveFinalizer
<1>2. CASE object' = object
  BY <1>1, <1>2, CronTypes, CronIdleFields, CronUnchanged, CronAside
<1>3. CASE object' = Cron!Gone
  <2>1. v3 = {} /\ Cron!Ended(cache)
    BY <1>1 DEF Cron!Inv, Cron!EntryInv, Cron!EndInv
  <2>2. ~Cron!Usable(cache)
    BY <2>1, CronTypes, CronMarks
  <2> QED
    BY <1>1, <1>3, <2>1, <2>2, CronIdleFields, CronGoneStep
<1> QED
  BY <1>2, <1>3 DEF Cron!RemoveFinalizer

LEMMA CronLiveCopyStep == Cron!Inv /\ Cron!LiveCopy /\ [Cron!Next]_(Cron!vars) => Cron!LiveCopy'
<1> SUFFICES ASSUME Cron!Inv, Cron!LiveCopy, [Cron!Next]_(Cron!vars) PROVE Cron!LiveCopy'
  OBVIOUS
<1>1. CASE rec' = rec
  BY <1>1 DEF Cron!LiveCopy
<1>2. CASE rec' = Cron!Idle
  BY <1>2, CronIdleFields DEF Cron!LiveCopy
<1>3. CASE Cron!Reconcile
  <2>1. CASE rec' = [pc |-> "finalizer", chb |-> cache] /\ cache.live
    BY <2>1 DEF Cron!LiveCopy
  <2>2. CASE rec' = [pc |-> "final", chb |-> cache]
    BY <2>2 DEF Cron!LiveCopy
  <2>3. CASE rec' = Cron!Cleaning(cache)
    BY <2>3, CronTypes, CronCleaningFields DEF Cron!LiveCopy
  <2>4. cache.live \in BOOLEAN /\ cache.deleting \in BOOLEAN /\ cache.fin \in BOOLEAN
    BY CronTypes DEF Cron!Objects
  <2> QED
    BY <1>2, <1>3, <2>1, <2>2, <2>3, <2>4 DEF Cron!Reconcile
<1>4. CASE Cron!AddFinalizer
  <2>1. CASE rec' = Cron!Cleaning(object') /\ object' = [object EXCEPT !.fin = TRUE]
    BY <2>1, CronTypes, CronFinalizer, CronCleaningFields DEF Cron!LiveCopy
  <2> QED
    BY <1>2, <1>4, <2>1 DEF Cron!AddFinalizer
<1>5. CASE Cron!Cleanup
  BY <1>2, <1>5 DEF Cron!Cleanup, Cron!LiveCopy
<1>6. CASE Cron!UpdateSchedule
  BY <1>2, <1>6, CronTypes, CronMoved DEF Cron!UpdateSchedule, Cron!LiveCopy, Cron!PCs
<1>7. CASE Cron!ExecuteFinalizer
  BY <1>2, <1>7, CronTypes, CronMoved DEF Cron!ExecuteFinalizer, Cron!LiveCopy, Cron!PCs
<1> QED
  BY <1>1, <1>2, <1>3, <1>4, <1>5, <1>6, <1>7
  DEF Cron!Next, Cron!Worker, Cron!vars, Cron!Edit, Cron!Delete, Cron!SyncCache,
      Cron!SyncBackups, Cron!Restart, Cron!CreateHotBackup, Cron!UserDeletes, Cron!HotBackups,
      Cron!BackupEnds, Cron!GarbageCollect, Cron!DeleteBackup, Cron!UpdateLastSuccessful,
      Cron!RemoveFinalizer

----------------------------------------------------------------------------
(* The theorem.                                                            *)

LEMMA CronInitInv == Cron!Init => Cron!Inv /\ Cron!LiveCopy
<1> SUFFICES ASSUME Cron!Init PROVE Cron!Inv /\ Cron!LiveCopy
  OBVIOUS
<1>1. Cron!TypeInv /\ Cron!EntryInv
  BY CronNewFields, CronIdleFields DEF Cron!Init, Cron!TypeInv, Cron!EntryInv
<1>2. Cron!EndInv /\ Cron!HeldInv
  BY CronGoneEnded, CronIdleFields DEF Cron!Init, Cron!EndInv, Cron!HeldInv
<1>3. Cron!LiveCopy
  BY CronIdleFields DEF Cron!Init, Cron!LiveCopy
<1> QED
  BY <1>1, <1>2, <1>3 DEF Cron!Inv

LEMMA CronNextInv == Cron!Inv /\ Cron!LiveCopy /\ [Cron!Next]_(Cron!vars) => Cron!Inv'
<1> SUFFICES ASSUME Cron!Inv, Cron!LiveCopy, [Cron!Next]_(Cron!vars) PROVE Cron!Inv'
  OBVIOUS
<1>1. CASE UNCHANGED Cron!vars
  BY <1>1, CronTypes, CronUnchanged, CronAside DEF Cron!vars
<1> QED
  BY <1>1, CronEditStep, CronDeleteStep, CronOthersStep, CronRestartStep, CronReconcileStep,
     CronAddFinalizerStep, CronCleanupStep, CronUpdateScheduleStep,
     CronUpdateLastSuccessfulStep, CronExecuteFinalizerStep, CronRemoveFinalizerStep
  DEF Cron!Next, Cron!Worker

\* Replacing, suspending and deleting leave no schedule behind that the controller
\* does not know, and an object that is gone has none (updateSchedule,
\* removeSchedule, executeFinalizer).
THEOREM NoneLeaked == JobSpec => []NoLeakedEntry
<1> DEFINE I == which = "cron" => Cron!Inv /\ Cron!LiveCopy
<1>1. JobInit => I
  BY CronInitInv DEF JobInit, CronInit, SyncInit
<1>2. I /\ [JobNext]_vars => I'
  <2> SUFFICES ASSUME I, [JobNext]_vars, which' = "cron" PROVE (Cron!Inv /\ Cron!LiveCopy)'
    OBVIOUS
  <2>1. which = "cron"
    BY DEF JobNext, vars, CronStep, SyncStep
  <2>2. CASE Cron!Next
    BY <2>1, <2>2, CronNextInv, CronLiveCopyStep
  <2>3. CASE UNCHANGED Cron!vars
    BY <2>1, <2>3, CronNextInv, CronLiveCopyStep
  <2>4. Cron!Next \/ UNCHANGED Cron!vars
    BY <2>1 DEF JobNext, vars, slots, Cron!vars,
                CronStep, SyncStep
  <2> QED
    BY <2>2, <2>3, <2>4
<1>3. I => NoLeakedEntry
  BY DEF NoLeakedEntry, Cron!NoLeakedEntry, Cron!Inv, Cron!HeldInv, Cron!EntryInv, Cron!Held
<1> QED
  BY <1>1, <1>2, <1>3, PTL DEF JobSpec

----------------------------------------------------------------------------
(* Either history keeps as many newer backups as the limit says, for any   *)
(* number of backups and any limits.                                       *)
(*                                                                         *)
(* The list is old, and those that stay of it may have been deleted since. *)
(* When none of them was cleaned up they are enough, which is a matter of  *)
(* counting.  When one was, it has the newer ones that are asked for by    *)
(* the invariant itself, and these are newer than all that goes now.       *)

\* The controller's module counts as this one does.
LEMMA CronCardinality == \A S : Cron!Cardinality(S) = Cardinality(S)
BY Zenon DEF Cron!Cardinality, Cardinality

\* The n oldest and the history, counted here.
LEMMA CronOldestDef ==
    ASSUME NEW n, NEW S
    PROVE  Cron!Oldest(n, S) = {b \in S : Cardinality({c \in S : c < b}) < n}
BY CronCardinality, Zenon DEF Cron!Oldest

LEMMA CronHistoryDef ==
    ASSUME NEW n, NEW S
    PROVE  Cron!History(n, S) =
              IF Cardinality(S) > n THEN Cron!Oldest(Cardinality(S) - n, S) ELSE {}
BY CronCardinality, Zenon DEF Cron!History

\* A set of numbers up to a bound has a greatest element.
LEMMA CronGreatest ==
    ASSUME NEW n \in Nat, NEW T \in SUBSET (1 .. n), T # {}
    PROVE  \E m \in T : \A c \in T : c <= m
<1> DEFINE D == {n - c : c \in T}
<1>0. D \subseteq Nat
  OBVIOUS
<1>1. D \subseteq Nat /\ D # {}
  <2>1. PICK c : c \in T
    OBVIOUS
  <2>2. n - c \in D
    BY <2>1
  <2> QED
    BY <1>0, <2>2
<1>2. PICK d \in D : \A e \in D : ~(<<e, d>> \in OpToRel(<, Nat))
  BY <1>1, NatLessThanWellFounded, WFMin
<1>3. OpToRel(<, Nat) = {ss \in Nat \X Nat : ss[1] < ss[2]}
  BY Zenon DEF OpToRel
<1>4. \A e \in D : ~(e < d)
  BY <1>1, <1>2, <1>3
<1>5. PICK m \in T : d = n - m
  OBVIOUS
<1>6. \A c \in T : ~(n - c < n - m)
  BY <1>4, <1>5
<1> QED
  BY <1>6

\* What is counted is finite.
LEMMA CronFinite ==
    ASSUME NEW S \in SUBSET Cron!Backups
    PROVE  IsFiniteSet(S) /\ Cardinality(S) \in Nat
<1>1. IsFiniteSet(Cron!Backups)
  BY CronAssumption, FS_Interval DEF Cron!Backups
<1> QED
  BY <1>1, FS_Subset, FS_CardinalityType

\* The n oldest are n at most.
LEMMA CronOldestCount ==
    ASSUME NEW S \in SUBSET Cron!Backups, NEW n \in Nat
    PROVE  Cardinality(Cron!Oldest(n, S)) <= n
<1> DEFINE O == Cron!Oldest(n, S)
           Earlier(b) == {c \in S : c < b}
<1>1. O = {b \in S : Cardinality(Earlier(b)) < n}
  BY CronOldestDef
<1>2. O \in SUBSET Cron!Backups
  BY <1>1
<1> SUFFICES Cardinality(O) <= n
  OBVIOUS
<1> HIDE DEF O
<1>3. CASE O = {}
  BY <1>3, FS_EmptySet
<1>4. CASE O # {}
  <2>1. PICK m \in O : \A c \in O : c <= m
    BY <1>2, <1>4, CronAssumption, CronGreatest DEF Cron!Backups
  <2>2. Cardinality(Earlier(m)) < n
    BY <1>1, <2>1
  <2>3. O \ {m} \subseteq Earlier(m)
    BY <1>1, <1>2, <2>1, CronAssumption DEF Cron!Backups
  <2>4. Earlier(m) \in SUBSET Cron!Backups
    OBVIOUS
  <2> HIDE DEF Earlier
  <2>5. Cardinality(O \ {m}) <= Cardinality(Earlier(m)) /\ Cardinality(Earlier(m)) \in Nat
    BY <2>3, <2>4, CronFinite, FS_Subset
  <2>6. Cardinality(O \ {m}) = Cardinality(O) - 1 /\ Cardinality(O) \in Nat
    BY <1>2, <2>1, CronFinite, FS_RemoveElement
  <2> QED
    BY <2>2, <2>5, <2>6
<1> QED
  BY <1>3, <1>4

\* Of what is over the limit, the limit is kept, and newer than what goes.
LEMMA CronHistoryKeeps ==
    ASSUME NEW S \in SUBSET Cron!Backups, NEW limit \in Nat,
           NEW b \in Cron!History(limit, S)
    PROVE  /\ Cardinality(S \ Cron!History(limit, S)) >= limit
           /\ \A c \in S \ Cron!History(limit, S) : c > b
<1> DEFINE n == Cardinality(S) - limit
           O == Cron!Oldest(n, S)
           Earlier(c) == {d \in S : d < c}
<1>1. Cardinality(S) \in Nat /\ IsFiniteSet(S)
  BY CronFinite
<1>2. Cardinality(S) > limit /\ Cron!History(limit, S) = O
  BY CronHistoryDef
<1>3. n \in Nat
  BY <1>1, <1>2
<1> HIDE DEF n
<1>4. O = {c \in S : Cardinality(Earlier(c)) < n}
  BY CronOldestDef
<1>5. Cardinality(O) <= n
  BY <1>3, CronOldestCount
<1> HIDE DEF O
<1>6. Cardinality(S \ O) = Cardinality(S) - Cardinality(O) /\ Cardinality(O) \in Nat
  <2>1. S \cap O = O /\ O \in SUBSET Cron!Backups
    BY <1>4
  <2> QED
    BY <1>1, <2>1, CronFinite, FS_Difference
<1>7. Cardinality(S \ O) >= limit
  BY <1>1, <1>3, <1>5, <1>6 DEF n
<1>8. ASSUME NEW c \in S \ O PROVE c > b
  <2>0. b \in O /\ b \in S
    BY <1>2, <1>4
  <2>1. b \in O /\ b \in S /\ b \in Nat /\ c \in Nat
    BY <2>0, CronAssumption DEF Cron!Backups
  <2>2. Cardinality(Earlier(b)) < n /\ ~(Cardinality(Earlier(c)) < n)
    BY <1>4, <2>1
  <2>3. Earlier(b) \in SUBSET Cron!Backups /\ Earlier(c) \in SUBSET Cron!Backups
    OBVIOUS
  <2>4. c # b
    BY <2>1
  <2>5. SUFFICES ASSUME c < b PROVE FALSE
    BY <2>1, <2>4
  <2>6. Earlier(c) \subseteq Earlier(b)
    <3>1. \A d \in S : d \in Nat
      BY CronAssumption DEF Cron!Backups
    <3>2. \A d \in S : d < c => d < b
      BY <2>1, <2>5, <3>1
    <3> QED
      BY <3>2
  <2> HIDE DEF Earlier
  <2>7. /\ Cardinality(Earlier(c)) <= Cardinality(Earlier(b))
        /\ Cardinality(Earlier(c)) \in Nat /\ Cardinality(Earlier(b)) \in Nat
    BY <2>3, <2>6, CronFinite, FS_Subset
  <2> QED
    BY <1>3, <2>2, <2>7
<1> QED
  BY <1>2, <1>7, <1>8

\* Who goes is one of those it is chosen from.
LEMMA CronHistoryPart == \A limit, S : Cron!History(limit, S) \subseteq S
BY DEF Cron!History, Cron!Oldest

----------------------------------------------------------------------------
(* The steps.                                                              *)

\* What the writes make of a backup.
LEMMA CronReported ==
    ASSUME NEW hb, NEW st \in Cron!Ends, Cron!IsBackup(hb)
    PROVE  /\ Cron!Follows(hb, Cron!Reported(hb, st))
           /\ Cron!Reported(hb, st).by = hb.by
BY DEF Cron!IsBackup, Cron!Follows, Cron!Reported

LEMMA CronStateSet ==
    ASSUME NEW hb, NEW st, st \notin Cron!Ends, Cron!IsBackup(hb)
    PROVE  /\ Cron!Follows(hb, [hb EXCEPT !.state = st])
           /\ [hb EXCEPT !.state = st].by = hb.by
BY DEF Cron!IsBackup, Cron!Follows

LEMMA CronDeletedBy ==
    ASSUME NEW hb, NEW who, Cron!Follows(hb, hb)
    PROVE  /\ Cron!Follows(hb, Cron!DeletedBy(hb, who))
           /\ \/ Cron!DeletedBy(hb, who).by = hb.by
              \/ hb.by = "nobody" /\ Cron!DeletedBy(hb, who).by = who
<1>1. CASE Cron!DeletedBy(hb, who) = hb
  BY <1>1
<1>2. CASE hb.by = "nobody" /\ Cron!DeletedBy(hb, who) = [hb EXCEPT !.by = who]
  BY <1>2 DEF Cron!IsBackup, Cron!Follows
<1> QED
  BY <1>1, <1>2 DEF Cron!DeletedBy

\* Every backup follows itself.
LEMMA CronFollowsItself ==
    ASSUME Cron!ListInv, NEW b \in Cron!Backups
    PROVE  Cron!IsBackup(v1[b]) /\ Cron!Follows(v1[b], v1[b])
BY DEF Cron!ListInv, Cron!Follows

\* A step that leaves the list alone.
LEMMA CronListKept ==
    ASSUME Cron!ListInv, v2' = v2,
           v1' = [b \in Cron!Backups |-> v1'[b]],
           \A b \in Cron!Backups : Cron!Follows(v1[b], v1'[b])
    PROVE  Cron!ListInv'
BY DEF Cron!ListInv, Cron!Follows

\* What a step makes of the backups that deletes for none of the histories.
Spares ==
    /\ v1' = [b \in Cron!Backups |-> v1'[b]]
    /\ \A b \in Cron!Backups :
          /\ Cron!Follows(v1[b], v1'[b])
          /\ \A s \in Cron!Ends : v1'[b].by = s => v1[b].by = s

\* What was spared is spared still.
LEMMA CronSparedStay ==
    ASSUME NEW s \in Cron!Ends, NEW b \in Cron!Backups, NEW N,
           \A c \in Cron!Backups : /\ v1[c].had \subseteq v1'[c].had
                                   /\ v1'[c].by = s => v1[c].by = s \/ c \in N,
           \A c \in N : ~(c > b),
           Cardinality(Cron!Spared(s, b)) >= Cron!Limit(s)
    PROVE  Cardinality(Cron!Spared(s, b)') >= Cron!Limit(s)
<1>1. Cron!Spared(s, b) \subseteq Cron!Spared(s, b)'
  BY DEF Cron!Spared
<1>2. Cron!Spared(s, b)' \in SUBSET Cron!Backups /\ Cron!Spared(s, b) \in SUBSET Cron!Backups
  BY DEF Cron!Spared
<1>3. Cron!Limit(s) \in Nat
  BY CronAssumption DEF Cron!Limit
<1>4. /\ Cardinality(Cron!Spared(s, b)) <= Cardinality(Cron!Spared(s, b)')
      /\ Cardinality(Cron!Spared(s, b)) \in Nat /\ Cardinality(Cron!Spared(s, b)') \in Nat
  BY <1>1, <1>2, CronFinite, FS_Subset
<1> QED
  BY <1>3, <1>4

\* What the property says, counted here.
Newer(s, b) == /\ s = "Success" => b # v5.restored
               /\ Cardinality(Cron!Spared(s, b)) >= Cron!Limit(s)

LEMMA CronKeepsNewestDef ==
    Cron!KeepsNewest <=> \A s \in Cron!Ends, b \in Cron!Backups : v1[b].by = s => Newer(s, b)
BY CronCardinality, Zenon DEF Cron!KeepsNewest, Newer

LEMMA CronKeepsNewestDefNext ==
    Cron!KeepsNewest' <=>
        \A s \in Cron!Ends, b \in Cron!Backups : v1'[b].by = s => Newer(s, b)'
BY CronCardinality, Zenon DEF Cron!KeepsNewest, Newer

\* A step that cleans nothing up.
LEMMA CronSpares ==
    ASSUME Cron!KeepsNewest, Spares, v5' = v5
    PROVE  Cron!KeepsNewest'
<1> SUFFICES ASSUME NEW s \in Cron!Ends, NEW b \in Cron!Backups, v1'[b].by = s
             PROVE  Newer(s, b)'
  BY CronKeepsNewestDefNext
<1>1. v1[b].by = s
  BY DEF Spares
<1>2. Newer(s, b)
  BY <1>1, CronKeepsNewestDef
<1> DEFINE N == {}
<1>3. /\ \A c \in Cron!Backups : /\ v1[c].had \subseteq v1'[c].had
                                 /\ v1'[c].by = s => v1[c].by = s \/ c \in N
      /\ \A c \in N : ~(c > b)
  BY DEF Spares, Cron!Follows
<1> HIDE DEF N
<1>4. Cardinality(Cron!Spared(s, b)') >= Cron!Limit(s)
  BY <1>2, <1>3, CronSparedStay DEF Newer
<1> QED
  BY <1>2, <1>4 DEF Newer

----------------------------------------------------------------------------
(* The clean-up.                                                           *)

\* What it makes of the backups, whether some of the calls fail or none.
LEMMA CronCleaned ==
    ASSUME Cron!ListInv, Cron!Cleanup
    PROVE  /\ v2' = v2 /\ v5' = v5 /\ v1' = [b \in Cron!Backups |-> v1'[b]]
           /\ \A b \in Cron!Backups :
                 /\ Cron!Follows(v1[b], v1'[b])
                 /\ \A s \in Cron!Ends :
                       v1'[b].by = s => v1[b].by = s \/ b \in Cron!CleanupResources(s)
<1>1. PICK bs : /\ \A s \in Cron!Ends : bs[s] \subseteq Cron!CleanupResources(s)
                /\ v1' = Cron!Cleaned(bs)
  <2>1. CASE v1' = Cron!Cleaned([s \in Cron!Ends |-> Cron!CleanupResources(s)])
    BY <2>1
  <2> QED
    BY <2>1 DEF Cron!Cleanup
<1>2. v2' = v2 /\ v5' = v5
  BY DEF Cron!Cleanup
<1>3. v1' = [b \in Cron!Backups |-> v1'[b]]
  BY <1>1 DEF Cron!Cleaned
<1>4. ASSUME NEW b \in Cron!Backups
      PROVE  /\ Cron!Follows(v1[b], v1'[b])
             /\ \A s \in Cron!Ends :
                   v1'[b].by = s => v1[b].by = s \/ b \in Cron!CleanupResources(s)
  <2>1. CASE v1'[b] = v1[b]
    BY <2>1, CronFollowsItself
  <2>2. CASE \E s \in Cron!Ends : b \in bs[s]
    <3> DEFINE w == CHOOSE s \in Cron!Ends : b \in bs[s]
    <3>1. w \in Cron!Ends /\ b \in bs[w]
      BY <2>2
    <3>2. v1'[b] = Cron!DeletedBy(v1[b], w)
      BY <1>1, <2>2 DEF Cron!Cleaned
    <3> HIDE DEF w
    <3>3. b \in Cron!CleanupResources(w)
      BY <1>1, <3>1
    <3>4. /\ Cron!Follows(v1[b], v1'[b])
          /\ v1'[b].by = v1[b].by \/ v1'[b].by = w
      BY <3>2, CronFollowsItself, CronDeletedBy
    <3> QED
      BY <3>3, <3>4
  <2> QED
    BY <1>1, <2>1, <2>2 DEF Cron!Cleaned
<1> QED
  BY <1>2, <1>3, <1>4

\* What it counts has been what it is counted as.
LEMMA CronCounted ==
    ASSUME Cron!ListInv, NEW s \in Cron!Ends
    PROVE  /\ Cron!Counted(s) \in SUBSET Cron!Backups
           /\ \A b \in Cron!Counted(s) : /\ s \in v1[b].had
                                         /\ s = "Success" => b # v5.restored
BY DEF Cron!Counted, Cron!ListInv

\* Who is spared besides changes nothing.
LEMMA CronMoreSpared ==
    ASSUME NEW s, NEW b, NEW S, S \subseteq Cron!Spared(s, b)', Cron!Limit(s) \in Nat,
           Cardinality(S) >= Cron!Limit(s)
    PROVE  Cardinality(Cron!Spared(s, b)') >= Cron!Limit(s)
<1>1. Cron!Spared(s, b)' \in SUBSET Cron!Backups /\ S \in SUBSET Cron!Backups
  BY DEF Cron!Spared
<1>2. /\ Cardinality(S) <= Cardinality(Cron!Spared(s, b)')
      /\ Cardinality(S) \in Nat /\ Cardinality(Cron!Spared(s, b)') \in Nat
  BY <1>1, CronFinite, FS_Subset
<1> QED
  BY <1>2

\* What goes has enough newer ones, and what went before has them still.
LEMMA CronCleanupKeeps ==
    ASSUME Cron!ListInv, Cron!KeepsNewest, Cron!Cleanup
    PROVE  Cron!KeepsNewest'
<1> SUFFICES ASSUME NEW s \in Cron!Ends, NEW b \in Cron!Backups, v1'[b].by = s
             PROVE  Newer(s, b)'
  BY CronKeepsNewestDefNext
<1> DEFINE L == Cron!Counted(s)
           H == Cron!CleanupResources(s)
           K == L \ H
<1>1. /\ L \in SUBSET Cron!Backups
      /\ \A c \in L : s \in v1[c].had /\ (s = "Success" => c # v5.restored)
  BY CronCounted
<1>2. H = Cron!History(Cron!Limit(s), L) /\ Cron!Limit(s) \in Nat
  BY CronAssumption DEF Cron!CleanupResources, Cron!Limit
<1>3. H \subseteq L
  BY <1>2, CronHistoryPart
<1> HIDE DEF L, H
<1>4. \A h \in H : Cardinality(K) >= Cron!Limit(s) /\ \A c \in K : c > h
  BY <1>1, <1>2, CronHistoryKeeps
<1>5. v5' = v5 /\ \A c \in Cron!Backups :
                     /\ v1[c].had \subseteq v1'[c].had
                     /\ v1'[c].by = s => v1[c].by = s \/ c \in H
  BY CronCleaned DEF Cron!Follows, H
<1>6. \A c \in Cron!Backups : v1[c].by = s => Newer(s, c)
  BY CronKeepsNewestDef
<1>7. \A c \in Cron!Backups : c \in Nat
  BY CronAssumption DEF Cron!Backups
<1>8. s = "Success" => b # v5.restored
  BY <1>1, <1>3, <1>5, <1>6, SMTT(30) DEF Newer
<1>9. Cardinality(Cron!Spared(s, b)') >= Cron!Limit(s)
  <2>1. CASE v1[b].by = s /\ \A h \in H : ~(h > b)
    BY <1>5, <1>6, <2>1, CronSparedStay, SMTT(30) DEF Newer
  <2>2. CASE v1[b].by # s \/ \E h \in H : h > b
    <3>1. PICK h \in H : h = b \/ h > b
      BY <1>5, <2>2
    <3>2. h \in Nat /\ b \in Nat /\ \A c \in K : c \in Nat /\ c \in Cron!Backups /\ c > h
      BY <1>1, <1>3, <1>4, <1>7, <3>1, SMTT(30)
    <3>3. CASE \E k \in K : v1[k].by = s
      <4>1. PICK k \in K : v1[k].by = s
        BY <3>3
      <4>2. k \in Cron!Backups /\ Cardinality(Cron!Spared(s, k)) >= Cron!Limit(s)
        BY <1>6, <3>2, <4>1 DEF Newer
      <4>3. \A c \in H : ~(c > k)
        BY <1>1, <1>3, <1>4, <1>7, <3>2, SMTT(30)
      <4>4. Cardinality(Cron!Spared(s, k)') >= Cron!Limit(s)
        BY <1>5, <4>2, <4>3, CronSparedStay
      <4>5. \A c \in Cron!Backups : c > k => c > b
        BY <1>7, <3>1, <3>2, SMTT(30)
      <4>6. Cron!Spared(s, k)' \subseteq Cron!Spared(s, b)'
        BY <4>5 DEF Cron!Spared
      <4> QED
        BY <1>2, <4>4, <4>6, CronMoreSpared, SMTT(30)
    <3>4. CASE \A k \in K : v1[k].by # s
      <4>1. K \subseteq Cron!Spared(s, b)'
        BY <1>1, <1>5, <3>1, <3>2, <3>4, SMTT(30) DEF Cron!Spared
      <4> QED
        BY <1>2, <1>4, <3>1, <4>1, CronMoreSpared, SMTT(30)
    <3> QED
      BY <3>3, <3>4
  <2> QED
    BY <2>1, <2>2
<1> QED
  BY <1>5, <1>8, <1>9 DEF Newer

----------------------------------------------------------------------------
(* The other steps.                                                        *)

\* Nobody and the others are no history.
LEMMA CronOthersSpare ==
    ASSUME Cron!ListInv, v1' = [b \in Cron!Backups |-> v1'[b]],
           \A b \in Cron!Backups :
              \/ v1'[b] = v1[b]
              \/ Cron!Follows(v1[b], v1'[b]) /\ v1'[b].by = v1[b].by
              \/ v1'[b] = Cron!DeletedBy(v1[b], "others")
    PROVE  Spares
<1> SUFFICES ASSUME NEW b \in Cron!Backups
             PROVE  /\ Cron!Follows(v1[b], v1'[b])
                    /\ \A s \in Cron!Ends : v1'[b].by = s => v1[b].by = s
  BY DEF Spares
<1>1. Cron!Follows(v1[b], v1[b])
  BY CronFollowsItself
<1>2. CASE v1'[b] = Cron!DeletedBy(v1[b], "others")
  BY <1>1, <1>2, CronDeletedBy DEF Cron!Ends
<1> QED
  BY <1>1, <1>2

LEMMA CronSparingSteps ==
    ASSUME Cron!ListInv, v5.outcome \in Cron!Ends,
           \/ Cron!CreateHotBackup \/ Cron!UserDeletes \/ Cron!HotBackups
           \/ Cron!ExecuteFinalizer
    PROVE  Spares /\ v2' = v2 /\ v5' = v5
<1>1. /\ v1 = [b \in Cron!Backups |-> v1[b]]
      /\ \A b \in Cron!Backups : Cron!IsBackup(v1[b])
  BY DEF Cron!ListInv
<1>2. CASE Cron!CreateHotBackup
  <2>1. PICK b \in Cron!Backups : v1' = [v1 EXCEPT ![b].state = "Unknown"]
    BY <1>2, Zenon DEF Cron!CreateHotBackup
  <2>2. v1' = [v1 EXCEPT ![b] = [v1[b] EXCEPT !.state = "Unknown"]]
    BY <2>1
  <2>3. Cron!Follows(v1[b], [v1[b] EXCEPT !.state = "Unknown"])
        /\ [v1[b] EXCEPT !.state = "Unknown"].by = v1[b].by
    BY <1>1, CronStateSet DEF Cron!Ends
  <2>4. Spares
    BY <1>1, <2>2, <2>3, CronOthersSpare
  <2> QED
    BY <1>2, <2>4 DEF Cron!CreateHotBackup
<1>3. CASE \E b \in Cron!Backups : Cron!BackupEnds(b)
  <2>1. PICK b \in Cron!Backups : Cron!BackupEnds(b)
    BY <1>3
  <2>2. PICK to : v1' = [v1 EXCEPT ![b] = to] /\ Cron!Follows(v1[b], to) /\ to.by = v1[b].by
    <3>1. CASE \E st \in Cron!Ends : v1' = [v1 EXCEPT ![b] = Cron!Reported(v1[b], st)]
      BY <1>1, <3>1, CronReported, Zenon
    <3>2. CASE v1' = [v1 EXCEPT ![b] = [v1[b] EXCEPT !.state = "gone"]]
      BY <1>1, <3>2, CronStateSet, Zenon DEF Cron!Ends
    <3> QED
      BY <2>1, <3>1, <3>2 DEF Cron!BackupEnds, Cron!Ends
  <2>3. Spares
    BY <1>1, <2>2, CronOthersSpare
  <2> QED
    BY <2>1, <2>3 DEF Cron!BackupEnds
<1>4. CASE \E b \in Cron!Backups : Cron!DeleteBackup(b)
  <2>1. PICK b \in Cron!Backups : Cron!DeleteBackup(b)
    BY <1>4
  <2>2. v1' = [v1 EXCEPT ![b] = Cron!DeletedBy(v1[b], "others")]
    BY <2>1 DEF Cron!DeleteBackup
  <2>3. Spares
    BY <1>1, <2>2, CronOthersSpare
  <2> QED
    BY <2>1, <2>3 DEF Cron!DeleteBackup
<1>5. CASE Cron!ExecuteFinalizer
  <2>1. PICK bs : v1' = Cron!Deleted(bs)
    BY <1>5 DEF Cron!ExecuteFinalizer
  <2>2. Spares
    BY <2>1, CronOthersSpare DEF Cron!Deleted
  <2> QED
    BY <1>5, <2>2 DEF Cron!ExecuteFinalizer
<1> QED
  BY <1>2, <1>3, <1>4, <1>5 DEF Cron!UserDeletes, Cron!HotBackups, Cron!GarbageCollect

\* The list stays true, and the newest are kept.
KeptInv == Cron!ListInv /\ Cron!KeepsNewest /\ v5 \in Courses

LEMMA CronUntouched ==
    ASSUME KeptInv, UNCHANGED <<v1, v5>>, v2' \in {v1, v2}
    PROVE  KeptInv'
<1>1. Cron!ListInv'
  BY DEF KeptInv, Cron!ListInv
<1>2. Spares
  BY CronOthersSpare DEF KeptInv, Cron!ListInv
<1> QED
  BY <1>1, <1>2, CronSpares DEF KeptInv

LEMMA CronKeptStep == KeptInv /\ [Cron!Next]_(Cron!vars) => KeptInv'
<1> SUFFICES ASSUME KeptInv, [Cron!Next]_(Cron!vars) PROVE KeptInv'
  OBVIOUS
<1>1. CASE UNCHANGED <<v1, v5>> /\ v2' \in {v1, v2}
  BY <1>1, CronUntouched
<1>2. CASE \/ Cron!CreateHotBackup \/ Cron!UserDeletes \/ Cron!HotBackups
           \/ Cron!ExecuteFinalizer
  <2>1. v5.outcome \in Cron!Ends
    BY CoursesAssumption DEF KeptInv, Cron!Ends
  <2>2. Spares /\ v2' = v2 /\ v5' = v5
    BY <1>2, <2>1, CronSparingSteps DEF KeptInv
  <2>3. Cron!ListInv'
    BY <2>2, CronListKept DEF KeptInv, Spares
  <2> QED
    BY <2>2, <2>3, CronSpares DEF KeptInv
<1>3. CASE Cron!Cleanup
  <2>1. Cron!ListInv'
    BY <1>3, CronCleaned, CronListKept DEF KeptInv
  <2> QED
    BY <1>3, <2>1, CronCleaned, CronCleanupKeeps DEF KeptInv
<1> QED
  BY <1>1, <1>2, <1>3
  DEF Cron!Next, Cron!Worker, Cron!vars, Cron!Edit, Cron!Delete, Cron!SyncCache,
      Cron!SyncBackups, Cron!Restart, Cron!Reconcile, Cron!AddFinalizer, Cron!UpdateSchedule,
      Cron!UpdateLastSuccessful, Cron!RemoveFinalizer

LEMMA CronKeptInit == Cron!Init => KeptInv
<1> SUFFICES ASSUME Cron!Init PROVE KeptInv
  OBVIOUS
<1>1. /\ v1 = [b \in Cron!Backups |-> Cron!NoBackup] /\ v2 = v1 /\ v5 \in Courses
  BY DEF Cron!Init
<1>2. /\ Cron!IsBackup(Cron!NoBackup) /\ Cron!NoBackup.state \notin Cron!Ends
      /\ Cron!NoBackup.by \notin Cron!Ends
  BY DEF Cron!IsBackup, Cron!NoBackup, Cron!Ends
<1>3. Cron!ListInv
  BY <1>1, <1>2 DEF Cron!ListInv
<1>4. Cron!KeepsNewest
  BY <1>1, <1>2, CronKeepsNewestDef
<1> QED
  BY <1>1, <1>3, <1>4 DEF KeptInv

\* Whatever the clean-up of a history deletes has as many newer ones of its kind,
\* which the clean-up spares, as the limit says, however old the list is and
\* whatever was deleted since; the backup that is restored from stays
\* (cleanupResources, deleteHotBackupHistory).
THEOREM Newest == JobSpec => []KeepsNewest
<1> DEFINE I == which = "cron" => KeptInv
<1>1. JobInit => I
  BY CronKeptInit DEF JobInit, CronInit, SyncInit
<1>2. I /\ [JobNext]_vars => I'
  <2> SUFFICES ASSUME I, [JobNext]_vars, which' = "cron" PROVE KeptInv'
    OBVIOUS
  <2>1. which = "cron"
    BY DEF JobNext, vars, CronStep, SyncStep
  <2>2. Cron!Next \/ UNCHANGED Cron!vars
    BY <2>1 DEF JobNext, vars, slots, Cron!vars, CronStep, SyncStep
  <2> QED
    BY <2>1, <2>2, CronKeptStep
<1>3. I => KeepsNewest
  BY DEF KeepsNewest, KeptInv
<1> QED
  BY <1>1, <1>2, <1>3, PTL DEF JobSpec

----------------------------------------------------------------------------
(* What is reported as completed was synchronized by every member, for any *)
(* objects, maps and members and any number of failed calls and restarts.  *)
(*                                                                         *)
(* The answers of the members are remembered by the goroutine alone; the   *)
(* invariant ties each of them to what the member did.  A write of the     *)
(* worker cannot bring a report back that was overwritten, since it is     *)
(* refused when its copy is old.                                           *)

(* What the writes make of an object.                                      *)

LEMMA SyncNewFields == Sync!New \in Sync!Objects /\ Sync!Gone \in Sync!Objects
<1>1. [m \in Maps |-> "none"] \in [Maps -> Sync!MapStates]
  BY DEF Sync!MapStates
<1>2. 0 \in Sync!Names /\ 9 \in Sync!Names /\ "" \in Sync!Statuses
  BY DEF Sync!Names, Sync!Statuses
<1>3. Sync!New \in Sync!Objects
  BY <1>1, <1>2 DEF Sync!New, Sync!Objects
<1> QED
  BY <1>3 DEF Sync!Gone, Sync!Objects

LEMMA SyncNewTruthful ==
    ASSUME NEW done
    PROVE  Sync!Truthful(Sync!New, done) /\ Sync!Truthful(Sync!Gone, done)
<1>1. Sync!New.status = "" /\ Sync!New.maps = [m \in Maps |-> "none"]
  BY DEF Sync!New
<1>2. Sync!Gone.status = "" /\ Sync!Gone.maps = [m \in Maps |-> "none"]
  BY DEF Sync!Gone, Sync!New
<1> QED
  BY <1>1, <1>2 DEF Sync!Truthful

\* The writes that leave the statuses alone.
LEMMA SyncMarked ==
    ASSUME NEW o \in Sync!Objects,
           NEW e \in {[o EXCEPT !.deleting = TRUE], [o EXCEPT !.fin = TRUE],
                      [o EXCEPT !.applied = TRUE]}
    PROVE  e \in Sync!Objects /\ e.status = o.status /\ e.maps = o.maps
BY DEF Sync!Objects

LEMMA SyncNamed ==
    ASSUME NEW o \in Sync!Objects
    PROVE  /\ [o EXCEPT !.name = 1] \in Sync!Objects
           /\ [o EXCEPT !.name = 1].status = o.status /\ [o EXCEPT !.name = 1].maps = o.maps
           /\ [o EXCEPT !.last = o.name] \in Sync!Objects
           /\ [o EXCEPT !.last = o.name].status = o.status
           /\ [o EXCEPT !.last = o.name].maps = o.maps
<1>1. 1 \in Sync!Names /\ o.name \in Sync!Names
  BY DEF Sync!Names, Sync!Objects
<1> QED
  BY <1>1 DEF Sync!Objects

LEMMA SyncTelling ==
    ASSUME NEW o \in Sync!Objects, NEW st \in Sync!Statuses,
           NEW maps \in [Maps -> Sync!MapStates]
    PROVE  /\ Sync!Told(o, st, maps) \in Sync!Objects /\ Sync!Told(o, st, maps).status = st
           /\ Sync!Told(o, st, maps).maps = maps
BY DEF Sync!Objects, Sync!Told

LEMMA SyncFields ==
    ASSUME NEW o \in Sync!Objects
    PROVE  o.status \in Sync!Statuses /\ o.maps \in [Maps -> Sync!MapStates]
BY DEF Sync!Objects

LEMMA SyncIdleFields ==
    Sync!Idle \in Sync!Workers /\ Sync!Idle.pc = "idle"
<1>1. (CHOOSE s \in Syncs : TRUE) \in Syncs
  BY SyncAssumption
<1> QED
  BY <1>1, SyncNewFields DEF Sync!Idle, Sync!Workers, Sync!PCs

LEMMA SyncNoJobFields ==
    Sync!NoJob \in Sync!Jobs /\ Sync!NoJob.pc = "none"
<1>1. (CHOOSE s \in Syncs : TRUE) \in Syncs /\ (CHOOSE m \in Maps : TRUE) \in Maps
  BY SyncAssumption
<1>2. [x \in Members |-> "wait"] \in Sync!Answers
  BY DEF Sync!Answers
<1>3. Sync!Idle.of \in Syncs
  BY <1>1 DEF Sync!Idle
<1> QED
  BY <1>1, <1>2, <1>3 DEF Sync!NoJob, Sync!Jobs, Sync!JobPCs

LEMMA SyncMoved ==
    ASSUME rec \in Sync!Workers, NEW pc \in Sync!PCs
    PROVE  Sync!To(pc) \in Sync!Workers
BY DEF Sync!To, Sync!Workers

LEMMA SyncTypes ==
    ASSUME Sync!Inv
    PROVE  /\ object \in [Syncs -> Sync!Objects] /\ cache \in [Syncs -> Sync!Objects]
           /\ v3 \in [Syncs -> SUBSET Maps] /\ flag \in [Maps -> SUBSET Members]
           /\ v5 \in Sync!Jobs /\ rec \in Sync!Workers
           /\ rec.of \in Syncs /\ rec.ws \in Sync!Objects /\ rec.pc \in Sync!PCs
           /\ v5.who \in Syncs /\ v5.map \in Maps /\ v5.answer \in Sync!Answers
           /\ v5.todo \in SUBSET Maps
BY DEF Sync!Inv, Sync!TypeInv, Sync!Workers, Sync!Jobs

LEMMA SyncRoutes ==
    ASSUME NEW s \in Syncs, NEW o \in Sync!Objects
    PROVE  Sync!Route(s, o) \in Sync!PCs
<1>1. o.deleting \in BOOLEAN /\ o.fin \in BOOLEAN /\ o.applied \in BOOLEAN
  BY DEF Sync!Objects
<1>2. Sync!Renamed(o) \in BOOLEAN
  BY DEF Sync!Renamed
<1> QED
  BY <1>1, <1>2 DEF Sync!Route, Sync!PCs

----------------------------------------------------------------------------
\* A step that writes one object and leaves the synchronization alone.
LEMMA SyncWritten ==
    ASSUME Sync!Inv, NEW s \in Syncs, NEW o \in Sync!Objects, Sync!Truthful(o, flag),
           object' = [object EXCEPT ![s] = o] \/ object' = object, cache' = cache, v3' = v3,
           v5' = v5, flag' = flag, rec' \in Sync!Workers
    PROVE  Sync!Inv'
<1>1. object' \in [Syncs -> Sync!Objects] /\ \A t \in Syncs : object'[t] \in {object[t], o}
  BY SyncTypes
<1>2. Sync!TypeInv'
  BY <1>1, SyncTypes DEF Sync!TypeInv
<1>3. Sync!PollInv'
  BY DEF Sync!Inv, Sync!PollInv
<1>4. Sync!TruthInv'
  BY <1>1 DEF Sync!Inv, Sync!TruthInv
<1> QED
  BY <1>2, <1>3, <1>4 DEF Sync!Inv

\* The truth about what is synchronized lasts.
LEMMA SyncStillTruthful ==
    ASSUME NEW o, NEW done \in [Maps -> SUBSET Members], NEW more \in [Maps -> SUBSET Members],
           \A m \in Maps : done[m] \subseteq more[m], Sync!Truthful(o, done)
    PROVE  Sync!Truthful(o, more)
BY DEF Sync!Truthful
----------------------------------------------------------------------------
(* The user, the caches and the restarts.                                  *)

LEMMA SyncRenameStep ==
    ASSUME Sync!Inv, NEW s \in Syncs, Sync!Rename(s)
    PROVE  Sync!Inv'
<1> DEFINE o == [object[s] EXCEPT !.name = 1]
<1>1. UNCHANGED <<cache, v3, v5, flag, rec>>
  BY DEF Sync!Rename, Sync!srv
<1>2. object' = [object EXCEPT ![s] = o]
  BY DEF Sync!Rename
<1>3. o \in Sync!Objects /\ o.status = object[s].status /\ o.maps = object[s].maps
  BY SyncTypes, SyncNamed
<1>4. Sync!Truthful(o, flag)
  BY <1>3 DEF Sync!Inv, Sync!TruthInv, Sync!Truthful
<1> HIDE DEF o
<1> QED
  BY <1>1, <1>2, <1>3, <1>4, SyncTypes, SyncWritten

LEMMA SyncDeleteStep ==
    ASSUME Sync!Inv, NEW s \in Syncs, Sync!Delete(s)
    PROVE  Sync!Inv'
<1>1. UNCHANGED <<cache, v3, v5, flag, rec>>
  BY DEF Sync!Delete, Sync!srv
<1>2. CASE object' = [object EXCEPT ![s] = Sync!Gone]
  BY <1>1, <1>2, SyncTypes, SyncNewFields, SyncNewTruthful, SyncWritten
<1>3. CASE object' = [object EXCEPT ![s] = [object[s] EXCEPT !.deleting = TRUE]]
  <2> DEFINE o == [object[s] EXCEPT !.deleting = TRUE]
  <2>1. o \in Sync!Objects /\ o.status = object[s].status /\ o.maps = object[s].maps
    BY SyncTypes, SyncMarked
  <2>2. Sync!Truthful(o, flag)
    BY <2>1 DEF Sync!Inv, Sync!TruthInv, Sync!Truthful
  <2> HIDE DEF o
  <2>3. object' = [object EXCEPT ![s] = o]
    BY <1>3 DEF o
  <2> QED
    BY <1>1, <2>1, <2>2, <2>3, SyncTypes, SyncWritten
<1> QED
  BY <1>2, <1>3 DEF Sync!Delete

LEMMA SyncWorldStep == Sync!Inv /\ Sync!World => Sync!Inv'
<1> SUFFICES ASSUME Sync!Inv, Sync!World PROVE Sync!Inv'
  OBVIOUS
<1>1. UNCHANGED <<object, v3, v5, flag, rec>>
  BY DEF Sync!World, Sync!SyncCache, Sync!WanReplicationSucceeds, Sync!srv, Sync!kube
<1>2. cache' \in [Syncs -> Sync!Objects]
  BY SyncTypes DEF Sync!World, Sync!SyncCache, Sync!WanReplicationSucceeds, Sync!kube
<1> QED
  BY <1>1, <1>2 DEF Sync!Inv, Sync!TypeInv, Sync!PollInv, Sync!TruthInv

LEMMA SyncRestartStep ==
    ASSUME Sync!Inv, Sync!Restart
    PROVE  Sync!Inv'
<1>1. object' = object /\ flag' = flag /\ v5' = Sync!NoJob /\ rec' = Sync!Idle
      /\ cache' = object
  BY DEF Sync!Restart
<1>2. v3' \in [Syncs -> SUBSET Maps]
  BY DEF Sync!Restart
<1>3. Sync!TypeInv' /\ Sync!PollInv'
  BY <1>1, <1>2, SyncTypes, SyncNoJobFields, SyncIdleFields DEF Sync!TypeInv, Sync!PollInv
<1>4. Sync!TruthInv'
  BY <1>1 DEF Sync!Inv, Sync!TruthInv
<1> QED
  BY <1>3, <1>4 DEF Sync!Inv

----------------------------------------------------------------------------
(* The worker.                                                             *)

\* A step that writes nothing and leaves the service alone.
LEMMA SyncUnwritten ==
    ASSUME Sync!Inv, UNCHANGED <<object, cache, Sync!srv>>, rec' \in Sync!Workers
    PROVE  Sync!Inv'
BY DEF Sync!Inv, Sync!TypeInv, Sync!PollInv, Sync!TruthInv, Sync!srv

LEMMA SyncReconcileStep ==
    ASSUME Sync!Inv, NEW s \in Syncs, Sync!Reconcile(s)
    PROVE  Sync!Inv'
<1>1. UNCHANGED <<object, cache, Sync!srv>>
  BY DEF Sync!Reconcile
<1>2. cache[s] \in Sync!Objects /\ Sync!Route(s, cache[s]) \in Sync!PCs /\ "failed" \in Sync!PCs
  BY SyncTypes, SyncRoutes DEF Sync!PCs
<1>3. rec' \in Sync!Workers
  BY <1>2, SyncIdleFields DEF Sync!Reconcile, Sync!Workers
<1> QED
  BY <1>1, <1>3, SyncUnwritten

\* The writes with the worker's copy that leave the statuses alone.
LEMMA SyncCopyWritten ==
    ASSUME Sync!Inv, NEW o \in Sync!Objects, o.status = rec.ws.status, o.maps = rec.ws.maps,
           Sync!Fresh,
           Sync!Write(rec.of, o), UNCHANGED <<cache, Sync!srv>>, rec' \in Sync!Workers
    PROVE  Sync!Inv'
<1>1. Sync!Truthful(rec.ws, flag)
  BY SyncTypes DEF Sync!Inv, Sync!TruthInv, Sync!Fresh
<1>2. Sync!Truthful(o, flag)
  BY <1>1 DEF Sync!Truthful
<1> QED
  BY <1>2, SyncTypes, SyncWritten DEF Sync!Write, Sync!srv

LEMMA SyncFinalizerStep ==
    ASSUME Sync!Inv, Sync!AddFinalizer \/ Sync!RemoveFinalizer
    PROVE  Sync!Inv'
<1>1. UNCHANGED <<cache, Sync!srv>> /\ rec' \in Sync!Workers
  BY SyncTypes, SyncIdleFields, SyncMoved
  DEF Sync!AddFinalizer, Sync!RemoveFinalizer, Sync!Done, Sync!Again, Sync!PCs
<1>2. CASE UNCHANGED object
  BY <1>1, <1>2, SyncUnwritten
<1>3. CASE Sync!Fresh /\ Sync!Write(rec.of, [rec.ws EXCEPT !.fin = TRUE])
  <2>1. LET o == [rec.ws EXCEPT !.fin = TRUE]
        IN  o \in Sync!Objects /\ o.status = rec.ws.status /\ o.maps = rec.ws.maps
    BY SyncTypes, SyncMarked
  <2> QED
    BY <1>1, <1>3, <2>1, SyncCopyWritten
<1>4. CASE Sync!Write(rec.of, Sync!Gone)
  BY <1>1, <1>4, SyncTypes, SyncNewFields, SyncNewTruthful, SyncWritten DEF Sync!Write, Sync!srv
<1> QED
  BY <1>2, <1>3, <1>4 DEF Sync!AddFinalizer, Sync!RemoveFinalizer

LEMMA SyncApplyStep ==
    ASSUME Sync!Inv, Sync!Apply
    PROVE  Sync!Inv'
<1> DEFINE o == [rec.ws EXCEPT !.applied = TRUE]
<1>1. UNCHANGED <<cache, Sync!srv>>
  BY DEF Sync!Apply
<1>2. o \in Sync!Objects /\ o.status = rec.ws.status /\ o.maps = rec.ws.maps
  BY SyncTypes, SyncMarked
<1> HIDE DEF o
<1>3. CASE UNCHANGED object /\ rec' = Sync!To("failed")
  BY <1>1, <1>3, SyncTypes, SyncMoved, SyncUnwritten DEF Sync!PCs
<1>4. CASE /\ Sync!Fresh /\ Sync!Write(rec.of, o)
           /\ rec' = [rec EXCEPT !.pc = "notstarted", !.ws = object'[rec.of]]
  <2>1. object'[rec.of] = o
    BY <1>4, SyncTypes DEF Sync!Write
  <2>2. rec' \in Sync!Workers
    BY <1>2, <1>4, <2>1, SyncTypes DEF Sync!Workers, Sync!PCs
  <2> QED
    BY <1>1, <1>2, <1>4, <2>2, SyncCopyWritten
<1> QED
  BY <1>3, <1>4 DEF Sync!Apply, o

LEMMA SyncLastStep ==
    ASSUME Sync!Inv, Sync!UpdateLastSuccessful
    PROVE  Sync!Inv'
<1> DEFINE o == [rec.ws EXCEPT !.last = rec.ws.name]
<1>1. UNCHANGED <<cache, Sync!srv>> /\ rec' \in Sync!Workers
  BY SyncTypes, SyncIdleFields, SyncMoved DEF Sync!UpdateLastSuccessful, Sync!Done, Sync!PCs
<1>2. o \in Sync!Objects /\ o.status = rec.ws.status /\ o.maps = rec.ws.maps
  BY SyncTypes, SyncNamed
<1> HIDE DEF o
<1>3. CASE UNCHANGED object
  BY <1>1, <1>3, SyncUnwritten
<1>4. CASE Sync!Fresh /\ Sync!Write(rec.of, o)
  BY <1>1, <1>2, <1>4, SyncCopyWritten
<1> QED
  BY <1>3, <1>4 DEF Sync!UpdateLastSuccessful, o

\* The worker never reports a completion.
LEMMA SyncStatusStep ==
    ASSUME Sync!Inv, Sync!UpdateWanSyncStatus
    PROVE  Sync!Inv'
<1>1. UNCHANGED <<cache, Sync!srv>> /\ rec' \in Sync!Workers
  BY SyncIdleFields DEF Sync!UpdateWanSyncStatus, Sync!Done, Sync!Again
<1>2. CASE UNCHANGED object
  BY <1>1, <1>2, SyncUnwritten
<1>3. CASE Sync!Fresh /\ \E st \in {"Failed", "Pending", "NotStarted"}, maps \in
               [Maps -> Sync!MapStates] :
               /\ Sync!Write(rec.of, Sync!Told(rec.ws, st, maps))
               /\ \A m \in Maps : maps[m] \in {rec.ws.maps[m], "NotStarted"}
  <2>1. PICK st \in {"Failed", "Pending", "NotStarted"}, maps \in [Maps -> Sync!MapStates] :
               /\ Sync!Write(rec.of, Sync!Told(rec.ws, st, maps))
               /\ \A m \in Maps : maps[m] \in {rec.ws.maps[m], "NotStarted"}
    BY <1>3
  <2>2. st \in Sync!Statuses
    BY DEF Sync!Statuses, Sync!MapStates
  <2>3. Sync!Told(rec.ws, st, maps) \in Sync!Objects /\ Sync!Told(rec.ws, st, maps).status = st
        /\ Sync!Told(rec.ws, st, maps).maps = maps
    BY <2>2, SyncTypes, SyncTelling
  <2>4. Sync!Truthful(rec.ws, flag)
    BY <1>3, SyncTypes DEF Sync!Inv, Sync!TruthInv, Sync!Fresh
  <2>5. Sync!Truthful(Sync!Told(rec.ws, st, maps), flag)
    BY <2>1, <2>3, <2>4 DEF Sync!Truthful
  <2> QED
    BY <1>1, <2>1, <2>3, <2>5, SyncTypes, SyncWritten DEF Sync!Write, Sync!srv
<1>4. CASE Sync!Fresh /\ ~UNCHANGED object
  <2> DEFINE st == CASE rec.pc = "failed" -> "Failed"
                     [] rec.pc = "pending" -> "Pending"
                     [] rec.pc = "notstarted" -> "NotStarted"
             maps == IF rec.pc = "notstarted"
                     THEN [m \in Maps |-> IF m \in MapsOf[rec.of] THEN "NotStarted"
                                          ELSE rec.ws.maps[m]]
                     ELSE rec.ws.maps
  <2>1. st \in {"Failed", "Pending", "NotStarted"}
    BY DEF Sync!UpdateWanSyncStatus
  <2>2. rec.ws.maps \in [Maps -> Sync!MapStates]
    BY SyncTypes, SyncFields
  <2>3. maps \in [Maps -> Sync!MapStates]
        /\ \A m \in Maps : maps[m] \in {rec.ws.maps[m], "NotStarted"}
    BY <2>2 DEF Sync!MapStates
  <2>4. Sync!Write(rec.of, Sync!Told(rec.ws, st, maps))
    BY <1>4 DEF Sync!UpdateWanSyncStatus, Sync!Told
  <2> HIDE DEF st, maps
  <2> QED
    BY <1>3, <1>4, <2>1, <2>3, <2>4
<1> QED
  BY <1>2, <1>4 DEF Sync!UpdateWanSyncStatus

LEMMA SyncRunStep ==
    ASSUME Sync!Inv, Sync!RunWanSyncJobs
    PROVE  Sync!Inv'
<1>1. UNCHANGED <<object, cache, v5, flag>> /\ rec' \in Sync!Workers
  BY SyncTypes, SyncMoved DEF Sync!RunWanSyncJobs, Sync!kube, Sync!PCs
<1>2. Sync!ToSync(rec.of, rec.ws) \in SUBSET Maps
  BY SyncTypes, SyncAssumption DEF Sync!ToSync
<1>3. v3' \in [Syncs -> SUBSET Maps]
  BY <1>2, SyncTypes DEF Sync!RunWanSyncJobs
<1> QED
  BY <1>1, <1>3 DEF Sync!Inv, Sync!TypeInv, Sync!PollInv, Sync!TruthInv
----------------------------------------------------------------------------
(* The service.                                                            *)

\* A step of the goroutine that writes nothing.
LEMMA SyncWorking ==
    ASSUME Sync!Inv, UNCHANGED <<object, cache, flag, rec>>, v3' \in [Syncs -> SUBSET Maps],
           v5' \in Sync!Jobs, Sync!PollInv'
    PROVE  Sync!Inv'
BY DEF Sync!Inv, Sync!TypeInv, Sync!TruthInv

LEMMA SyncLockStep ==
    ASSUME Sync!Inv, NEW s \in Syncs, Sync!Lock(s) \/ Sync!RangeOver(s)
    PROVE  Sync!Inv'
<1>1. UNCHANGED <<object, cache, flag, rec, v3>>
  BY DEF Sync!Lock, Sync!RangeOver, Sync!kube
<1>2. v5' \in Sync!Jobs /\ v5'.pc \in {"range", "start"}
  <2>1. CASE Sync!Lock(s)
    BY <2>1, SyncNoJobFields DEF Sync!Lock, Sync!Jobs, Sync!JobPCs
  <2>2. CASE Sync!RangeOver(s)
    <3>1. v3[s] \in SUBSET Maps
      BY SyncTypes
    <3> QED
      BY <2>2, <3>1, SyncTypes DEF Sync!RangeOver, Sync!Jobs, Sync!JobPCs
  <2> QED
    BY <2>1, <2>2
<1>3. Sync!PollInv'
  BY <1>2 DEF Sync!PollInv
<1> QED
  BY <1>1, <1>2, <1>3, SyncTypes, SyncWorking

LEMMA SyncUnlockStep ==
    ASSUME Sync!Inv, Sync!Unlock \/ Sync!DropRequests
    PROVE  Sync!Inv'
<1>1. UNCHANGED <<object, cache, flag, rec>>
  BY DEF Sync!Unlock, Sync!DropRequests, Sync!kube
<1>2. v3' \in [Syncs -> SUBSET Maps]
  BY SyncTypes DEF Sync!Unlock, Sync!DropRequests
<1>3. Sync!NoJob.key \in Syncs /\ Sync!NoJob.map \in Maps /\ Sync!NoJob.answer \in Sync!Answers
  BY SyncNoJobFields DEF Sync!Jobs
<1>4. v5' \in Sync!Jobs /\ v5'.pc \in {"none", "range"}
  <2>1. CASE Sync!Unlock
    BY <2>1, SyncNoJobFields DEF Sync!Unlock
  <2>2. CASE Sync!DropRequests
    BY <1>3, <2>2, SyncTypes DEF Sync!DropRequests, Sync!Jobs, Sync!JobPCs
  <2> QED
    BY <2>1, <2>2
<1>5. Sync!PollInv'
  BY <1>4 DEF Sync!PollInv
<1> QED
  BY <1>1, <1>2, <1>4, <1>5, SyncWorking

\* stateEventUpdate writes what is true of the map, and says of the object that
\* it is completed only if its maps are.
LEMMA SyncReportStep ==
    ASSUME Sync!Inv, NEW m \in Maps, NEW p \in {"Pending", "Failed", "Completed"},
           p = "Completed" => flag[m] = Members, Sync!Report(m, p),
           UNCHANGED <<cache, v3, flag, rec>>, v5' \in Sync!Jobs, Sync!PollInv'
    PROVE  Sync!Inv'
<1>1. CASE UNCHANGED object
  BY <1>1, SyncTypes, SyncWorking
<1>2. CASE ~UNCHANGED object
  <2> DEFINE s == v5.who
             maps == [object[s].maps EXCEPT ![m] = p]
  <2>1. object[s] \in Sync!Objects /\ object[s].maps \in [Maps -> Sync!MapStates] /\ s \in Syncs
    BY SyncTypes, SyncFields
  <2>2. maps \in [Maps -> Sync!MapStates] /\ maps[m] = p
        /\ \A n \in Maps : n # m => maps[n] = object[s].maps[n]
    BY <2>1 DEF Sync!MapStates
  <2>3. PICK st \in Sync!Overall(maps, p) :
            object' = [object EXCEPT ![s] = [object[s] EXCEPT !.maps = maps, !.status = st]]
    BY <1>2 DEF Sync!Report, Sync!Write
  <2> HIDE DEF s, maps
  <2>4. st \in Sync!MapStates
    BY <2>2, <2>3 DEF Sync!Overall, Sync!MapStates
  <2>5. st \in Sync!Statuses
    BY <2>4 DEF Sync!Statuses
  <2>6. st = "Completed" => \A n \in Maps : maps[n] \in {"none", "Completed"}
    BY <2>2, <2>3 DEF Sync!Overall
  <2> DEFINE o == [object[s] EXCEPT !.maps = maps, !.status = st]
  <2>7. o \in Sync!Objects /\ o.maps = maps /\ o.status = st
    BY <2>1, <2>2, <2>5 DEF Sync!Objects
  <2> HIDE DEF o
  <2>8. Sync!Truthful(object[s], flag)
    BY <2>1 DEF Sync!Inv, Sync!TruthInv
  <2>9. \A n \in Maps : maps[n] = "Completed" => flag[n] = Members
    BY <2>2, <2>8 DEF Sync!Truthful
  <2>10. Sync!Truthful(o, flag)
    BY <2>6, <2>7, <2>9 DEF Sync!Truthful
  <2>11. object' = [object EXCEPT ![s] = o]
    BY <2>3 DEF o
  <2>12. object' \in [Syncs -> Sync!Objects] /\ \A t \in Syncs : object'[t] \in {object[t], o}
    BY <2>1, <2>7, <2>11, SyncTypes
  <2>13. Sync!TypeInv'
    BY <2>12, SyncTypes DEF Sync!TypeInv
  <2>14. Sync!TruthInv'
    BY <2>10, <2>12 DEF Sync!Inv, Sync!TruthInv
  <2> QED
    BY <2>13, <2>14 DEF Sync!Inv
<1> QED
  BY <1>1, <1>2

LEMMA SyncStartStep ==
    ASSUME Sync!Inv, NEW m \in Maps, Sync!Start(m)
    PROVE  Sync!Inv'
<1>1. UNCHANGED <<cache, v3, flag, rec>> /\ Sync!Report(m, "Pending")
  BY DEF Sync!Start
<1>2. v5' \in Sync!Jobs /\ v5'.pc = "send"
  BY SyncTypes DEF Sync!Start, Sync!Jobs, Sync!JobPCs
<1>3. Sync!PollInv'
  BY <1>2 DEF Sync!PollInv
<1> QED
  BY <1>1, <1>2, <1>3, SyncReportStep

LEMMA SyncSendStep ==
    ASSUME Sync!Inv, Sync!Send
    PROVE  Sync!Inv'
<1>1. UNCHANGED <<object, cache, v3, flag, rec>>
  BY DEF Sync!Send, Sync!kube
<1>2. CASE v5' = [v5 EXCEPT !.pc = "poll", !.answer = Sync!NoJob.answer]
  <2>1. Sync!NoJob.answer = [x \in Members |-> "wait"]
    BY DEF Sync!NoJob
  <2>2. Sync!NoJob.answer \in Sync!Answers
    BY SyncNoJobFields DEF Sync!Jobs
  <2>3. v5' \in Sync!Jobs /\ v5'.pc = "poll" /\ v5'.answer = Sync!NoJob.answer
    BY <1>2, <2>2, SyncTypes DEF Sync!Jobs, Sync!JobPCs
  <2>4. Sync!PollInv'
    BY <2>1, <2>3 DEF Sync!PollInv
  <2> QED
    BY <1>1, <2>3, <2>4, SyncTypes, SyncWorking
<1>3. CASE v5' = [v5 EXCEPT !.pc = "report", !.answer = [x \in Members |-> "ignored"]]
  <2>1. [x \in Members |-> "ignored"] \in Sync!Answers
    BY DEF Sync!Answers
  <2>2. v5' \in Sync!Jobs /\ v5'.pc = "report" /\ v5'.answer = [x \in Members |-> "ignored"]
    BY <1>3, <2>1, SyncTypes DEF Sync!Jobs, Sync!JobPCs
  <2>3. Sync!PollInv'
    BY <2>2 DEF Sync!PollInv
  <2> QED
    BY <1>1, <2>2, <2>3, SyncTypes, SyncWorking
<1> QED
  BY <1>2, <1>3 DEF Sync!Send

LEMMA SyncWaitStep ==
    ASSUME Sync!Inv, NEW x \in Members, Sync!WaitMember(x)
    PROVE  Sync!Inv'
<1>1. UNCHANGED <<object, cache, v3, rec>> /\ v5.pc = "poll"
  BY DEF Sync!WaitMember, Sync!kube
<1>2. PICK a \in {"finished", "ignored"} :
        /\ v5' = [v5 EXCEPT !.answer = [v5.answer EXCEPT ![x] = a]]
        /\ a = "finished" => flag' = [flag EXCEPT ![v5.map] = flag[v5.map] \cup {x}]
        /\ a = "ignored" => flag' = flag
  BY DEF Sync!WaitMember
<1>3. [v5.answer EXCEPT ![x] = a] \in Sync!Answers
  BY SyncTypes DEF Sync!Answers
<1>4. /\ v5' \in Sync!Jobs /\ v5'.pc = "poll" /\ v5'.map = v5.map
      /\ v5'.answer = [v5.answer EXCEPT ![x] = a]
  BY <1>1, <1>2, <1>3, SyncTypes DEF Sync!Jobs
<1>5. /\ flag' \in [Maps -> SUBSET Members]
      /\ \A m \in Maps : flag[m] \subseteq flag'[m]
      /\ a = "finished" => x \in flag'[v5.map]
  BY <1>2, SyncTypes
<1>6. \A y \in Members : v5'.answer[y] = "finished" => y \in flag'[v5'.map]
  <2>1. \A y \in Members : v5'.answer[y] = IF y = x THEN a ELSE v5.answer[y]
    BY <1>4, SyncTypes DEF Sync!Answers
  <2>2. \A y \in Members : v5.answer[y] = "finished" => y \in flag[v5.map]
    BY <1>1 DEF Sync!Inv, Sync!PollInv
  <2> QED
    BY <1>4, <1>5, <2>1, <2>2, SyncTypes
<1>7. Sync!TypeInv' /\ Sync!PollInv'
  BY <1>1, <1>4, <1>5, <1>6, SyncTypes DEF Sync!TypeInv, Sync!PollInv
<1>8. Sync!TruthInv'
  BY <1>1, <1>5, SyncTypes, SyncStillTruthful DEF Sync!Inv, Sync!TruthInv
<1> QED
  BY <1>7, <1>8 DEF Sync!Inv

\* The map has failed if a member ignored the request; if none did, each has
\* finished.
LEMMA SyncFinishStep ==
    ASSUME Sync!Inv, Sync!Finish
    PROVE  Sync!Inv'
<1>1. /\ UNCHANGED <<cache, v3, flag, rec>> /\ v5.pc \in {"poll", "report"}
      /\ Sync!Report(v5.map, Sync!FinishEvent(v5.answer))
      /\ \A x \in Members : v5.answer[x] # "wait"
  BY DEF Sync!Finish
<1>2. v5' \in Sync!Jobs /\ v5'.pc \in {"delete", "start"}
  BY SyncTypes DEF Sync!Finish, Sync!Jobs, Sync!JobPCs
<1>3. Sync!PollInv'
  BY <1>2 DEF Sync!PollInv
<1>4. Sync!FinishEvent(v5.answer) \in {"Pending", "Failed", "Completed"}
  BY DEF Sync!FinishEvent
<1>5. Sync!FinishEvent(v5.answer) = "Completed" => flag[v5.map] = Members
  <2> SUFFICES ASSUME Sync!FinishEvent(v5.answer) = "Completed" PROVE flag[v5.map] = Members
    OBVIOUS
  <2>1. \A x \in Members : v5.answer[x] # "ignored"
    BY DEF Sync!FinishEvent
  <2>2. \A x \in Members : v5.answer[x] = "finished"
    BY <1>1, <2>1, SyncTypes DEF Sync!Answers
  <2>3. \A x \in Members : x \in flag[v5.map]
    BY <1>1, <2>1, <2>2 DEF Sync!Inv, Sync!PollInv
  <2> QED
    BY <2>3, SyncTypes
<1> QED
  BY <1>1, <1>2, <1>3, <1>4, <1>5, SyncTypes, SyncReportStep

----------------------------------------------------------------------------
(* The theorem.                                                            *)

LEMMA SyncInitInv ==
    ASSUME Sync!Init
    PROVE  Sync!Inv
<1>1. Sync!TypeInv
  BY SyncNewFields, SyncIdleFields, SyncNoJobFields DEF Sync!Init, Sync!TypeInv
<1>2. Sync!PollInv
  BY SyncNoJobFields DEF Sync!Init, Sync!PollInv
<1>3. Sync!TruthInv
  BY SyncNewTruthful DEF Sync!Init, Sync!TruthInv
<1> QED
  BY <1>1, <1>2, <1>3 DEF Sync!Inv

LEMMA SyncNextInv ==
    ASSUME Sync!Inv, [Sync!Next]_(Sync!vars)
    PROVE  Sync!Inv'
<1>1. CASE UNCHANGED Sync!vars
  BY <1>1, SyncTypes, SyncUnwritten DEF Sync!vars, Sync!kube
<1>2. CASE \E s \in Syncs : Sync!Rename(s) \/ Sync!Delete(s)
  BY <1>2, SyncRenameStep, SyncDeleteStep
<1>3. CASE Sync!Worker
  BY <1>3, SyncReconcileStep, SyncFinalizerStep, SyncStatusStep, SyncApplyStep, SyncRunStep,
     SyncLastStep
  DEF Sync!Worker
<1>4. CASE Sync!Service
  BY <1>4, SyncLockStep, SyncStartStep, SyncWaitStep, SyncSendStep, SyncFinishStep,
     SyncUnlockStep
  DEF Sync!Service
<1> QED
  BY <1>1, <1>2, <1>3, <1>4, SyncRestartStep, SyncWorldStep DEF Sync!Next

\* A map is reported as completed only when every member has synchronized it
\* (waitWanSyncToFinish, stateEventUpdate), and an object only when all of its
\* maps that have a status are (updateWanSyncMapStatus).
THEOREM Completed == JobSpec => []CompletedIsSynced
<1> DEFINE I == which = "sync" => Sync!Inv
<1>1. JobInit => I
  BY SyncInitInv DEF JobInit, CronInit, SyncInit
<1>2. I /\ [JobNext]_vars => I'
  <2> SUFFICES ASSUME I, [JobNext]_vars, which' = "sync" PROVE Sync!Inv'
    OBVIOUS
  <2>1. which = "sync"
    BY DEF JobNext, vars, CronStep, SyncStep
  <2>2. CASE Sync!Next
    BY <2>1, <2>2, SyncNextInv
  <2>3. CASE UNCHANGED Sync!vars
    BY <2>1, <2>3, SyncNextInv
  <2>4. Sync!Next \/ UNCHANGED Sync!vars
    BY <2>1 DEF JobNext, vars, slots, Sync!vars, Sync!kube, Sync!srv,
                CronStep, SyncStep
  <2> QED
    BY <2>2, <2>3, <2>4
<1>3. I => CompletedIsSynced
  BY DEF CompletedIsSynced, Sync!CompletedIsSynced, Sync!Inv, Sync!TruthInv, Sync!Truthful
<1> QED
  BY <1>1, <1>2, <1>3, PTL DEF JobSpec

============================================================================
