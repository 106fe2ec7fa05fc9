------------------------ MODULE DataStructure_proofs ------------------------
(***************************************************************************)
(* The controllers of the data structures and of the maps implement        *)
(* AppliedConfig, and what they take for applied every member has got, for *)
(* every set of members and any number of edits, failures and restarts.    *)
(*                                                                         *)
(* The worker may go on with a copy that is not stored, since conflicts    *)
(* are swallowed.  The invariant says what the copy and the version it was *)
(* read as still share: the spec, always, and until the annotation is      *)
(* written that this spec may be applied.  A write that is accepted then   *)
(* says of the object what was found out about the copy.                   *)
(***************************************************************************)
EXTENDS MCDataStructures, TLAPS

Workers == [pc: PCs, ds: Objects, base: Objects, todo: SUBSET UUIDs,
            acked: SUBSET UUIDs, failed: BOOLEAN]

\* There is an edit for every spec after the first, and a mishap for every
\* restart of a member.
EditInv == ds.spec <= edits + 1

RestartInv == \A m \in Members : restarts[m] <= mishaps

IsLive(o) == o.live

CopyInv ==
    /\ rec.pc # "idle" => IsLive(rec.base) /\ rec.ds.spec = rec.base.spec
    /\ rec.pc \in {"finalizer", "setup", "terminating"} => rec.ds = rec.base
    /\ rec.pc \in {"send", "validate", "annotate"} => Admissible(rec.base.ann, rec.base.spec)

\* The members of s that have not restarted since n have a configuration.
Confirmed(s, c, n) == \A m \in Members : n[m] = 0 /\ <<m, 0>> \in s => c[m] # None

\* Every member has a configuration, or started from the Secret.
Everywhere(c, n) == \A m \in Members : n[m] = 0 => c[m] # None

AckInv ==
    /\ Confirmed(ds.acked, conf, restarts) /\ Confirmed(cache.acked, conf, restarts)
    /\ Confirmed(rec.ds.acked, conf, restarts) /\ Confirmed(rec.base.acked, conf, restarts)
    /\ Confirmed(rec.acked, conf, restarts)

SentInv ==
    /\ rec.pc = "send" /\ ~rec.failed =>
           \A m \in Members : restarts[m] = 0 => <<m, 0>> \in rec.todo \cup rec.acked
    /\ rec.pc \in {"validate", "annotate"} => Everywhere(conf, restarts)

Inv == TypeOK /\ EditInv /\ RestartInv /\ CopyInv /\ AckInv /\ SentInv /\ AppliedOnMembers

----------------------------------------------------------------------------
(* What the writes make of an object.                                      *)

\* What the abstract specification sees of an object.
Same(o, p) == p.live = o.live /\ p.spec = o.spec /\ p.ann = o.ann

LEMMA Numbers ==
    /\ None \notin Specs /\ 1 \in Specs /\ Specs \subseteq Nat
    /\ \A n \in 0..MaxEdits : n + 1 \in Specs
BY ConstantsAssumption DEF None, Specs

LEMMA Fields ==
    ASSUME NEW o \in Objects
    PROVE  /\ o.live \in BOOLEAN /\ o.fin \in BOOLEAN /\ o.deleting \in BOOLEAN
           /\ o.state \in States /\ o.acked \in SUBSET UUIDs
BY DEF Objects

LEMMA Versions ==
    ASSUME NEW o \in Objects
    PROVE  o.spec \in Specs /\ o.ann \in Specs \cup {None}
BY DEF Objects

LEMMA NewFields == New \in Objects /\ New.spec = 1 /\ New.ann = None /\ New.acked = {}
BY Numbers DEF New, Objects, States

LEMMA NewLives == New.live = TRUE
BY DEF New

LEMMA GoneFields == Gone \in Objects /\ Gone.spec = 1 /\ Gone.ann = None /\ Gone.acked = {}
BY NewFields, Zenon DEF Gone, New, Objects

LEMMA GoneIsGone == Gone.live = FALSE
BY DEF Gone, New

LEMMA Edited ==
    ASSUME NEW o \in Objects, o.spec + 1 \in Specs
    PROVE  LET e == [o EXCEPT !.spec = @ + 1]
           IN  e \in Objects /\ e.spec = o.spec + 1 /\ e.ann = o.ann /\ e.acked = o.acked
BY DEF Objects

LEMMA EditedLives ==
    ASSUME NEW o \in Objects
    PROVE  [o EXCEPT !.spec = @ + 1].live = o.live
BY DEF Objects

\* The finalizer, the deletion and the state leave the rest alone.
LEMMA Marked ==
    ASSUME NEW o \in Objects, NEW s \in States,
           NEW e \in {[o EXCEPT !.deleting = TRUE], [o EXCEPT !.fin = TRUE],
                      [o EXCEPT !.state = s]}
    PROVE  e \in Objects /\ Same(o, e) /\ e.acked = o.acked
BY Zenon DEF Objects, Same

Stated(o, s, a) == [o EXCEPT !.state = s, !.acked = a]

LEMMA Reporting ==
    ASSUME NEW o \in Objects, NEW s \in States, NEW a \in SUBSET UUIDs
    PROVE  /\ Stated(o, s, a) \in Objects /\ Same(o, Stated(o, s, a))
           /\ Stated(o, s, a).acked = a
BY Zenon DEF Objects, Same, Stated

LEMMA Annotated ==
    ASSUME NEW o \in Objects, NEW s \in Specs
    PROVE  LET e == [o EXCEPT !.ann = s]
           IN  e \in Objects /\ e.spec = o.spec /\ e.ann = s /\ e.acked = o.acked
BY DEF Objects

LEMMA AnnotatedLives ==
    ASSUME NEW o \in Objects, NEW s \in Specs
    PROVE  [o EXCEPT !.ann = s].live = o.live
BY DEF Objects

LEMMA IdleFields ==
    Idle \in Workers /\ Idle.pc = "idle" /\ Idle.ds = Gone /\ Idle.base = Gone /\ Idle.acked = {}
BY GoneFields DEF Idle, Workers, PCs

LEMMA UUIDFields == \A m \in Members : 0..MaxMishaps # {} /\ <<m, 0>> \in UUIDs
BY ConstantsAssumption DEF UUIDs

----------------------------------------------------------------------------
(* The steps that several actions share.                                   *)

LEMMA Counted ==
    ASSUME mishaps \in 0..MaxMishaps, Fault \/ NoFault
    PROVE  mishaps' \in mishaps..MaxMishaps
BY ConstantsAssumption DEF Fault, NoFault

LEMMA Bounded ==
    ASSUME Inv, mishaps' \in mishaps..MaxMishaps, UNCHANGED restarts
    PROVE  mishaps' \in 0..MaxMishaps /\ RestartInv'
<1>1. mishaps \in 0..MaxMishaps /\ restarts \in [Members -> 0..MaxMishaps]
  BY DEF Inv, TypeOK
<1> QED
  BY <1>1, ConstantsAssumption DEF Inv, RestartInv

LEMMA Queued ==
    ASSUME queued \in BOOLEAN, NEW q \in BOOLEAN, IF q THEN Requeue ELSE Forget
    PROVE  queued' \in BOOLEAN
BY Zenon DEF Requeue, Forget

LEMMA Moved ==
    ASSUME NEW r \in Workers, NEW pc \in PCs
    PROVE  LET e == [r EXCEPT !.pc = pc]
           IN  /\ e \in Workers /\ e.pc = pc /\ e.ds = r.ds /\ e.base = r.base
               /\ e.todo = r.todo /\ e.acked = r.acked
BY DEF Workers

With(r, d, b) == [r EXCEPT !.ds = d, !.base = b]

LEMMA Renewed ==
    ASSUME NEW r \in Workers, NEW d \in Objects, NEW b \in Objects
    PROVE  LET e == With(r, d, b)
           IN  /\ e \in Workers /\ e.pc = r.pc /\ e.ds = d /\ e.base = b
               /\ e.todo = r.todo /\ e.acked = r.acked
BY Zenon DEF Workers, With

\* The worker goes on as after says, with a copy and a version of it that differ
\* from the ones it had in the state and the member statuses.
GoesOn(after, a) ==
    \E d \in Objects, b \in Objects :
        /\ rec' = With(after, d, b)
        /\ Same(rec.base, b) /\ (Same(rec.base, d) \/ Same(rec.ds, d))
        /\ d.acked = a /\ b.acked \in {a, rec.base.acked}

\* updateDSStatus: what is stored differs from what was stored in the state and
\* the member statuses only, and so do the copy and its version.
LEMMA StatusUpdated ==
    ASSUME TypeOK, NEW s \in States, NEW a \in SUBSET UUIDs, NEW after \in Workers,
           NEW q \in BOOLEAN, NEW e \in BOOLEAN, UpdateStatus(s, a, after, q, e)
    PROVE  /\ ds' \in Objects /\ Same(ds, ds') /\ ds'.acked \in {ds.acked, a}
           /\ rec' \in Workers /\ queued' \in BOOLEAN /\ mishaps' \in mishaps..MaxMishaps
           /\ \/ rec' = Idle
              \/ after.pc # "idle" /\ GoesOn(after, a)
<1> DEFINE stored == Stated(rec.base, s, a)
           copy   == Stated(rec.ds, s, a)
           goOn(d, b) == rec' = IF after.pc = "idle" THEN Idle
                                ELSE With(after, d, b)
<1>1. rec \in Workers /\ rec.base \in Objects /\ rec.ds \in Objects /\ ds \in Objects
  BY DEF TypeOK, Workers
<1>2. stored \in Objects /\ Same(rec.base, stored) /\ stored.acked = a
  BY <1>1, Reporting
<1>3. copy \in Objects /\ Same(rec.ds, copy) /\ copy.acked = a
  BY <1>1, Reporting
<1>4. queued \in BOOLEAN /\ mishaps \in 0..MaxMishaps
  BY DEF TypeOK
<1>5. Same(rec.base, rec.base) /\ Same(ds, ds)
  BY DEF Same
<1> HIDE DEF stored, copy
<1>6. CASE ~Conflict /\ NoFault /\ ds' = stored /\ goOn(stored, stored)
           /\ (IF q THEN Requeue ELSE Forget)
  <2>1. rec.base = ds
    BY <1>6 DEF Conflict
  <2>2. queued' \in BOOLEAN /\ mishaps' \in mishaps..MaxMishaps
    BY <1>4, <1>6, Queued, Counted
  <2>3. With(after, stored, stored) \in Workers
    BY <1>2, Renewed
  <2> QED
    BY <1>2, <1>6, <2>1, <2>2, <2>3, IdleFields DEF GoesOn
<1>7. CASE Conflict /\ NoFault /\ goOn(copy, rec.base) /\ UNCHANGED ds /\ Forget
  <2>1. queued' \in BOOLEAN /\ mishaps' \in mishaps..MaxMishaps
    BY <1>4, <1>7, Counted DEF Forget
  <2>2. With(after, copy, rec.base) \in Workers
    BY <1>1, <1>3, Renewed, Zenon
  <2> QED
    BY <1>1, <1>3, <1>5, <1>7, <2>1, <2>2, IdleFields DEF GoesOn
<1>8. CASE Fault /\ rec' = Idle /\ (IF e THEN Requeue ELSE Forget) /\ UNCHANGED ds
  <2>1. queued' \in BOOLEAN /\ mishaps' \in mishaps..MaxMishaps
    BY <1>4, <1>8, Queued, Counted
  <2> QED
    BY <1>1, <1>5, <1>8, <2>1, IdleFields
<1> QED
  BY <1>6, <1>7, <1>8 DEF UpdateStatus, With, Stated, stored, copy

\* A failure is reported in the state only.
LEMMA FailureReported ==
    ASSUME ds \in Objects, NEW s \in States, Reported(s)
    PROVE  ds' \in Objects /\ Same(ds, ds') /\ ds'.acked = ds.acked
<1>1. CASE ds' = ds
  BY <1>1 DEF Same
<1>2. CASE ds' = [ds EXCEPT !.state = s]
  BY <1>2, Marked, Zenon
<1> QED
  BY <1>1, <1>2 DEF Reported

----------------------------------------------------------------------------
(* What is left to show of a step of the worker.                           *)

AbstractStep == [Applied!Next]_(Applied!vars)

\* A worker that stops has nothing left to be right about.
LEMMA Stopped ==
    ASSUME rec' = Idle
    PROVE  /\ rec' \in Workers /\ CopyInv' /\ SentInv'
           /\ Confirmed(rec'.ds.acked, conf, restarts) /\ Confirmed(rec'.base.acked, conf, restarts)
           /\ Confirmed(rec'.acked, conf, restarts)
<1>1. Confirmed({}, conf, restarts)
  BY DEF Confirmed
<1>2. CopyInv'
  BY IdleFields DEF CopyInv
<1>3. SentInv'
  BY IdleFields DEF SentInv
<1> QED
  BY <1>1, <1>2, <1>3, IdleFields, GoneFields

\* A step that keeps what the abstract specification sees.
LEMMA Unseen ==
    ASSUME Inv, Kept, ds' \in Objects, Same(ds, ds'), rec' \in Workers,
           queued' \in BOOLEAN, mishaps' \in mishaps..MaxMishaps, CopyInv', SentInv',
           Confirmed(ds'.acked, conf, restarts), Confirmed(rec'.ds.acked, conf, restarts),
           Confirmed(rec'.base.acked, conf, restarts), Confirmed(rec'.acked, conf, restarts)
    PROVE  Inv' /\ AbstractStep
<1>1. UNCHANGED <<cache, cluster, conf, restarts, secret, secretCache, hz, edits>>
  BY DEF Kept, members, config
<1>b. mishaps' \in 0..MaxMishaps /\ RestartInv'
  BY <1>1, Bounded
<1>2. TypeOK'
  BY <1>1, <1>b DEF Inv, TypeOK, Workers
<1>3. ds'.spec = ds.spec /\ ds'.ann = ds.ann
  BY DEF Same
<1>4. EditInv'
  BY <1>1, <1>3 DEF Inv, EditInv
<1>5. AckInv'
  BY <1>1 DEF Inv, AckInv
<1>6. AppliedOnMembers'
  BY <1>1, <1>3 DEF Inv, AppliedOnMembers
<1>7. AbstractStep
  BY DEF AbstractStep, Applied!vars, Same
<1> QED
  BY <1>b, <1>2, <1>4, <1>5, <1>6, <1>7 DEF Inv

\* A status update that ends the reconciliation.
LEMMA StatusAndStop ==
    ASSUME Inv, Kept, NEW s \in States, NEW a \in SUBSET UUIDs, Confirmed(a, conf, restarts),
           NEW q \in BOOLEAN, NEW e \in BOOLEAN, UpdateStatus(s, a, Idle, q, e)
    PROVE  Inv' /\ AbstractStep
<1>1. TypeOK /\ Confirmed(ds.acked, conf, restarts)
  BY DEF Inv, AckInv
<1>2. /\ ds' \in Objects /\ Same(ds, ds') /\ ds'.acked \in {ds.acked, a}
      /\ queued' \in BOOLEAN /\ mishaps' \in mishaps..MaxMishaps
  BY <1>1, StatusUpdated, IdleFields
<1>3. Confirmed(ds'.acked, conf, restarts)
  BY <1>1, <1>2
<1>4. rec' = Idle
  BY IdleFields DEF UpdateStatus
<1> QED
  BY <1>2, <1>3, <1>4, Stopped, Unseen

\* A status update after which the reconciliation goes on from the setup or
\* from the calls of the members.
LEMMA StatusAndOn ==
    ASSUME Inv, Kept, rec.pc \in {"setup", "send"}, NEW s \in States,
           NEW a \in SUBSET UUIDs, Confirmed(a, conf, restarts),
           NEW after \in Workers, after.pc \in {"send", "validate"},
           Confirmed(after.acked, conf, restarts),
           Admissible(rec.base.ann, rec.base.spec),
           after.pc = "send" =>
               \A m \in Members : restarts[m] = 0 => <<m, 0>> \in after.todo \cup after.acked,
           after.pc = "validate" => Everywhere(conf, restarts),
           NEW q \in BOOLEAN, NEW e \in BOOLEAN, UpdateStatus(s, a, after, q, e)
    PROVE  Inv' /\ AbstractStep
<1>1. TypeOK /\ CopyInv /\ Confirmed(ds.acked, conf, restarts)
      /\ Confirmed(rec.base.acked, conf, restarts)
  BY DEF Inv, AckInv
<1>2. /\ ds' \in Objects /\ Same(ds, ds') /\ ds'.acked \in {ds.acked, a}
      /\ rec' \in Workers /\ queued' \in BOOLEAN /\ mishaps' \in mishaps..MaxMishaps
  BY <1>1, StatusUpdated
<1>3. Confirmed(ds'.acked, conf, restarts)
  BY <1>1, <1>2
<1>4. CASE rec' = Idle
  BY <1>2, <1>3, <1>4, Stopped, Unseen
<1>5. CASE GoesOn(after, a)
  <2>1. PICK d \in Objects, b \in Objects :
             /\ rec' = With(after, d, b)
             /\ Same(rec.base, b) /\ (Same(rec.base, d) \/ Same(rec.ds, d))
             /\ d.acked = a /\ b.acked \in {a, rec.base.acked}
    BY <1>5 DEF GoesOn
  <2>2. /\ rec'.pc = after.pc /\ rec'.ds = d /\ rec'.base = b
        /\ rec'.todo = after.todo /\ rec'.acked = after.acked
    BY <2>1, Renewed
  <2>3. IsLive(rec.base) /\ rec.ds.spec = rec.base.spec
    BY <1>1 DEF CopyInv
  <2>4. IsLive(b)
    BY <2>1, <2>3 DEF IsLive, Same
  <2>5. b.spec = rec.base.spec /\ b.ann = rec.base.ann /\ d.spec = b.spec
    BY <2>1, <2>3 DEF Same
  <2>6. CopyInv'
    BY <2>2, <2>4, <2>5 DEF CopyInv
  <2>7. UNCHANGED <<conf, restarts>>
    BY DEF Kept, members
  <2>8. SentInv'
    BY <2>2, <2>7, Zenon DEF SentInv
  <2>9. /\ Confirmed(rec'.ds.acked, conf, restarts) /\ Confirmed(rec'.acked, conf, restarts)
        /\ Confirmed(rec'.base.acked, conf, restarts)
    BY <1>1, <2>1, <2>2
  <2> QED
    BY <1>2, <1>3, <2>6, <2>8, <2>9, Unseen
<1>6. rec' = Idle \/ GoesOn(after, a)
  BY <1>1, StatusUpdated
<1> QED
  BY <1>4, <1>5, <1>6

----------------------------------------------------------------------------
(* The user, the caches, the cluster and the restarts.                     *)

LEMMA EditStep == Inv /\ Edit => Inv' /\ AbstractStep
<1> SUFFICES ASSUME Inv, Edit PROVE Inv' /\ AbstractStep
  OBVIOUS
<1> DEFINE e == [ds EXCEPT !.spec = @ + 1]
<1>1. UNCHANGED <<cache, queued, cluster, conf, restarts, secret, secretCache, hz, rec, mishaps>>
  BY DEF Edit, members, config
<1>2. ds \in Objects /\ edits \in 0..MaxEdits /\ edits' = edits + 1 /\ edits < MaxEdits
  BY DEF Inv, TypeOK, Edit
<1>3. ds.spec \in Nat /\ ds.spec <= edits + 1 /\ ds.spec \in Specs
  BY <1>2, Versions, Numbers, Zenon DEF Inv, EditInv
<1>4. ds.spec + 1 \in Specs /\ edits' \in 0..MaxEdits /\ ds.spec + 1 <= edits' + 1
  BY <1>2, <1>3, ConstantsAssumption DEF Specs
<1>5. e \in Objects /\ e.spec = ds.spec + 1 /\ e.ann = ds.ann /\ e.acked = ds.acked
  BY <1>2, <1>4, Edited
<1>6. e.live = ds.live /\ ds.live
  BY <1>2, EditedLives, Zenon DEF Edit
<1>7. ds' = e
  BY DEF Edit
<1> HIDE DEF e
<1>8. TypeOK'
  BY <1>1, <1>4, <1>5, <1>7 DEF Inv, TypeOK
<1>9. EditInv'
  BY <1>4, <1>5, <1>7 DEF EditInv
<1>10. CopyInv' /\ SentInv' /\ RestartInv'
  BY <1>1 DEF Inv, CopyInv, SentInv, RestartInv
<1>11. AckInv'
  BY <1>1, <1>5, <1>7 DEF Inv, AckInv
<1>12. AppliedOnMembers'
  BY <1>1, <1>5, <1>7 DEF Inv, AppliedOnMembers
<1>13. ds'.spec \in Specs /\ ds'.ann = ds.ann
  BY <1>4, <1>5, <1>7
<1>14. Applied!Edit
  BY <1>6, <1>7, <1>13, Zenon DEF Applied!Edit
<1> QED
  BY <1>8, <1>9, <1>10, <1>11, <1>12, <1>14 DEF Inv, AbstractStep, Applied!Next

\* The object is removed from the API server.
LEMMA Removed ==
    ASSUME Inv, IsLive(ds), ds' = Gone
    PROVE  AbstractStep /\ (UNCHANGED edits => EditInv') /\ AppliedOnMembers'
<1>1. ds'.spec \in Specs /\ ds'.ann = None /\ ds'.spec = 1
  BY GoneFields, Numbers
<1>2. Applied!Remove
  BY <1>1, GoneIsGone DEF Applied!Remove, IsLive
<1>3. UNCHANGED edits => EditInv'
  BY <1>1, ConstantsAssumption DEF Inv, TypeOK, EditInv
<1> QED
  BY <1>1, <1>2, <1>3 DEF AppliedOnMembers, AbstractStep, Applied!Next

LEMMA DeleteStep == Inv /\ Delete => Inv' /\ AbstractStep
<1> SUFFICES ASSUME Inv, Delete PROVE Inv' /\ AbstractStep
  OBVIOUS
<1>1. UNCHANGED <<cache, queued, cluster, conf, restarts, secret, secretCache, hz, rec,
                  edits, mishaps>>
  BY DEF Delete, members, config, count
<1>2. ds \in Objects
  BY DEF Inv, TypeOK
<1>3. CopyInv' /\ SentInv' /\ RestartInv'
  BY <1>1 DEF Inv, CopyInv, SentInv, RestartInv
<1>4. CASE ds' = [ds EXCEPT !.deleting = TRUE]
  <2>1. ds' \in Objects /\ Same(ds, ds') /\ ds'.acked = ds.acked
    BY <1>2, <1>4, Marked, Zenon DEF States
  <2>2. ds'.spec = ds.spec /\ ds'.ann = ds.ann
    BY <2>1, Zenon DEF Same
  <2>3. TypeOK' /\ AckInv'
    BY <1>1, <2>1, Zenon DEF Inv, TypeOK, AckInv
  <2>4. EditInv' /\ AppliedOnMembers'
    BY <1>1, <2>2 DEF Inv, EditInv, AppliedOnMembers
  <2>5. AbstractStep
    BY <2>1 DEF AbstractStep, Applied!vars, Same
  <2> QED
    BY <1>3, <2>3, <2>4, <2>5 DEF Inv
<1>5. CASE ds' = Gone
  <2>1. IsLive(ds)
    BY DEF Delete, IsLive
  <2>2. TypeOK'
    BY <1>1, <1>5, GoneFields DEF Inv, TypeOK
  <2>3. AckInv'
    BY <1>1, <1>5, GoneFields DEF Inv, AckInv, Confirmed
  <2> QED
    BY <1>1, <1>3, <1>5, <2>1, <2>2, <2>3, Removed DEF Inv
<1> QED
  BY <1>4, <1>5 DEF Delete

\* The steps that leave the object, the worker and the members alone.
LEMMA OthersStep ==
    Inv /\ (SyncCache \/ SyncSecret \/ ResyncCache \/ ClusterUp \/ ClusterDown
            \/ BuildConfig \/ WriteSecret)
        => Inv' /\ AbstractStep
<1> SUFFICES ASSUME Inv, SyncCache \/ SyncSecret \/ ResyncCache \/ ClusterUp \/ ClusterDown
                         \/ BuildConfig \/ WriteSecret
             PROVE  Inv' /\ AbstractStep
  OBVIOUS
<1>1. UNCHANGED <<ds, conf, restarts, rec, edits>>
  BY DEF SyncCache, SyncSecret, ResyncCache, ClusterUp, ClusterDown, BuildConfig, WriteSecret,
         members, config, count
<1>2. AbstractStep
  BY <1>1 DEF AbstractStep, Applied!vars
<1>3. EditInv' /\ CopyInv' /\ SentInv' /\ AppliedOnMembers'
  BY <1>1 DEF Inv, EditInv, CopyInv, SentInv, AppliedOnMembers
<1>4. cache' \in {cache, ds}
  BY DEF SyncCache, SyncSecret, ResyncCache, ClusterUp, ClusterDown, BuildConfig, WriteSecret
<1>5. AckInv'
  BY <1>1, <1>4 DEF Inv, AckInv
<1>6. TypeOK' /\ RestartInv'
  <2>1. cache' \in Objects
    BY <1>4 DEF Inv, TypeOK
  <2>2. queued' \in BOOLEAN
    BY Zenon DEF Inv, TypeOK, SyncCache, SyncSecret, ResyncCache, ClusterUp, ClusterDown, BuildConfig,
           WriteSecret
  <2>3. cluster' \in Clusters
    BY DEF Inv, TypeOK, Clusters, SyncCache, SyncSecret, ResyncCache, ClusterUp, ClusterDown,
           BuildConfig, WriteSecret
  <2>4. mishaps' \in 0..MaxMishaps /\ RestartInv'
    <3>1. Fault \/ NoFault
      BY DEF SyncCache, SyncSecret, ResyncCache, ClusterUp, ClusterDown, BuildConfig, WriteSecret,
             count, NoFault
    <3> QED
      BY <1>1, <3>1, Counted, Bounded DEF Inv, TypeOK
  <2>5. Persisted(cache) \in Specs \cup {None}
    <3>1. cache.spec \in Specs /\ cache.ann \in Specs \cup {None}
      BY Versions DEF Inv, TypeOK
    <3> QED
      BY <3>1 DEF Persisted
  <2>6. hz.config \in Specs \cup {None}
    BY DEF Inv, TypeOK
  <2>7. secret' \in Specs \cup {None} /\ secretCache' \in Specs \cup {None}
    BY <2>6 DEF Inv, TypeOK, SyncCache, SyncSecret, ResyncCache, ClusterUp, ClusterDown, BuildConfig,
           WriteSecret, config
  <2>8. hz' \in [busy: BOOLEAN, config: Specs \cup {None}]
    <3>1. \/ hz' = hz
          \/ hz' = [busy |-> TRUE, config |-> Persisted(cache)]
          \/ hz' = [busy |-> FALSE, config |-> None]
      BY DEF SyncCache, SyncSecret, ResyncCache, ClusterUp, ClusterDown, BuildConfig, WriteSecret,
             config
    <3>2. hz \in [busy: BOOLEAN, config: Specs \cup {None}]
      BY DEF Inv, TypeOK
    <3>3. CASE hz' = [busy |-> TRUE, config |-> Persisted(cache)]
      BY <2>5, <3>3
    <3>4. CASE hz' = [busy |-> FALSE, config |-> None]
      BY <3>4
    <3> QED
      BY <3>1, <3>2, <3>3, <3>4
  <2> QED
    BY <1>1, <2>1, <2>2, <2>3, <2>4, <2>7, <2>8 DEF Inv, TypeOK
<1> QED
  BY <1>2, <1>3, <1>5, <1>6 DEF Inv

LEMMA RestartStep == Inv /\ Restart => Inv' /\ AbstractStep
<1> SUFFICES ASSUME Inv, Restart PROVE Inv' /\ AbstractStep
  OBVIOUS
<1>1. UNCHANGED <<ds, cluster, conf, restarts, secret, edits>> /\ rec' = Idle
  BY DEF Restart, members
<1>2. rec' \in Workers /\ CopyInv' /\ SentInv'
      /\ Confirmed(rec'.ds.acked, conf, restarts) /\ Confirmed(rec'.base.acked, conf, restarts)
      /\ Confirmed(rec'.acked, conf, restarts)
  BY <1>1, Stopped
<1>3. AckInv'
  BY <1>1, <1>2 DEF Inv, AckInv, Restart
<1>4. mishaps' \in 0..MaxMishaps /\ RestartInv'
  BY <1>1, Counted, Bounded, Zenon DEF Inv, TypeOK, Restart
<1>5. TypeOK'
  BY <1>1, <1>2, <1>4 DEF Inv, TypeOK, Restart, Workers
<1>6. EditInv' /\ AppliedOnMembers'
  BY <1>1 DEF Inv, EditInv, AppliedOnMembers
<1>7. AbstractStep
  BY <1>1 DEF AbstractStep, Applied!vars
<1> QED
  BY <1>2, <1>3, <1>4, <1>5, <1>6, <1>7 DEF Inv

LEMMA MemberRestartStep ==
    ASSUME Inv, NEW m \in Members, MemberRestart(m)
    PROVE  Inv' /\ AbstractStep
<1>1. UNCHANGED <<ds, cache, queued, cluster, secret, secretCache, hz, rec, edits>>
  BY DEF MemberRestart, config
<1>2. restarts \in [Members -> 0..MaxMishaps] /\ conf \in [Members -> Specs \cup {None}]
  BY DEF Inv, TypeOK
<1>3. /\ restarts' = [restarts EXCEPT ![m] = restarts[m] + 1]
      /\ conf' = [conf EXCEPT ![m] = secret]
  BY DEF MemberRestart
<1>4. \A n \in Members : restarts'[n] = 0 => restarts[n] = 0 /\ conf'[n] = conf[n]
  BY <1>2, <1>3, ConstantsAssumption
<1>5. EditInv' /\ CopyInv'
  BY <1>1, Zenon DEF Inv, EditInv, CopyInv
<1>6. AckInv'
  BY <1>1, <1>4 DEF Inv, AckInv, Confirmed
<1>7. SentInv'
  BY <1>1, <1>4 DEF Inv, SentInv, Everywhere
<1>8. AppliedOnMembers'
  BY <1>1, <1>4 DEF Inv, AppliedOnMembers
<1>9. AbstractStep
  BY <1>1 DEF AbstractStep, Applied!vars
<1>10. mishaps \in 0..MaxMishaps /\ mishaps < MaxMishaps /\ mishaps' = mishaps + 1
  BY DEF Inv, TypeOK, MemberRestart, Fault
<1>11. \A n \in Members : restarts[n] <= mishaps
  BY DEF Inv, RestartInv
<1>12. /\ mishaps' \in 0..MaxMishaps /\ RestartInv'
       /\ restarts' \in [Members -> 0..MaxMishaps]
  BY <1>2, <1>3, <1>10, <1>11, ConstantsAssumption DEF RestartInv
<1>13. conf' \in [Members -> Specs \cup {None}]
  BY <1>2, <1>3 DEF Inv, TypeOK
<1>14. TypeOK'
  BY <1>1, <1>12, <1>13 DEF Inv, TypeOK
<1> QED
  BY <1>5, <1>6, <1>7, <1>8, <1>9, <1>12, <1>14 DEF Inv

----------------------------------------------------------------------------
(* The worker.                                                             *)

LEMMA ReconcileStep == Inv /\ Reconcile => Inv' /\ AbstractStep
<1> SUFFICES ASSUME Inv, Reconcile PROVE Inv' /\ AbstractStep
  OBVIOUS
<1>1. Kept /\ ds' = ds /\ mishaps' = mishaps /\ queued' = FALSE
  BY DEF Reconcile
<1>2. ds \in Objects /\ cache \in Objects /\ mishaps' \in mishaps..MaxMishaps
  BY <1>1, ConstantsAssumption DEF Inv, TypeOK
<1>3. Same(ds, ds') /\ Confirmed(ds'.acked, conf, restarts)
  BY <1>1 DEF Same, Inv, AckInv
<1>4. CASE ~cache.live
  <2>1. rec' = Idle
    BY <1>4 DEF Reconcile
  <2> QED
    BY <1>1, <1>2, <1>3, <2>1, Stopped, Unseen, Zenon
<1>5. CASE cache.live
  <2>1. PICK pc \in {"finalizer", "setup", "terminating"} :
            rec' = [Idle EXCEPT !.ds = cache, !.base = cache, !.pc = pc]
    BY <1>5, Zenon DEF Reconcile
  <2>2. /\ rec' \in Workers /\ rec'.pc = pc /\ rec'.ds = cache /\ rec'.base = cache
        /\ rec'.acked = {}
    BY <1>2, <2>1, IdleFields, Zenon DEF Workers, PCs, Idle
  <2>3. IsLive(cache)
    BY <1>5 DEF IsLive
  <2>4. CopyInv'
    BY <2>2, <2>3 DEF CopyInv
  <2>5. SentInv'
    BY <2>2 DEF SentInv
  <2>6. /\ Confirmed(rec'.ds.acked, conf, restarts) /\ Confirmed(rec'.base.acked, conf, restarts)
        /\ Confirmed(rec'.acked, conf, restarts)
    BY <2>2, Zenon DEF Inv, AckInv, Confirmed
  <2> QED
    BY <1>1, <1>2, <1>3, <2>2, <2>4, <2>5, <2>6, Unseen, Zenon
<1> QED
  BY <1>4, <1>5

\* What the steps of the worker start from.
LEMMA Start ==
    ASSUME Inv
    PROVE  /\ TypeOK /\ CopyInv /\ ds \in Objects /\ rec \in Workers
           /\ rec.ds \in Objects /\ rec.base \in Objects
           /\ rec.todo \in SUBSET UUIDs /\ rec.acked \in SUBSET UUIDs
           /\ rec.ds.acked \in SUBSET UUIDs
           /\ queued \in BOOLEAN /\ mishaps \in 0..MaxMishaps
           /\ Confirmed(ds.acked, conf, restarts) /\ Confirmed(rec.ds.acked, conf, restarts)
           /\ Confirmed(rec.base.acked, conf, restarts) /\ Confirmed(rec.acked, conf, restarts)
           /\ Same(ds, ds)
<1>1. TypeOK /\ ds \in Objects /\ rec \in Workers /\ queued \in BOOLEAN /\ mishaps \in 0..MaxMishaps
  BY DEF Inv, TypeOK, Workers
<1>2. rec.ds \in Objects /\ rec.base \in Objects
      /\ rec.todo \in SUBSET UUIDs /\ rec.acked \in SUBSET UUIDs
  BY <1>1 DEF Workers
<1>3. rec.ds.acked \in SUBSET UUIDs
  BY <1>2, Fields
<1> QED
  BY <1>1, <1>2, <1>3 DEF Inv, AckInv, Same

LEMMA AddFinalizerStep == Inv /\ AddFinalizer => Inv' /\ AbstractStep
<1> SUFFICES ASSUME Inv, AddFinalizer PROVE Inv' /\ AbstractStep
  OBVIOUS
<1>1. Kept /\ rec.pc = "finalizer" /\ queued' \in BOOLEAN /\ mishaps' \in mishaps..MaxMishaps
  BY Start, Counted DEF AddFinalizer, Forget
<1>2. rec.ds = rec.base /\ IsLive(rec.base)
  BY <1>1, Start, Zenon DEF CopyInv
<1>3. CASE rec' = Idle /\ ds' = ds
  BY <1>1, <1>3, Start, Stopped, Unseen, Zenon
<1>4. CASE rec' = Idle /\ Reported("Failed")
  <2>1. ds' \in Objects /\ Same(ds, ds') /\ ds'.acked = ds.acked
    BY <1>4, Start, FailureReported, Zenon DEF States
  <2> QED
    BY <1>1, <1>4, <2>1, Start, Stopped, Unseen, Zenon
<1>5. CASE ~Conflict /\ ds' = [rec.ds EXCEPT !.fin = TRUE]
           /\ rec' = [To("setup") EXCEPT !.ds = ds', !.base = ds']
  <2>1. ds = rec.ds
    BY <1>2, <1>5 DEF Conflict
  <2>2. ds' \in Objects /\ Same(ds, ds') /\ ds'.acked = ds.acked
    BY <1>5, <2>1, Start, Marked, Zenon DEF States
  <2>3. IsLive(ds')
    BY <1>2, <2>1, <2>2 DEF Same, IsLive
  <2>4. To("setup") \in Workers /\ To("setup").pc = "setup" /\ To("setup").acked = rec.acked
    BY Start, Moved, Zenon DEF To, PCs
  <2>5. /\ rec' \in Workers /\ rec'.pc = "setup" /\ rec'.ds = ds' /\ rec'.base = ds'
        /\ rec'.acked = rec.acked
    <3>1. rec' = With(To("setup"), ds', ds')
      BY <1>5 DEF With
    <3> QED
      BY <2>2, <2>4, <3>1, Renewed
  <2>6. CopyInv' /\ SentInv'
    BY <2>3, <2>5 DEF CopyInv, SentInv
  <2> QED
    BY <1>1, <2>2, <2>5, <2>6, Start, Unseen
<1> QED
  BY <1>3, <1>4, <1>5 DEF AddFinalizer

LEMMA StartDeleteStep == Inv /\ StartDelete => Inv' /\ AbstractStep
<1> SUFFICES ASSUME Inv, StartDelete PROVE Inv' /\ AbstractStep
  OBVIOUS
<1> DEFINE copy == [rec.ds EXCEPT !.state = "Terminating"]
<1>1. Kept /\ rec.pc = "terminating" /\ queued' \in BOOLEAN /\ mishaps' \in mishaps..MaxMishaps
  BY Start, Counted, Zenon DEF StartDelete, Forget
<1>2. rec.ds = rec.base /\ IsLive(rec.base)
  BY <1>1, Start DEF CopyInv
<1>3. copy \in Objects /\ Same(rec.ds, copy) /\ copy.acked = rec.ds.acked
  BY Start, Marked, Zenon DEF States
<1>4. To("remove") \in Workers /\ To("remove").pc = "remove" /\ To("remove").acked = rec.acked
      /\ To("remove").base = rec.base
  BY Start, Moved, Zenon DEF To, PCs
<1> HIDE DEF copy
<1>5. PICK b \in {copy, rec.base} :
        /\ rec' \in Workers /\ rec'.pc = "remove" /\ rec'.ds = copy /\ rec'.base = b
        /\ rec'.acked = rec.acked
  <2>1. CASE rec' = [To("remove") EXCEPT !.ds = copy, !.base = copy]
    <3>1. rec' = With(To("remove"), copy, copy)
      BY <2>1 DEF With
    <3>2. /\ rec' \in Workers /\ rec'.pc = "remove" /\ rec'.ds = copy /\ rec'.base = copy
          /\ rec'.acked = rec.acked
      BY <1>3, <1>4, <3>1, Renewed
    <3> QED
      BY <3>2
  <2>2. CASE rec' = [To("remove") EXCEPT !.ds = copy]
    BY <1>3, <1>4, <2>2 DEF Workers
  <2> QED
    BY <2>1, <2>2 DEF StartDelete, copy
<1>6. IsLive(b) /\ copy.spec = b.spec /\ Confirmed(b.acked, conf, restarts)
      /\ Confirmed(copy.acked, conf, restarts)
  BY <1>2, <1>3, <1>5, Start DEF Same, IsLive
<1>7. CopyInv' /\ SentInv'
  BY <1>5, <1>6 DEF CopyInv, SentInv
<1>8. ds' \in Objects /\ Same(ds, ds') /\ ds'.acked = ds.acked
  <2>1. CASE ds' = ds
    BY <2>1, Start
  <2>2. CASE ds' = copy /\ ~Conflict
    BY <1>2, <1>3, <2>2 DEF Conflict
  <2> QED
    BY <2>1, <2>2 DEF StartDelete, copy
<1> QED
  BY <1>1, <1>5, <1>6, <1>7, <1>8, Start, Unseen

LEMMA ExecuteFinalizerStep == Inv /\ ExecuteFinalizer => Inv' /\ AbstractStep
<1> SUFFICES ASSUME Inv, ExecuteFinalizer PROVE Inv' /\ AbstractStep
  OBVIOUS
<1>1. /\ Kept /\ rec.pc = "remove" /\ rec' = Idle
      /\ queued' \in BOOLEAN /\ mishaps' \in mishaps..MaxMishaps
  BY Start, Counted, Zenon DEF ExecuteFinalizer, Forget
<1>2. CASE ds' = ds
  BY <1>1, <1>2, Start, Stopped, Unseen, Zenon
<1>3. CASE Reported("Terminating")
  <2>1. ds' \in Objects /\ Same(ds, ds') /\ ds'.acked = ds.acked
    BY <1>3, Start, FailureReported, Zenon DEF States
  <2> QED
    BY <1>1, <2>1, Start, Stopped, Unseen, Zenon
<1>4. CASE ~Conflict /\ ds' = Gone
  <2>1. IsLive(ds)
    BY <1>1, <1>4, Start DEF CopyInv, Conflict
  <2>2. UNCHANGED <<cache, cluster, conf, restarts, secret, secretCache, hz, edits>>
    BY <1>1 DEF Kept, members, config
  <2>3. AbstractStep /\ EditInv' /\ AppliedOnMembers'
    BY <1>4, <2>1, <2>2, Removed, Zenon
  <2>4. rec' \in Workers /\ CopyInv' /\ SentInv'
        /\ Confirmed(rec'.ds.acked, conf, restarts) /\ Confirmed(rec'.base.acked, conf, restarts)
        /\ Confirmed(rec'.acked, conf, restarts)
    BY <1>1, Stopped
  <2>5. mishaps' \in 0..MaxMishaps /\ RestartInv'
    BY <1>1, <2>2, Bounded, Zenon
  <2>6. TypeOK'
    BY <1>1, <1>4, <2>2, <2>4, <2>5, GoneFields DEF Inv, TypeOK, Workers
  <2>7. Confirmed(ds'.acked, conf, restarts)
    BY <1>4, GoneFields, Zenon DEF Confirmed
  <2>8. AckInv'
    BY <2>2, <2>4, <2>7 DEF Inv, AckInv
  <2> QED
    BY <2>3, <2>4, <2>5, <2>6, <2>8, Zenon DEF Inv
<1> QED
  BY <1>2, <1>3, <1>4 DEF ExecuteFinalizer

\* A member that has not restarted is in Ordered as it was.
LEMMA OrderedMembers ==
    ASSUME Inv
    PROVE  /\ Ordered \subseteq UUIDs
           /\ \A m \in Members : restarts[m] = 0 => <<m, 0>> \in Ordered
<1>1. restarts \in [Members -> 0..MaxMishaps]
  BY DEF Inv, TypeOK
<1>2. \A m \in Members : UUID(m) \in UUIDs /\ (restarts[m] = 0 => UUID(m) = <<m, 0>>)
  BY <1>1, Zenon DEF UUID, UUIDs
<1> QED
  BY <1>2 DEF Ordered

LEMMA SetupStops ==
    Inv /\ (SetupFailed \/ SetupApplied \/ SetupConnecting) => Inv' /\ AbstractStep
<1> SUFFICES ASSUME Inv, SetupFailed \/ SetupApplied \/ SetupConnecting
             PROVE  Inv' /\ AbstractStep
  OBVIOUS
<1>1. PICK s \in States, q \in BOOLEAN : UpdateStatus(s, rec.ds.acked, Idle, q, FALSE) /\ Kept
  BY Zenon DEF SetupFailed, SetupApplied, SetupConnecting, UpdateFailed, States
<1> QED
  BY <1>1, Start, StatusAndStop, Zenon

LEMMA SendingFields ==
    ASSUME Inv
    PROVE  /\ ToSend \in Workers /\ ToSend.pc = "send"
           /\ ToSend.ds = rec.ds /\ ToSend.base = rec.base
           /\ Confirmed(ToSend.acked, conf, restarts)
           /\ \A m \in Members : restarts[m] = 0 => <<m, 0>> \in ToSend.todo \cup ToSend.acked
<1> DEFINE todo == Ordered \ Skipped
<1>1. Ordered \subseteq UUIDs /\ todo \subseteq UUIDs /\ Skipped \subseteq UUIDs
  BY OrderedMembers DEF Skipped
<1>2. Confirmed(Skipped, conf, restarts)
  BY Start DEF Skipped, Confirmed
<1>3. \A m \in Members : restarts[m] = 0 => <<m, 0>> \in todo \cup Skipped
  BY OrderedMembers
<1> HIDE DEF todo
<1>4. ToSend = [rec EXCEPT !.pc = "send", !.todo = todo, !.acked = Skipped, !.failed = FALSE]
  BY DEF ToSend, todo
<1>5. /\ ToSend \in Workers /\ ToSend.pc = "send" /\ ToSend.todo = todo /\ ToSend.acked = Skipped
      /\ ToSend.ds = rec.ds /\ ToSend.base = rec.base
  BY <1>1, <1>4, Start, Zenon DEF Workers, PCs
<1> QED
  BY <1>2, <1>3, <1>5

LEMMA SetupDoneStep == Inv /\ SetupDone => Inv' /\ AbstractStep
<1> SUFFICES ASSUME Inv, SetupDone PROVE Inv' /\ AbstractStep
  OBVIOUS
<1>1. Kept /\ rec.pc = "setup"
  BY DEF SetupDone, MayApply
<1>2. rec.ds = rec.base /\ IsLive(rec.base)
  BY <1>1, Start DEF CopyInv
<1>3. Admissible(rec.base.ann, rec.base.spec)
  BY <1>2, Zenon DEF SetupDone, MayApply, AlreadyApplied, Forbidden, Admissible
<1>4. CASE rec' = ToSend /\ UNCHANGED <<ds, queued, mishaps>>
  <2>1. /\ rec' \in Workers /\ rec'.pc = "send" /\ rec'.ds = rec.ds /\ rec'.base = rec.base
        /\ Confirmed(rec'.acked, conf, restarts)
        /\ \A m \in Members : restarts[m] = 0 => <<m, 0>> \in rec'.todo \cup rec'.acked
    BY <1>4, SendingFields
  <2>2. CopyInv'
    BY <1>2, <1>3, <2>1 DEF CopyInv
  <2>3. UNCHANGED restarts
    BY <1>1 DEF Kept, members
  <2>4. SentInv'
    BY <2>1, <2>3 DEF SentInv
  <2>5. mishaps' \in mishaps..MaxMishaps
    BY <1>4, Start, ConstantsAssumption
  <2> QED
    BY <1>1, <1>4, <2>1, <2>2, <2>4, <2>5, Start, Unseen, Zenon
<1>5. CASE UpdateStatus("Pending", rec.ds.acked, ToSend, FALSE, FALSE)
  BY <1>1, <1>3, <1>5, Start, SendingFields, StatusAndOn, Zenon DEF States
<1> QED
  BY <1>4, <1>5, Zenon DEF SetupDone

LEMMA SendStep ==
    ASSUME Inv, NEW u \in UUIDs, Send(u)
    PROVE  Inv' /\ AbstractStep
<1>1. /\ UNCHANGED <<ds, cache, queued, cluster, restarts, secret, secretCache, hz, edits>>
      /\ rec.pc = "send"
  BY DEF Send, config
<1>2. mishaps' \in 0..MaxMishaps /\ RestartInv'
  BY <1>1, Start, Counted, Bounded, Zenon DEF Send
<1>3. /\ restarts \in [Members -> 0..MaxMishaps] /\ conf \in [Members -> Specs \cup {None}]
      /\ rec.ds.spec \in Specs
  BY Start, Versions DEF TypeOK
<1>4. AbstractStep
  BY <1>1 DEF AbstractStep, Applied!vars
<1>5. EditInv'
  BY <1>1 DEF Inv, EditInv
<1>6. CASE u \in Ordered /\ conf' = [conf EXCEPT ![u[1]] = rec.ds.spec]
           /\ rec' = [rec EXCEPT !.todo = @ \ {u}, !.acked = @ \cup {u}]
  <2>1. PICK n \in Members : u = <<n, restarts[n]>>
    BY <1>6 DEF Ordered, UUID
  <2>2. conf' = [conf EXCEPT ![n] = rec.ds.spec]
    BY <1>6, <2>1
  <2>3. /\ conf' \in [Members -> Specs \cup {None}] /\ conf'[n] # None
        /\ \A m \in Members : conf[m] # None => conf'[m] # None
    BY <1>3, <2>2, Numbers
  <2>4. /\ rec' \in Workers /\ rec'.pc = rec.pc /\ rec'.ds = rec.ds /\ rec'.base = rec.base
        /\ rec'.todo = rec.todo \ {u} /\ rec'.acked = rec.acked \cup {u}
    BY <1>6, Start, Zenon DEF Workers
  <2>5. rec'.failed = rec.failed
    BY <1>6, Start DEF Workers
  <2>6. TypeOK'
    BY <1>1, <1>2, <2>3, <2>4 DEF Inv, TypeOK, Workers
  <2>7. CopyInv'
    BY <2>4 DEF Inv, CopyInv
  <2>8. \A m \in Members : <<m, 0>> = u => conf'[m] # None
    BY <2>1, <2>3, Zenon
  <2>9. AckInv'
    BY <1>1, <2>3, <2>4, <2>8, Zenon DEF Inv, AckInv, Confirmed
  <2>10. SentInv'
    BY <1>1, <2>4, <2>5 DEF Inv, SentInv
  <2>11. AppliedOnMembers'
    BY <1>1, <2>3 DEF Inv, AppliedOnMembers
  <2> QED
    BY <1>2, <1>4, <1>5, <2>6, <2>7, <2>9, <2>10, <2>11 DEF Inv
<1>7. CASE UNCHANGED conf /\ rec' = [rec EXCEPT !.todo = @ \ {u}, !.failed = TRUE]
  <2>1. /\ rec' \in Workers /\ rec'.pc = rec.pc /\ rec'.ds = rec.ds /\ rec'.base = rec.base
        /\ rec'.acked = rec.acked
    BY <1>7, Start, Zenon DEF Workers
  <2>2. rec'.failed = TRUE
    BY <1>7, Start DEF Workers
  <2>3. TypeOK'
    BY <1>1, <1>2, <1>7, <2>1 DEF Inv, TypeOK, Workers
  <2>4. CopyInv' /\ AckInv' /\ AppliedOnMembers'
    BY <1>1, <1>7, <2>1 DEF Inv, CopyInv, AckInv, AppliedOnMembers
  <2>5. SentInv'
    BY <1>1, <2>1, <2>2 DEF SentInv
  <2> QED
    BY <1>2, <1>4, <1>5, <2>3, <2>4, <2>5 DEF Inv
<1> QED
  BY <1>6, <1>7 DEF Send

LEMMA AnswersStop ==
    Inv /\ (SomeFailed \/ ValidateMissing \/ FinalSetup) => Inv' /\ AbstractStep
<1> SUFFICES ASSUME Inv, SomeFailed \/ ValidateMissing \/ FinalSetup
             PROVE  Inv' /\ AbstractStep
  OBVIOUS
<1>1. Confirmed({}, conf, restarts) /\ {} \in SUBSET UUIDs
  BY DEF Confirmed
<1>2. PICK s \in States, a \in {rec.acked, {}}, q \in BOOLEAN :
          UpdateStatus(s, a, Idle, q, TRUE) /\ Kept
  BY Zenon DEF SomeFailed, ValidateMissing, FinalSetup, States
<1> QED
  BY <1>1, <1>2, Start, StatusAndStop, Zenon

LEMMA AllSentStep == Inv /\ AllSent => Inv' /\ AbstractStep
<1> SUFFICES ASSUME Inv, AllSent PROVE Inv' /\ AbstractStep
  BY Zenon
<1>1. /\ Kept /\ rec.pc = "send" /\ rec.todo = {}
      /\ UpdateStatus("Persisting", rec.acked, To("validate"), FALSE, TRUE)
  BY Zenon DEF AllSent
<1>2. \A m \in Members : restarts[m] = 0 => <<m, 0>> \in rec.todo \cup rec.acked
  BY <1>1 DEF AllSent, Inv, SentInv
<1>3. Everywhere(conf, restarts)
  BY <1>1, <1>2, Start, Zenon DEF Confirmed, Everywhere
<1>4. Admissible(rec.base.ann, rec.base.spec)
  BY <1>1, Start DEF CopyInv
<1>5. /\ To("validate") \in Workers /\ To("validate").pc = "validate"
      /\ To("validate").acked = rec.acked
  BY Start, Moved, Zenon DEF To, PCs
<1> HIDE DEF To
<1> QED
  BY <1>1, <1>3, <1>4, <1>5, Start, StatusAndOn, Zenon DEF States

LEMMA ValidateFoundStep == Inv /\ ValidateFound => Inv' /\ AbstractStep
<1> SUFFICES ASSUME Inv, ValidateFound PROVE Inv' /\ AbstractStep
  OBVIOUS
<1>1. /\ Kept /\ rec.pc = "validate" /\ rec' = To("annotate")
      /\ UNCHANGED <<ds, queued, mishaps>>
  BY DEF ValidateFound
<1>2. /\ rec' \in Workers /\ rec'.pc = "annotate" /\ rec'.ds = rec.ds /\ rec'.base = rec.base
      /\ rec'.acked = rec.acked
  BY <1>1, Start, Moved, Zenon DEF To, PCs
<1>3. CopyInv'
  BY <1>1, <1>2, Start DEF CopyInv
<1>4. UNCHANGED <<conf, restarts>>
  BY <1>1 DEF Kept, members
<1>5. SentInv'
  BY <1>1, <1>2, <1>4 DEF Inv, SentInv
<1>6. mishaps' \in mishaps..MaxMishaps
  BY <1>1, Start, ConstantsAssumption
<1> QED
  BY <1>1, <1>2, <1>3, <1>5, <1>6, Start, Unseen, Zenon

LEMMA ValidateFailedStep == Inv /\ ValidateFailed => Inv' /\ AbstractStep
<1> SUFFICES ASSUME Inv, ValidateFailed PROVE Inv' /\ AbstractStep
  BY Zenon
<1>1. /\ Kept /\ rec' = Idle /\ Reported("Failed")
      /\ queued' \in BOOLEAN /\ mishaps' \in mishaps..MaxMishaps
  BY Start, Counted, Zenon DEF ValidateFailed, Requeue, Forget
<1>2. ds' \in Objects /\ Same(ds, ds') /\ ds'.acked = ds.acked
  BY <1>1, Start, FailureReported, Zenon DEF States
<1> QED
  BY <1>1, <1>2, Start, Stopped, Unseen

\* The one step that applies: the copy has the spec of the object, and that
\* spec may be applied.
LEMMA AnnotateStep == Inv /\ Annotate => Inv' /\ AbstractStep
<1> SUFFICES ASSUME Inv, Annotate PROVE Inv' /\ AbstractStep
  OBVIOUS
<1> DEFINE copy == [rec.base EXCEPT !.ann = rec.ds.spec]
<1>1. Kept /\ rec.pc = "annotate" /\ queued' \in BOOLEAN /\ mishaps' \in mishaps..MaxMishaps
  BY Start, Counted, Zenon DEF Annotate, Forget
<1>2. /\ rec.ds.spec = rec.base.spec /\ IsLive(rec.base)
      /\ Admissible(rec.base.ann, rec.base.spec) /\ rec.ds.spec \in Specs
  BY <1>1, Start, Versions DEF CopyInv
<1>3. /\ copy \in Objects /\ copy.spec = rec.base.spec /\ copy.ann = rec.base.spec
      /\ copy.acked = rec.base.acked
  BY <1>2, Start, Annotated
<1>4. copy.live = rec.base.live
  BY <1>2, Start, AnnotatedLives
<1>5. IsLive(copy)
  BY <1>2, <1>4 DEF IsLive
<1>6. To("final") \in Workers /\ To("final").pc = "final" /\ To("final").acked = rec.acked
      /\ To("final").base = rec.base /\ To("final").ds = rec.ds
  BY Start, Moved, Zenon DEF To, PCs
<1> HIDE DEF copy
<1>7. CASE ~Conflict /\ ds' = copy /\ rec' = [To("final") EXCEPT !.ds = copy, !.base = copy]
  <2>1. ds = rec.base
    BY <1>7 DEF Conflict
  <2>2. rec' = With(To("final"), copy, copy)
    BY <1>7 DEF With
  <2>3. /\ rec' \in Workers /\ rec'.pc = "final" /\ rec'.ds = copy /\ rec'.base = copy
        /\ rec'.acked = rec.acked
    BY <1>3, <1>6, <2>2, Renewed
  <2>4. CopyInv' /\ SentInv'
    BY <1>5, <2>3 DEF CopyInv, SentInv
  <2>5. UNCHANGED <<cache, cluster, conf, restarts, secret, secretCache, hz, edits>>
    BY <1>1 DEF Kept, members, config
  <2>6. mishaps' \in 0..MaxMishaps /\ RestartInv'
    BY <1>1, <2>5, Bounded
  <2>7. TypeOK'
    BY <1>1, <1>3, <1>7, <2>3, <2>5, <2>6 DEF Inv, TypeOK, Workers
  <2>8. EditInv'
    BY <1>3, <1>7, <2>1, <2>5 DEF Inv, EditInv
  <2>9. AckInv'
    BY <1>3, <1>7, <2>1, <2>3, <2>5, Zenon DEF Inv, AckInv
  <2>10. AppliedOnMembers'
    BY <1>1, <2>5 DEF Inv, SentInv, Everywhere, AppliedOnMembers
  <2>11. ds.live /\ UNCHANGED ds.live
    BY <1>2, <1>4, <1>7, <2>1, Zenon DEF IsLive
  <2>12. Admissible(ds.ann, ds.spec) /\ ds'.ann = ds.spec /\ ds'.spec = ds.spec
    BY <1>2, <1>3, <1>7, <2>1
  <2>13. Applied!Apply
    BY <2>11, <2>12 DEF Applied!Apply
  <2> QED
    BY <2>4, <2>6, <2>7, <2>8, <2>9, <2>10, <2>13 DEF Inv, AbstractStep, Applied!Next
<1>8. CASE UNCHANGED ds /\ rec' = [To("final") EXCEPT !.ds.ann = rec.ds.spec]
  <2> DEFINE d == [rec.ds EXCEPT !.ann = rec.ds.spec]
  <2>1. d \in Objects /\ d.spec = rec.ds.spec /\ d.acked = rec.ds.acked
    BY <1>2, Start, Annotated
  <2>2. rec' = [To("final") EXCEPT !.ds = d]
    BY <1>6, <1>8
  <2> HIDE DEF d
  <2>3. /\ rec' \in Workers /\ rec'.pc = "final" /\ rec'.ds = d /\ rec'.base = rec.base
        /\ rec'.acked = rec.acked
    BY <1>6, <2>1, <2>2 DEF Workers
  <2>4. CopyInv' /\ SentInv'
    BY <1>2, <2>1, <2>3 DEF CopyInv, SentInv
  <2> QED
    BY <1>1, <1>8, <2>1, <2>3, <2>4, Start, Unseen
<1> QED
  BY <1>7, <1>8 DEF Annotate, copy

----------------------------------------------------------------------------
(* The theorems.                                                           *)

LEMMA InitInv == Init => Inv /\ Applied!Init
<1> SUFFICES ASSUME Init PROVE Inv /\ Applied!Init
  BY Zenon
<1>1. ds \in Objects /\ cache \in Objects /\ rec \in Workers
  BY NewFields, GoneFields, IdleFields DEF Init
<1>2. hz \in [busy: BOOLEAN, config: Specs \cup {None}]
  BY DEF Init
<1>3. edits \in 0..MaxEdits /\ mishaps \in 0..MaxMishaps /\ 0 \in 0..MaxMishaps
  BY ConstantsAssumption DEF Init
<1>4. TypeOK
  BY <1>1, <1>2, <1>3, Zenon DEF Init, TypeOK, Workers, Clusters
<1>5. EditInv /\ RestartInv /\ AppliedOnMembers
  <2>1. ds.spec = 1 /\ ds.ann = None /\ edits = 0 /\ mishaps = 0
    BY NewFields DEF Init
  <2>2. \A m \in Members : restarts[m] = 0
    BY DEF Init
  <2>3. EditInv /\ RestartInv
    BY <2>1, <2>2 DEF EditInv, RestartInv
  <2> QED
    BY <2>1, <2>3 DEF AppliedOnMembers
<1>6. AckInv
  BY NewFields, GoneFields, IdleFields DEF Init, AckInv, Confirmed
<1>7. CopyInv /\ SentInv
  BY IdleFields DEF Init, CopyInv, SentInv
<1>8. Applied!Init
  <2>1. ds.spec \in Specs /\ ds.ann = None
    BY NewFields, Numbers DEF Init
  <2> QED
    BY <2>1, NewLives DEF Init, Applied!Init
<1> QED
  BY <1>4, <1>5, <1>6, <1>7, <1>8 DEF Inv

LEMMA NextInv == Inv /\ [Next]_vars => Inv' /\ AbstractStep
<1> SUFFICES ASSUME Inv, [Next]_vars PROVE Inv' /\ AbstractStep
  OBVIOUS
<1>1. CASE UNCHANGED vars
  <2>1. UNCHANGED <<ds, cache, queued, cluster, conf, restarts, secret, secretCache, hz, rec,
                    edits, mishaps>>
    BY <1>1 DEF vars, members, config, count
  <2>2. AbstractStep
    BY <2>1 DEF AbstractStep, Applied!vars
  <2>3. TypeOK'
    BY <2>1 DEF Inv, TypeOK
  <2>4. EditInv' /\ RestartInv' /\ AppliedOnMembers'
    BY <2>1, ZenonT(30) DEF Inv, EditInv, RestartInv, AppliedOnMembers
  <2>5. CopyInv' /\ AckInv' /\ SentInv'
    BY <2>1 DEF Inv, CopyInv, AckInv, SentInv
  <2> QED
    BY <2>2, <2>3, <2>4, <2>5 DEF Inv
<1>2. CASE \E m \in Members : MemberRestart(m)
  BY <1>2, MemberRestartStep
<1>3. CASE \E u \in UUIDs : Send(u)
  BY <1>3, SendStep
<1>4. CASE Worker
  BY <1>3, <1>4, AddFinalizerStep, StartDeleteStep, ExecuteFinalizerStep, SetupStops, SetupDoneStep,
     AnswersStop, AllSentStep, ValidateFoundStep, ValidateFailedStep, AnnotateStep DEF Worker
<1> QED
  BY <1>1, <1>2, <1>4, EditStep, DeleteStep, OthersStep, RestartStep, ReconcileStep DEF Next

THEOREM Invariance == Spec => []Inv
<1>1. Init => Inv
  BY InitInv
<1>2. Inv /\ [Next]_vars => Inv'
  BY NextInv
<1> QED
  BY <1>1, <1>2, PTL DEF Spec

\* The type invariant: the copies are objects, and no restart and no edit is
\* counted past its bound.
THEOREM TypeCorrect == Spec => []TypeOK
<1>1. Inv => TypeOK
  BY DEF Inv
<1> QED
  BY <1>1, Invariance, PTL

\* sendCodecRequest leaves out the members with Success in the status, which may
\* be that of an earlier attempt or of a member that is gone.  What is annotated
\* as applied nevertheless every member has got, or has started with.
THEOREM OnMembers == Spec => []AppliedOnMembers
<1>1. Inv => AppliedOnMembers
  BY DEF Inv
<1> QED
  BY <1>1, Invariance, PTL

\* The controllers implement AppliedConfig: every step of theirs is one of the
\* abstract specification or one it does not see.  A spec is declared applied
\* only while the user wants it, and only if it may follow the one before.
THEOREM Refinement == Spec => Applied!Spec
<1>1. Init => Applied!Init
  BY InitInv
<1>2. Inv /\ [Next]_vars => [Applied!Next]_(Applied!vars)
  BY NextInv DEF AbstractStep
<1> QED
  BY <1>1, <1>2, Invariance, PTL DEF Spec, Applied!Spec

----------------------------------------------------------------------------
(* The maps: specs, configurations and what the writes make of an object.  *)

LEMMA MapSpecFields ==
    ASSUME NEW s \in Map!Specs
    PROVE  s # Map!None /\ s.upd \in 0..1 /\ s.idle \in 0..1 /\ s.fixed \in 0..2
    /\ s.open \in 0..1
<1>1. s.upd # Map!None.upd
  BY DEF Map!Specs, Map!None
<1> QED
  BY <1>1 DEF Map!Specs

LEMMA MapFirstIsSpec == Map!FirstSpec \in Map!Specs
BY DEF Map!FirstSpec, Map!Specs

LEMMA MapUpdatedFields ==
    ASSUME NEW c \in Map!Configs, NEW s \in Map!Specs
    PROVE  Map!Updated(c, s) \in Map!Configs /\ (c # Map!None => Map!Updated(c, s) # Map!None)
<1>1. CASE c = Map!None
  BY <1>1 DEF Map!Updated, Map!Configs
<1>2. CASE c # Map!None
  <2>1. c \in Map!Specs
    BY <1>2 DEF Map!Configs
  <2>2. [c EXCEPT !.upd = s.upd, !.idle = s.idle] \in Map!Specs
    BY <2>1, MapSpecFields, Zenon DEF Map!Specs
  <2>3. Map!Updated(c, s) = [c EXCEPT !.upd = s.upd, !.idle = s.idle]
    BY <1>2 DEF Map!Updated
  <2> QED
    BY <2>2, <2>3, MapSpecFields DEF Map!Configs
<1> QED
  BY <1>1, <1>2

LEMMA MapFileFields ==
    ASSUME NEW s \in Map!Configs
    PROVE  Map!CreateMapConfig(s) \in Map!Configs
<1>1. CASE s = Map!None
  BY <1>1 DEF Map!CreateMapConfig, Map!Configs
<1>2. CASE s # Map!None
  <2>1. s \in Map!Specs
    BY <1>2 DEF Map!Configs
  <2>2. [s EXCEPT !.idle = 0] \in Map!Specs
    BY <2>1 DEF Map!Specs
  <2> QED
    BY <1>2, <2>2 DEF Map!CreateMapConfig, Map!Configs
<1> QED
  BY <1>1, <1>2

LEMMA MapFields ==
    ASSUME NEW o \in Map!Objects
    PROVE  /\ o.live \in BOOLEAN /\ o.fin \in BOOLEAN /\ o.deleting \in BOOLEAN
           /\ o.state \in Map!States /\ o.acked \in SUBSET Map!UUIDs
BY DEF Map!Objects

LEMMA MapVersions ==
    ASSUME NEW o \in Map!Objects
    PROVE  o.spec \in Map!Specs /\ o.ann \in Map!Configs
BY DEF Map!Objects

LEMMA MapNewFields == Map!New \in Map!Objects /\ Map!New.spec \in Map!Specs
    /\ Map!New.ann = Map!None /\ Map!New.acked = {}
BY MapFirstIsSpec DEF Map!New, Map!Objects, Map!States, Map!Configs

LEMMA MapNewLives == Map!New.live = TRUE
BY DEF Map!New

LEMMA MapGoneFields == Map!Gone \in Map!Objects /\ Map!Gone.spec \in Map!Specs
    /\ Map!Gone.ann = Map!None /\ Map!Gone.acked = {}
BY MapNewFields, Zenon DEF Map!Gone, Map!New, Map!Objects

LEMMA MapGoneIsGone == Map!Gone.live = FALSE
BY DEF Map!Gone, Map!New

\* The spec of an object is replaced.
LEMMA MapEdited ==
    ASSUME NEW o \in Map!Objects, NEW s \in Map!Specs
    PROVE  LET e == [o EXCEPT !.spec = s]
           IN  e \in Map!Objects /\ e.spec = s /\ e.ann = o.ann /\ e.acked = o.acked
BY DEF Map!Objects

LEMMA MapEditedLives ==
    ASSUME NEW o \in Map!Objects, NEW s \in Map!Specs
    PROVE  [o EXCEPT !.spec = s].live = o.live
BY DEF Map!Objects

\* The finalizer, the deletion and the state leave the rest alone.
LEMMA MapMarked ==
    ASSUME NEW o \in Map!Objects, NEW s \in Map!States,
           NEW e \in {[o EXCEPT !.deleting = TRUE], [o EXCEPT !.fin = TRUE],
                      [o EXCEPT !.state = s]}
    PROVE  e \in Map!Objects /\ Same(o, e) /\ e.acked = o.acked
BY Zenon DEF Map!Objects, Same

LEMMA MapReporting ==
    ASSUME NEW o \in Map!Objects, NEW s \in Map!States, NEW a \in SUBSET Map!UUIDs
    PROVE  /\ Stated(o, s, a) \in Map!Objects /\ Same(o, Stated(o, s, a))
           /\ Stated(o, s, a).acked = a
BY Zenon DEF Map!Objects, Same, Stated

LEMMA MapAnnotated ==
    ASSUME NEW o \in Map!Objects, NEW s \in Map!Specs
    PROVE  LET e == [o EXCEPT !.ann = s]
           IN  e \in Map!Objects /\ e.spec = o.spec /\ e.ann = s /\ e.acked = o.acked
BY DEF Map!Objects, Map!Configs

LEMMA MapAnnotatedLives ==
    ASSUME NEW o \in Map!Objects, NEW s \in Map!Specs
    PROVE  [o EXCEPT !.ann = s].live = o.live
BY Zenon DEF Map!Objects

LEMMA MapIdleFields ==
    Map!Idle \in Map!Workers /\ Map!Idle.pc = "idle" /\ Map!Idle.map = Map!Gone
    /\ Map!Idle.base = Map!Gone /\ Map!Idle.acked = {}
BY MapGoneFields, Zenon DEF Map!Idle, Map!Workers, Map!PCs

LEMMA MapNothingSaid ==
    ASSUME NEW c, NEW n
    PROVE  Map!Confirmed({}, c, n) /\ Map!Truthful(Map!New, c, n) /\ Map!Truthful(Map!Gone, c, n)
<1>1. Map!Confirmed({}, c, n)
  BY DEF Map!Confirmed
<1> QED
  BY <1>1, MapNewFields, MapGoneFields DEF Map!Truthful

----------------------------------------------------------------------------
(* The steps that several actions share.                                   *)

LEMMA MapCounted ==
    ASSUME mishaps \in 0..MaxMishaps, Map!Fault \/ Map!NoFault
    PROVE  mishaps' \in mishaps..MaxMishaps
BY ConstantsAssumption DEF Map!Fault, Map!NoFault

LEMMA MapBounded ==
    ASSUME Map!Inv, mishaps' \in mishaps..MaxMishaps, UNCHANGED restarts
    PROVE  mishaps' \in 0..MaxMishaps /\ Map!RestartInv'
<1>1. mishaps \in 0..MaxMishaps /\ restarts \in [Members -> 0..MaxMishaps]
  BY DEF Map!Inv, Map!TypeOK
<1> QED
  BY <1>1, ConstantsAssumption DEF Map!Inv, Map!RestartInv

LEMMA MapMoved ==
    ASSUME NEW r \in Map!Workers, NEW pc \in Map!PCs
    PROVE  LET e == [r EXCEPT !.pc = pc]
           IN  /\ e \in Map!Workers /\ e.pc = pc /\ e.map = r.map /\ e.base = r.base
               /\ e.todo = r.todo /\ e.acked = r.acked
BY DEF Map!Workers

MapWith(r, d, b) == [r EXCEPT !.map = d, !.base = b]

LEMMA MapRenewed ==
    ASSUME NEW r \in Map!Workers, NEW d \in Map!Objects, NEW b \in Map!Objects
    PROVE  LET e == MapWith(r, d, b)
           IN  /\ e \in Map!Workers /\ e.pc = r.pc /\ e.map = d /\ e.base = b
               /\ e.todo = r.todo /\ e.acked = r.acked
BY Zenon DEF Map!Workers, MapWith

\* The worker goes on as after says, with a copy and a version of it that differ
\* from the ones it had in the state and the member statuses.
MapGoesOn(after, a) ==
    \E d \in Map!Objects, b \in Map!Objects :
        /\ rec' = MapWith(after, d, b)
        /\ Same(rec.base, b) /\ (Same(rec.base, d) \/ Same(rec.map, d))
        /\ d.acked = a /\ b.acked \in {a, rec.base.acked}

\* What a step of the worker may make of the object without being seen.
MapQuiet(a) ==
    /\ ds' \in Map!Objects /\ Same(ds, ds') /\ ds'.acked \in {ds.acked, a}
    /\ event' \in BOOLEAN /\ queued' \in BOOLEAN /\ mishaps' \in mishaps..MaxMishaps

\* updateMapStatus: what is stored differs from what was stored in the state and
\* the member statuses only, and so do the copy and its version.
LEMMA MapStatusUpdated ==
    ASSUME Map!TypeOK, NEW s \in Map!States, NEW a \in SUBSET Map!UUIDs,
           NEW after \in Map!Workers,
           NEW q \in BOOLEAN, Map!UpdateMapStatus(s, a, after, q)
    PROVE  /\ MapQuiet(a) /\ rec' \in Map!Workers
           /\ \/ rec' = Map!Idle
              \/ after.pc # "idle" /\ MapGoesOn(after, a)
<1> DEFINE stored == Stated(rec.base, s, a)
           copy   == Stated(rec.map, s, a)
           goOn(d, b) == rec' = IF after.pc = "idle" THEN Map!Idle
                                ELSE MapWith(after, d, b)
<1>1. rec \in Map!Workers /\ rec.base \in Map!Objects /\ rec.map \in Map!Objects
      /\ ds \in Map!Objects
  BY DEF Map!TypeOK, Map!Workers
<1>2. stored \in Map!Objects /\ Same(rec.base, stored) /\ stored.acked = a
  BY <1>1, MapReporting
<1>3. copy \in Map!Objects /\ Same(rec.map, copy) /\ copy.acked = a
  BY <1>1, MapReporting, Zenon
<1>4. queued \in BOOLEAN /\ event \in BOOLEAN /\ mishaps \in 0..MaxMishaps
  BY DEF Map!TypeOK
<1>5. Same(rec.base, rec.base) /\ Same(ds, ds)
  BY Zenon DEF Same
<1> HIDE DEF stored, copy
<1>6. CASE ~Map!Conflict /\ Map!NoFault /\ Map!Store(stored) /\ goOn(stored, stored)
           /\ (IF q THEN Map!Requeue ELSE Map!Forget)
  <2>1. rec.base = ds /\ ds' = stored /\ event' = TRUE
    BY <1>6 DEF Map!Conflict, Map!Store
  <2>2. queued' \in BOOLEAN /\ mishaps' \in mishaps..MaxMishaps
    BY <1>4, <1>6, MapCounted, Zenon DEF Map!Requeue, Map!Forget
  <2>3. MapWith(after, stored, stored) \in Map!Workers
    BY <1>2, MapRenewed, Zenon
  <2>4. MapQuiet(a)
    BY <1>2, <2>1, <2>2, Zenon DEF MapQuiet
  <2> QED
    BY <1>2, <1>6, <2>3, <2>4, MapIdleFields, Zenon DEF MapGoesOn
<1>7. CASE Map!Conflict /\ Map!NoFault /\ goOn(copy, rec.base) /\ Map!KeepMap /\ Map!Forget
  <2>1. queued' \in BOOLEAN /\ mishaps' \in mishaps..MaxMishaps
    BY <1>4, <1>7, MapCounted, Zenon DEF Map!Forget
  <2>2. MapWith(after, copy, rec.base) \in Map!Workers
    BY <1>1, <1>3, MapRenewed, Zenon
  <2>3. MapQuiet(a)
    BY <1>1, <1>4, <1>5, <1>7, <2>1, Zenon DEF MapQuiet, Map!KeepMap
  <2> QED
    BY <1>1, <1>3, <1>5, <1>7, <2>2, <2>3, MapIdleFields, Zenon DEF MapGoesOn
<1>8. CASE Map!Fault /\ rec' = Map!Idle /\ Map!Requeue /\ Map!KeepMap
  <2>1. queued' \in BOOLEAN /\ mishaps' \in mishaps..MaxMishaps
    BY <1>4, <1>8, MapCounted, Zenon DEF Map!Requeue
  <2>2. MapQuiet(a)
    BY <1>1, <1>4, <1>5, <1>8, <2>1, Zenon DEF MapQuiet, Map!KeepMap
  <2> QED
    BY <1>8, <2>2, MapIdleFields, Zenon
<1> QED
  BY <1>6, <1>7, <1>8 DEF Map!UpdateMapStatus, MapWith, Stated, stored, copy

\* A failure is reported in the state only.
LEMMA MapFailureReported ==
    ASSUME Map!TypeOK, Map!Fault, NEW s \in Map!States, Map!Reported(s)
    PROVE  MapQuiet(ds.acked) /\ rec' = Map!Idle
<1>1. ds \in Map!Objects /\ queued \in BOOLEAN /\ event \in BOOLEAN /\ mishaps \in 0..MaxMishaps
  BY DEF Map!TypeOK
<1>2. queued' \in BOOLEAN /\ mishaps' \in mishaps..MaxMishaps /\ rec' = Map!Idle
  BY <1>1, MapCounted, Zenon DEF Map!Reported, Map!Requeue, Map!Forget
<1>3. CASE Map!KeepMap
  BY <1>1, <1>2, <1>3 DEF Map!KeepMap, MapQuiet, Same
<1>4. CASE Map!Store([ds EXCEPT !.state = s])
  <2>1. ds' \in Map!Objects /\ Same(ds, ds') /\ ds'.acked = ds.acked /\ event' = TRUE
    BY <1>1, <1>4, MapMarked, Zenon DEF Map!Store
  <2> QED
    BY <1>2, <2>1 DEF MapQuiet
<1> QED
  BY <1>2, <1>3, <1>4 DEF Map!Reported

----------------------------------------------------------------------------
(* What is left to show of a step of the worker.                           *)

MapAbstractStep == [Map!Applied!Next]_(Map!Applied!vars)

\* What holds of the worker after a step that leaves the members alone.
MapWorkerInv ==
    /\ rec' \in Map!Workers /\ Map!CopyInv' /\ Map!SentInv'
    /\ Map!Truthful(rec'.map, conf, restarts) /\ Map!Truthful(rec'.base, conf, restarts)
    /\ Map!Confirmed(rec'.acked, conf, restarts)

\* A worker that stops has nothing left to be right about.
LEMMA MapStopped ==
    ASSUME rec' = Map!Idle
    PROVE  MapWorkerInv
<1>1. Map!CopyInv'
  BY MapIdleFields DEF Map!CopyInv
<1>2. Map!SentInv'
  BY MapIdleFields, Zenon DEF Map!SentInv
<1>3. /\ Map!Truthful(rec'.map, conf, restarts) /\ Map!Truthful(rec'.base, conf, restarts)
      /\ Map!Confirmed(rec'.acked, conf, restarts)
  BY MapIdleFields, MapNothingSaid, Zenon
<1> QED
  BY <1>1, <1>2, <1>3, MapIdleFields DEF MapWorkerInv

\* A step that keeps what the abstract specification sees.
LEMMA MapUnseen ==
    ASSUME Map!Inv, Map!Kept, NEW a, MapQuiet(a), Map!Confirmed(a, conf, restarts), MapWorkerInv
    PROVE  Map!Inv' /\ MapAbstractStep
<1>1. UNCHANGED <<cache, cluster, conf, restarts, secret, hz, edits>>
  BY Zenon DEF Map!Kept, Map!members, Map!config
<1>2. mishaps' \in 0..MaxMishaps /\ Map!RestartInv'
  BY <1>1, MapBounded, Zenon DEF MapQuiet
<1>3. ds' \in Map!Objects /\ event' \in BOOLEAN /\ queued' \in BOOLEAN /\ rec' \in Map!Workers
  BY Zenon DEF MapQuiet, MapWorkerInv
<1>4. Map!TypeOK'
  BY <1>1, <1>2, <1>3, Zenon DEF Map!Inv, Map!TypeOK, Map!Workers
<1>5. ds'.spec = ds.spec /\ ds'.ann = ds.ann /\ ds'.acked \in {ds.acked, a}
  BY Zenon DEF Same, MapQuiet
<1>6. Map!Truthful(ds', conf, restarts)
  BY <1>5, Zenon DEF Map!Inv, Map!AckInv, Map!Truthful
<1>7. Map!AckInv'
  BY <1>1, <1>6, Zenon DEF Map!Inv, Map!AckInv, MapWorkerInv
<1>8. MapAbstractStep
  BY Zenon DEF MapAbstractStep, Map!Applied!vars, Same, MapQuiet
<1> QED
  BY <1>2, <1>4, <1>7, <1>8, Zenon DEF Map!Inv, MapWorkerInv

\* What the steps of the worker start from.
LEMMA MapStart ==
    ASSUME Map!Inv
    PROVE  /\ Map!TypeOK /\ Map!CopyInv /\ ds \in Map!Objects /\ rec \in Map!Workers
           /\ rec.map \in Map!Objects /\ rec.base \in Map!Objects
           /\ rec.todo \in SUBSET Map!UUIDs /\ rec.acked \in SUBSET Map!UUIDs
           /\ rec.map.acked \in SUBSET Map!UUIDs
           /\ event \in BOOLEAN /\ queued \in BOOLEAN /\ mishaps \in 0..MaxMishaps
           /\ Map!Truthful(ds, conf, restarts) /\ Map!Truthful(rec.map, conf, restarts)
           /\ Map!Truthful(rec.base, conf, restarts) /\ Map!Confirmed(rec.acked, conf, restarts)
           /\ Map!Confirmed(rec.map.acked, conf, restarts)
              /\ Map!Confirmed(ds.acked, conf, restarts)
           /\ Same(ds, ds)
<1>1. /\ Map!TypeOK /\ ds \in Map!Objects /\ rec \in Map!Workers
      /\ event \in BOOLEAN /\ queued \in BOOLEAN /\ mishaps \in 0..MaxMishaps
  BY DEF Map!Inv, Map!TypeOK, Map!Workers
<1>2. rec.map \in Map!Objects /\ rec.base \in Map!Objects
      /\ rec.todo \in SUBSET Map!UUIDs /\ rec.acked \in SUBSET Map!UUIDs
  BY <1>1, Zenon DEF Map!Workers
<1>3. rec.map.acked \in SUBSET Map!UUIDs
  BY <1>2, MapFields
<1>4. Map!AckInv /\ Map!CopyInv
  BY Zenon DEF Map!Inv
<1>5. Map!Confirmed(rec.map.acked, conf, restarts) /\ Map!Confirmed(ds.acked, conf, restarts)
  BY <1>4, Zenon DEF Map!AckInv, Map!Truthful
<1> QED
  BY <1>1, <1>2, <1>3, <1>4, <1>5, Zenon DEF Map!AckInv, Same

\* A step of the worker that leaves the object alone.
LEMMA MapUntouched ==
    ASSUME Map!Inv, Map!KeepMap, queued' \in BOOLEAN, mishaps' \in mishaps..MaxMishaps
    PROVE  MapQuiet(ds.acked)
  BY MapStart DEF MapQuiet, Map!KeepMap

\* A status update that ends the reconciliation.
LEMMA MapStatusAndStop ==
    ASSUME Map!Inv, Map!Kept, NEW s \in Map!States, NEW a \in SUBSET Map!UUIDs, Map!Confirmed(a,
           conf, restarts),
           NEW q \in BOOLEAN, Map!UpdateMapStatus(s, a, Map!Idle, q)
    PROVE  Map!Inv' /\ MapAbstractStep
<1>1. MapQuiet(a) /\ rec' = Map!Idle
  BY MapStart, MapStatusUpdated, MapIdleFields, Zenon
<1> QED
  BY <1>1, MapStopped, MapUnseen, Zenon

\* A status update after which the reconciliation goes on from the setup or
\* from the calls of the members.
LEMMA MapStatusAndOn ==
    ASSUME Map!Inv, Map!Kept, rec.pc \in {"setup", "send"}, NEW s \in Map!States,
           NEW a \in SUBSET Map!UUIDs, Map!Confirmed(a, conf, restarts),
           NEW after \in Map!Workers, after.pc \in {"send", "validate"},
           Map!Confirmed(after.acked, conf, restarts),
           Map!Admissible(rec.base.ann, rec.base.spec),
           after.pc = "send" =>
               \A m \in Members : restarts[m] = 0 => <<m, 0>> \in after.todo \cup after.acked,
           after.pc = "validate" => Map!Everywhere(conf, restarts),
           NEW q \in BOOLEAN, Map!UpdateMapStatus(s, a, after, q)
    PROVE  Map!Inv' /\ MapAbstractStep
<1>1. Map!TypeOK /\ Map!CopyInv /\ Map!Truthful(rec.map, conf, restarts)
      /\ Map!Truthful(rec.base, conf, restarts)
  BY MapStart, Zenon
<1>2. MapQuiet(a) /\ rec' \in Map!Workers /\ (rec' = Map!Idle \/ MapGoesOn(after, a))
  BY <1>1, MapStatusUpdated, Zenon
<1>3. CASE rec' = Map!Idle
  BY <1>2, <1>3, MapStopped, MapUnseen, Zenon
<1>4. CASE MapGoesOn(after, a)
  <2>1. PICK d \in Map!Objects, b \in Map!Objects :
             /\ rec' = MapWith(after, d, b)
             /\ Same(rec.base, b) /\ (Same(rec.base, d) \/ Same(rec.map, d))
             /\ d.acked = a /\ b.acked \in {a, rec.base.acked}
    BY <1>4, Zenon DEF MapGoesOn
  <2>2. /\ rec'.pc = after.pc /\ rec'.map = d /\ rec'.base = b
        /\ rec'.todo = after.todo /\ rec'.acked = after.acked
    <3> DEFINE e == MapWith(after, d, b)
    <3>1. /\ e.pc = after.pc /\ e.map = d /\ e.base = b
          /\ e.todo = after.todo /\ e.acked = after.acked
      <4> HIDE DEF e
      <4>1. after \in Map!Workers /\ d \in Map!Objects /\ b \in Map!Objects
        OBVIOUS
      <4> QED
        BY ONLY <4>1, MapRenewed, SMTT(30) DEF e
    <3>2. rec' = e
      BY <2>1, Zenon
    <3> HIDE DEF e
    <3> QED
      BY <3>1, <3>2, Zenon
  <2>3. Map!IsLive(rec.base) /\ rec.map.spec = rec.base.spec
    BY <1>1, Zenon DEF Map!CopyInv
  <2>4. Map!IsLive(b)
    BY <2>1, <2>3, Zenon DEF Map!IsLive, Same
  <2>5. b.spec = rec.base.spec /\ b.ann = rec.base.ann /\ d.spec = b.spec
        /\ d.ann \in {rec.base.ann, rec.map.ann}
    BY <2>1, <2>3, Zenon DEF Same
  <2>6. Map!CopyInv'
    BY <2>2, <2>4, <2>5, Zenon DEF Map!CopyInv
  <2>7. UNCHANGED <<conf, restarts>>
    BY Zenon DEF Map!Kept, Map!members
  <2>8. Map!SentInv'
    BY <2>2, <2>7, Zenon DEF Map!SentInv
  <2>9. Map!Truthful(d, conf, restarts) /\ Map!Truthful(b, conf, restarts)
    BY <1>1, <2>1, <2>5, Zenon DEF Map!Truthful
  <2>10. MapWorkerInv
    BY <1>2, <2>2, <2>6, <2>8, <2>9, Zenon DEF MapWorkerInv
  <2> QED
    BY <1>2, <2>10, MapUnseen, Zenon
<1> QED
  BY <1>2, <1>3, <1>4, Zenon

----------------------------------------------------------------------------
(* The user, the caches, the cluster and the restarts.                     *)

\* A field that is edited keeps the type of the spec.
LEMMA MapFieldEdited ==
    ASSUME NEW s \in Map!Specs, NEW f \in DOMAIN Map!FirstSpec, NEW v \in 0..2,
           v = 2 => f = "fixed"
    PROVE  [s EXCEPT ![f] = v] \in Map!Specs
<1>1. f \in {"upd", "idle", "fixed", "open"}
  BY DEF Map!FirstSpec
<1>2. CASE f = "fixed"
  BY <1>2 DEF Map!Specs
<1>3. CASE f # "fixed"
  <2>1. v \in 0..1
    BY <1>3
  <2>2. CASE f = "upd"
    BY <2>1, <2>2, Zenon DEF Map!Specs
  <2>3. CASE f = "idle"
    BY <2>1, <2>3, Zenon DEF Map!Specs
  <2>4. CASE f = "open"
    BY <2>1, <2>4, Zenon DEF Map!Specs
  <2> QED
    BY <1>1, <1>3, <2>2, <2>3, <2>4, Zenon
<1> QED
  BY <1>2, <1>3, Zenon

LEMMA MapEditStep ==
    ASSUME Map!Inv, NEW f \in DOMAIN Map!FirstSpec, Map!Edit(f)
    PROVE  Map!Inv' /\ MapAbstractStep
<1>1. UNCHANGED <<cache, queued, cluster, conf, restarts, secret, hz, rec, mishaps>>
  BY DEF Map!Edit, Map!members, Map!config
<1>2. ds \in Map!Objects /\ edits' \in 0..MaxEdits /\ ds.spec \in Map!Specs
  BY MapStart, MapVersions, ConstantsAssumption DEF Map!Inv, Map!TypeOK, Map!Edit
<1>3. PICK v \in 0..2 : (v = 2 => f = "fixed") /\ Map!Store([ds EXCEPT !.spec[f] = v])
  BY DEF Map!Edit
<1> DEFINE s == [ds.spec EXCEPT ![f] = v]
           e == [ds EXCEPT !.spec = s]
<1>4. s \in Map!Specs
  BY <1>2, <1>3, MapFieldEdited, Zenon
<1>5. ds' = e /\ event' = TRUE
  BY <1>2, <1>3 DEF Map!Store, Map!Objects
<1> HIDE DEF s
<1>6. e \in Map!Objects /\ e.spec = s /\ e.ann = ds.ann /\ e.acked = ds.acked
  BY <1>2, <1>4, MapEdited
<1>7. e.live = ds.live /\ ds.live
  BY <1>2, <1>4, MapEditedLives, Zenon DEF Map!Edit
<1> HIDE DEF e
<1>8. Map!TypeOK'
  BY <1>1, <1>2, <1>5, <1>6 DEF Map!Inv, Map!TypeOK
<1>9. Map!CopyInv' /\ Map!SentInv' /\ Map!RestartInv'
  BY <1>1, Zenon DEF Map!Inv, Map!CopyInv, Map!SentInv, Map!RestartInv
<1>10. Map!AckInv'
  BY <1>1, <1>5, <1>6, Zenon DEF Map!Inv, Map!AckInv, Map!Truthful
<1>11. Map!Applied!Edit
  BY <1>4, <1>5, <1>6, <1>7 DEF Map!Applied!Edit
<1> QED
  BY <1>8, <1>9, <1>10, <1>11 DEF Map!Inv, MapAbstractStep, Map!Applied!Next

\* The object is removed from the API server.
LEMMA MapRemoved ==
    ASSUME Map!IsLive(ds), ds' = Map!Gone
    PROVE  MapAbstractStep
<1>1. ds'.spec \in Map!Specs /\ ds'.ann = Map!None
  BY MapGoneFields
<1>2. Map!Applied!Remove
  BY <1>1, MapGoneIsGone DEF Map!Applied!Remove, Map!IsLive
<1> QED
  BY <1>2 DEF MapAbstractStep, Map!Applied!Next

LEMMA MapDeleteStep == Map!Inv /\ Map!Delete => Map!Inv' /\ MapAbstractStep
<1> SUFFICES ASSUME Map!Inv, Map!Delete PROVE Map!Inv' /\ MapAbstractStep
  OBVIOUS
<1>1. /\ UNCHANGED <<cache, queued, cluster, conf, restarts, secret, hz, rec, edits, mishaps>>
      /\ event' = TRUE
  BY ZenonT(30) DEF Map!Delete, Map!Store, Map!members, Map!config, Map!count
<1>2. Map!CopyInv' /\ Map!SentInv' /\ Map!RestartInv'
  BY <1>1 DEF Map!Inv, Map!CopyInv, Map!SentInv, Map!RestartInv
<1>3. /\ ds' \in Map!Objects /\ MapAbstractStep /\ Map!Truthful(ds', conf, restarts)
  <2>1. CASE ds' = [ds EXCEPT !.deleting = TRUE]
    <3>1. ds' \in Map!Objects /\ Same(ds, ds') /\ ds'.acked = ds.acked
      BY <2>1, MapStart, MapMarked, Zenon DEF Map!States
    <3>2. MapAbstractStep
      BY <3>1 DEF MapAbstractStep, Map!Applied!vars, Same
    <3>3. ds'.ann = ds.ann
      BY <3>1, Zenon DEF Same
    <3>4. Map!Truthful(ds', conf, restarts)
      BY <3>1, <3>3, MapStart, Zenon DEF Map!Truthful
    <3> QED
      BY <3>1, <3>2, <3>4, Zenon
  <2>2. CASE ds' = Map!Gone
    <3>1. Map!IsLive(ds)
      BY DEF Map!Delete, Map!IsLive
    <3> QED
      BY <2>2, <3>1, MapRemoved, MapGoneFields, MapNothingSaid
  <2> QED
    BY <2>1, <2>2, Zenon DEF Map!Delete, Map!Store
<1>4. Map!TypeOK'
  BY <1>1, <1>3, Zenon DEF Map!Inv, Map!TypeOK
<1>5. Map!AckInv'
  BY <1>1, <1>3 DEF Map!Inv, Map!AckInv
<1> QED
  BY <1>2, <1>3, <1>4, <1>5 DEF Map!Inv

\* The steps that leave the object, the worker and the members alone.
LEMMA MapOthersStep ==
    Map!Inv /\ (Map!SyncCache \/ Map!ClusterUp \/ Map!ClusterDown \/ Map!BuildConfig
    \/ Map!WriteSecret)
        => Map!Inv' /\ MapAbstractStep
<1> SUFFICES ASSUME Map!Inv, Map!SyncCache \/ Map!ClusterUp \/ Map!ClusterDown
                    \/ Map!BuildConfig \/ Map!WriteSecret
             PROVE  Map!Inv' /\ MapAbstractStep
  OBVIOUS
<1>1. UNCHANGED <<ds, conf, restarts, rec, edits>>
  BY DEF Map!SyncCache, Map!ClusterUp, Map!ClusterDown, Map!BuildConfig, Map!WriteSecret,
     Map!members, Map!config, Map!count
<1>2. MapAbstractStep
  BY <1>1, Zenon DEF MapAbstractStep, Map!Applied!vars
<1>3. Map!CopyInv' /\ Map!SentInv'
  BY <1>1 DEF Map!Inv, Map!CopyInv, Map!SentInv
<1>4. cache' \in {cache, ds}
  BY Zenon DEF Map!SyncCache, Map!ClusterUp, Map!ClusterDown, Map!BuildConfig, Map!WriteSecret
<1>5. Map!AckInv'
  BY <1>1, <1>4, Zenon DEF Map!Inv, Map!AckInv
<1>6. Map!TypeOK' /\ Map!RestartInv'
  <2>1. cache' \in Map!Objects
    BY <1>4 DEF Map!Inv, Map!TypeOK
  <2>2. queued' \in BOOLEAN /\ event' \in BOOLEAN
    BY Zenon DEF Map!Inv, Map!TypeOK, Map!SyncCache, Map!ClusterUp, Map!ClusterDown, Map!BuildConfig,
       Map!WriteSecret
  <2>3. cluster' \in Map!Clusters
    BY DEF Map!Inv, Map!TypeOK, Map!Clusters, Map!SyncCache, Map!ClusterUp, Map!ClusterDown,
       Map!BuildConfig, Map!WriteSecret
  <2>4. mishaps' \in 0..MaxMishaps /\ Map!RestartInv'
    <3>1. Map!Fault \/ Map!NoFault
      BY DEF Map!SyncCache, Map!ClusterUp, Map!ClusterDown, Map!BuildConfig, Map!WriteSecret,
         Map!count, Map!NoFault
    <3> QED
      BY <1>1, <3>1, MapStart, MapCounted, MapBounded
  <2>5. Map!FileOf(cache) \in Map!Configs
    <3>1. cache.spec \in Map!Configs /\ cache.ann \in Map!Configs /\ Map!None \in Map!Configs
      BY MapVersions DEF Map!Inv, Map!TypeOK, Map!Configs
    <3>2. Map!FilterPersistedMaps(cache) \in Map!Configs
      BY <3>1 DEF Map!FilterPersistedMaps
    <3> QED
      BY <3>2, MapFileFields, Zenon DEF Map!FileOf
  <2>6. hz \in [busy: BOOLEAN, config: Map!Configs] /\ hz.config \in Map!Configs
        /\ Map!None \in Map!Configs
    BY DEF Map!Inv, Map!TypeOK, Map!Configs
  <2>7. secret' \in Map!Configs
    BY <2>6 DEF Map!Inv, Map!TypeOK, Map!SyncCache, Map!ClusterUp, Map!ClusterDown,
       Map!BuildConfig, Map!WriteSecret, Map!config
  <2>8. hz' \in [busy: BOOLEAN, config: Map!Configs]
    <3>1. hz' = hz \/ \E b \in BOOLEAN, c \in Map!Configs : hz' = [busy |-> b, config |-> c]
      BY <2>5, <2>6, Zenon DEF Map!SyncCache, Map!ClusterUp, Map!ClusterDown, Map!BuildConfig,
         Map!WriteSecret, Map!config
    <3> QED
      BY <2>6, <3>1
  <2> QED
    BY <1>1, <2>1, <2>2, <2>3, <2>4, <2>7, <2>8, Zenon DEF Map!Inv, Map!TypeOK
<1> QED
  BY <1>2, <1>3, <1>5, <1>6 DEF Map!Inv

LEMMA MapRestartStep == Map!Inv /\ Map!Restart => Map!Inv' /\ MapAbstractStep
<1> SUFFICES ASSUME Map!Inv, Map!Restart PROVE Map!Inv' /\ MapAbstractStep
  OBVIOUS
<1>1. /\ UNCHANGED <<ds, cluster, conf, restarts, secret, edits>> /\ rec' = Map!Idle
      /\ cache' = ds /\ event' = FALSE /\ queued' = TRUE
      /\ hz' = [busy |-> FALSE, config |-> Map!None]
  BY DEF Map!Restart, Map!members
<1>2. MapWorkerInv
  BY <1>1, MapStopped
<1>3. Map!AckInv'
  BY <1>1, <1>2, Zenon DEF Map!Inv, Map!AckInv, MapWorkerInv
<1>4. mishaps' \in 0..MaxMishaps /\ Map!RestartInv'
  BY <1>1, MapStart, MapCounted, MapBounded, Zenon DEF Map!Restart
<1>5. hz' \in [busy: BOOLEAN, config: Map!Configs] /\ rec' \in Map!Workers
  BY <1>1, <1>2, Zenon DEF Map!Configs, MapWorkerInv
<1>6. Map!TypeOK'
  BY <1>1, <1>4, <1>5, Zenon DEF Map!Inv, Map!TypeOK, Map!Workers
<1>7. MapAbstractStep
  BY <1>1, Zenon DEF MapAbstractStep, Map!Applied!vars
<1> QED
  BY <1>2, <1>3, <1>4, <1>6, <1>7 DEF Map!Inv, MapWorkerInv

\* No member that has not restarted loses its configuration.
LEMMA MapStillTruthful ==
    ASSUME NEW c, NEW n, NEW d, NEW k,
           \A m \in Members : k[m] = 0 => n[m] = 0 /\ (c[m] # Map!None => d[m] # Map!None)
    PROVE  /\ \A s : Map!Confirmed(s, c, n) => Map!Confirmed(s, d, k)
           /\ Map!Everywhere(c, n) => Map!Everywhere(d, k)
           /\ \A o : Map!Truthful(o, c, n) => Map!Truthful(o, d, k)
  BY DEF Map!Confirmed, Map!Everywhere, Map!Truthful

LEMMA MapMemberRestartStep ==
    ASSUME Map!Inv, NEW m \in Members, Map!MemberRestart(m)
    PROVE  Map!Inv' /\ MapAbstractStep
<1>1. UNCHANGED <<ds, event, cache, queued, cluster, secret, hz, rec, edits>>
  BY DEF Map!MemberRestart, Map!config
<1>2. restarts \in [Members -> 0..MaxMishaps] /\ conf \in [Members -> Map!Configs]
  BY DEF Map!Inv, Map!TypeOK
<1>3. /\ restarts' = [restarts EXCEPT ![m] = restarts[m] + 1]
      /\ conf' = [conf EXCEPT ![m] = secret]
  BY Zenon DEF Map!MemberRestart
<1>4. \A n \in Members : restarts'[n] = 0 => restarts[n] = 0 /\ (conf[n] # Map!None
      => conf'[n] # Map!None)
  BY <1>2, <1>3, ConstantsAssumption
<1>5. Map!CopyInv'
  BY <1>1, Zenon DEF Map!Inv, Map!CopyInv
<1>6. Map!AckInv'
  BY <1>1, <1>4, MapStillTruthful, Zenon DEF Map!Inv, Map!AckInv
<1>7. Map!SentInv'
  BY <1>1, <1>4, MapStillTruthful, Zenon DEF Map!Inv, Map!SentInv
<1>8. MapAbstractStep
  BY <1>1, Zenon DEF MapAbstractStep, Map!Applied!vars
<1>9. mishaps \in 0..MaxMishaps /\ mishaps < MaxMishaps /\ mishaps' = mishaps + 1
  BY DEF Map!Inv, Map!TypeOK, Map!MemberRestart, Map!Fault
<1>10. \A n \in Members : restarts[n] <= mishaps
  BY Zenon DEF Map!Inv, Map!RestartInv
<1>11. /\ mishaps' \in 0..MaxMishaps /\ Map!RestartInv'
       /\ restarts' \in [Members -> 0..MaxMishaps]
  BY <1>2, <1>3, <1>9, <1>10, ConstantsAssumption DEF Map!RestartInv
<1>12. conf' \in [Members -> Map!Configs]
  BY <1>2, <1>3, Zenon DEF Map!Inv, Map!TypeOK
<1>13. Map!TypeOK'
  BY <1>1, <1>11, <1>12, Zenon DEF Map!Inv, Map!TypeOK
<1> QED
  BY <1>5, <1>6, <1>7, <1>8, <1>11, <1>13, Zenon DEF Map!Inv

----------------------------------------------------------------------------
(* The worker.                                                             *)

LEMMA MapReconcileStep == Map!Inv /\ Map!Reconcile => Map!Inv' /\ MapAbstractStep
<1> SUFFICES ASSUME Map!Inv, Map!Reconcile PROVE Map!Inv' /\ MapAbstractStep
  OBVIOUS
<1>1. Map!Kept /\ Map!KeepMap /\ mishaps' = mishaps /\ queued' = FALSE
  BY ZenonT(30) DEF Map!Reconcile
<1>2. mishaps' \in mishaps..MaxMishaps /\ cache \in Map!Objects
      /\ Map!Truthful(cache, conf, restarts)
  BY <1>1, ConstantsAssumption DEF Map!Inv, Map!TypeOK, Map!AckInv
<1>3. MapQuiet(ds.acked)
  BY <1>1, <1>2, MapUntouched, Zenon
<1>4. CASE ~cache.live
  <2>1. rec' = Map!Idle
    BY <1>4, Zenon DEF Map!Reconcile
  <2> QED
    BY <1>1, <1>3, <2>1, MapStart, MapStopped, MapUnseen, Zenon
<1>5. CASE cache.live
  <2>1. PICK pc \in {"finalizer", "setup", "terminating"} :
            rec' = [Map!Idle EXCEPT !.map = cache, !.base = cache, !.pc = pc]
    BY <1>5, Zenon DEF Map!Reconcile
  <2>2. /\ rec' \in Map!Workers /\ rec'.pc = pc /\ rec'.map = cache /\ rec'.base = cache
        /\ rec'.acked = {}
    BY <1>2, <2>1, MapIdleFields, Zenon DEF Map!Workers, Map!PCs, Map!Idle
  <2>3. Map!IsLive(cache)
    BY <1>5, Zenon DEF Map!IsLive
  <2>4. Map!CopyInv' /\ Map!SentInv'
    BY <2>2, <2>3, ZenonT(30) DEF Map!CopyInv, Map!SentInv
  <2>5. MapWorkerInv
    BY <1>2, <2>2, <2>4, MapNothingSaid DEF MapWorkerInv
  <2> QED
    BY <1>1, <1>3, <2>5, MapStart, MapUnseen, Zenon
<1> QED
  BY <1>4, <1>5

LEMMA MapAddFinalizerStep == Map!Inv /\ Map!AddFinalizer => Map!Inv' /\ MapAbstractStep
<1> SUFFICES ASSUME Map!Inv, Map!AddFinalizer PROVE Map!Inv' /\ MapAbstractStep
  OBVIOUS
<1>1. Map!Kept /\ rec.pc = "finalizer"
  BY Zenon DEF Map!AddFinalizer
<1>2. rec.map = rec.base /\ Map!IsLive(rec.base)
  BY <1>1, MapStart, Zenon DEF Map!CopyInv
<1>3. CASE Map!NoFault /\ rec' = Map!Idle /\ Map!KeepMap /\ Map!Forget
  <2>1. MapQuiet(ds.acked)
    BY <1>3, MapStart, MapCounted, MapUntouched, Zenon DEF Map!Forget
  <2> QED
    BY <1>1, <1>3, <2>1, MapStart, MapStopped, MapUnseen, Zenon
<1>4. CASE Map!Fault /\ Map!Reported("Failed")
  <2>1. MapQuiet(ds.acked) /\ rec' = Map!Idle
    BY <1>4, MapStart, MapFailureReported, Zenon DEF Map!States
  <2> QED
    BY <1>1, <2>1, MapStart, MapStopped, MapUnseen, Zenon
<1>5. CASE /\ ~Map!Conflict /\ Map!NoFault /\ Map!Store([rec.map EXCEPT !.fin = TRUE])
           /\ rec' = [Map!To("setup") EXCEPT !.map = ds', !.base = ds'] /\ Map!Forget
  <2>1. ds = rec.map /\ ds' = [rec.map EXCEPT !.fin = TRUE] /\ event' = TRUE
    BY <1>2, <1>5 DEF Map!Conflict, Map!Store
  <2>2. ds' \in Map!Objects /\ Same(ds, ds') /\ ds'.acked = ds.acked
    BY <2>1, MapStart, MapMarked, Zenon DEF Map!States
  <2>3. Map!IsLive(ds') /\ ds'.ann = ds.ann
    BY <1>2, <2>1, <2>2 DEF Same, Map!IsLive
  <2>4. queued' \in BOOLEAN /\ mishaps' \in mishaps..MaxMishaps
    BY <1>5, MapStart, MapCounted DEF Map!Forget
  <2>5. MapQuiet(ds.acked)
    BY <2>1, <2>2, <2>4 DEF MapQuiet
  <2>6. Map!To("setup") \in Map!Workers /\ Map!To("setup").pc = "setup"
        /\ Map!To("setup").acked = rec.acked
    BY MapStart, MapMoved, Zenon DEF Map!To, Map!PCs
  <2>7. /\ rec' \in Map!Workers /\ rec'.pc = "setup" /\ rec'.map = ds' /\ rec'.base = ds'
        /\ rec'.acked = rec.acked
    <3>1. rec' = MapWith(Map!To("setup"), ds', ds')
      BY <1>5 DEF MapWith
    <3> QED
      BY <2>2, <2>6, <3>1, MapRenewed
  <2>8. Map!CopyInv' /\ Map!SentInv'
    BY <2>3, <2>7 DEF Map!CopyInv, Map!SentInv
  <2>9. Map!Truthful(ds', conf, restarts)
    BY <2>2, <2>3, MapStart, Zenon DEF Map!Truthful
  <2>10. MapWorkerInv
    BY <2>7, <2>8, <2>9, MapStart, Zenon DEF MapWorkerInv
  <2> QED
    BY <1>1, <2>5, <2>10, MapStart, MapUnseen, Zenon
<1> QED
  BY <1>3, <1>4, <1>5 DEF Map!AddFinalizer

LEMMA MapStartDeleteStep == Map!Inv /\ Map!StartDelete => Map!Inv' /\ MapAbstractStep
<1> SUFFICES ASSUME Map!Inv, Map!StartDelete PROVE Map!Inv' /\ MapAbstractStep
  OBVIOUS
<1> DEFINE copy == [rec.map EXCEPT !.state = "Terminating"]
<1>1. Map!Kept /\ rec.pc = "terminating" /\ queued' \in BOOLEAN
      /\ mishaps' \in mishaps..MaxMishaps
  BY MapStart, MapCounted, Zenon DEF Map!StartDelete, Map!Forget
<1>2. rec.map = rec.base /\ Map!IsLive(rec.base)
  BY <1>1, MapStart, Zenon DEF Map!CopyInv
<1>3. copy \in Map!Objects /\ Same(rec.map, copy) /\ copy.acked = rec.map.acked
  BY MapStart, MapMarked, Zenon DEF Map!States
<1>4. Map!To("remove") \in Map!Workers /\ Map!To("remove").pc = "remove"
      /\ Map!To("remove").acked = rec.acked
      /\ Map!To("remove").base = rec.base
  BY MapStart, MapMoved, Zenon DEF Map!To, Map!PCs
<1> HIDE DEF copy
<1>5. PICK b \in {copy, rec.base} :
        /\ rec' \in Map!Workers /\ rec'.pc = "remove" /\ rec'.map = copy /\ rec'.base = b
        /\ rec'.acked = rec.acked
  <2>1. CASE rec' = [Map!To("remove") EXCEPT !.map = copy, !.base = copy]
    <3>1. rec' = MapWith(Map!To("remove"), copy, copy)
      BY <2>1, SMTT(30) DEF MapWith
    <3>2. /\ rec' \in Map!Workers /\ rec'.pc = "remove" /\ rec'.map = copy /\ rec'.base = copy
          /\ rec'.acked = rec.acked
      BY <1>3, <1>4, <3>1, MapRenewed
    <3> QED
      BY <3>2
  <2>2. CASE rec' = [Map!To("remove") EXCEPT !.map = copy]
    BY <1>3, <1>4, <2>2, Zenon DEF Map!Workers
  <2> QED
    BY <2>1, <2>2 DEF Map!StartDelete, copy
<1>6. Map!IsLive(b) /\ copy.spec = b.spec /\ copy.ann = rec.map.ann
  BY <1>2, <1>3, <1>5, Zenon DEF Same, Map!IsLive
<1>7. Map!CopyInv' /\ Map!SentInv'
  BY <1>5, <1>6, Zenon DEF Map!CopyInv, Map!SentInv
<1>8. Map!Truthful(copy, conf, restarts)
  BY <1>3, <1>6, MapStart, Zenon DEF Map!Truthful
<1>9. MapWorkerInv
  BY <1>5, <1>7, <1>8, MapStart, Zenon DEF MapWorkerInv
<1>10. MapQuiet(ds.acked)
  <2>1. CASE Map!KeepMap
    BY <1>1, <2>1, MapUntouched, Zenon
  <2>2. CASE Map!Store(copy) /\ ~Map!Conflict
    <3>1. ds' = copy /\ ds = rec.map /\ event' = TRUE
      BY <1>2, <2>2, Zenon DEF Map!Conflict, Map!Store
    <3> QED
      BY <1>1, <1>3, <3>1, Zenon DEF MapQuiet
  <2> QED
    BY <2>1, <2>2, Zenon DEF Map!StartDelete, copy
<1> QED
  BY <1>1, <1>9, <1>10, MapStart, MapUnseen, Zenon

LEMMA MapExecuteFinalizerStep == Map!Inv /\ Map!ExecuteFinalizer => Map!Inv' /\ MapAbstractStep
<1> SUFFICES ASSUME Map!Inv, Map!ExecuteFinalizer PROVE Map!Inv' /\ MapAbstractStep
  OBVIOUS
<1>1. Map!Kept /\ rec.pc = "remove"
  BY Zenon DEF Map!ExecuteFinalizer
<1>2. CASE Map!NoFault /\ Map!KeepMap /\ rec' = Map!Idle /\ Map!Forget
  <2>1. MapQuiet(ds.acked)
    BY <1>2, MapStart, MapCounted, MapUntouched, Zenon DEF Map!Forget
  <2> QED
    BY <1>1, <1>2, <2>1, MapStart, MapStopped, MapUnseen, Zenon
<1>3. CASE Map!Fault /\ Map!Reported("Terminating")
  <2>1. MapQuiet(ds.acked) /\ rec' = Map!Idle
    BY <1>3, MapStart, MapFailureReported, Zenon DEF Map!States
  <2> QED
    BY <1>1, <2>1, MapStart, MapStopped, MapUnseen, Zenon
<1>4. CASE ~Map!Conflict /\ Map!NoFault /\ Map!Store(Map!Gone) /\ rec' = Map!Idle /\ Map!Forget
  <2>1. Map!IsLive(ds) /\ ds' = Map!Gone /\ event' = TRUE
    BY <1>1, <1>4, MapStart, Zenon DEF Map!CopyInv, Map!Conflict, Map!Store
  <2>2. UNCHANGED <<cache, queued, cluster, conf, restarts, secret, hz, edits, mishaps>>
    BY <1>1, <1>4 DEF Map!Kept, Map!members, Map!config, Map!Forget, Map!NoFault
  <2>3. MapAbstractStep
    BY <2>1, MapRemoved
  <2>4. MapWorkerInv
    BY <1>4, MapStopped
  <2>5. Map!RestartInv'
    BY <2>2, Zenon DEF Map!Inv, Map!RestartInv
  <2>6. Map!TypeOK'
    BY <2>1, <2>2, <2>4, MapGoneFields, Zenon DEF Map!Inv, Map!TypeOK, Map!Workers, MapWorkerInv
  <2>7. Map!AckInv'
    BY <2>1, <2>2, <2>4, MapNothingSaid, Zenon DEF Map!Inv, Map!AckInv, MapWorkerInv
  <2> QED
    BY <2>3, <2>4, <2>5, <2>6, <2>7, Zenon DEF Map!Inv, MapWorkerInv
<1> QED
  BY <1>2, <1>3, <1>4 DEF Map!ExecuteFinalizer

\* A member that has not restarted is in Ordered as it was.
LEMMA MapOrderedMembers ==
    ASSUME Map!Inv
    PROVE  /\ Map!Ordered \subseteq Map!UUIDs
           /\ \A m \in Members : restarts[m] = 0 => <<m, 0>> \in Map!Ordered
<1>1. restarts \in [Members -> 0..MaxMishaps]
  BY DEF Map!Inv, Map!TypeOK
<1>2. \A m \in Members : Map!UUID(m) \in Map!UUIDs /\ (restarts[m] = 0 => Map!UUID(m) = <<m, 0>>)
  BY <1>1, Zenon DEF Map!UUID, Map!UUIDs
<1> QED
  BY <1>2 DEF Map!Ordered

LEMMA MapSetupStops == Map!Inv /\ (Map!SetupFailed \/ Map!SetupApplied) => Map!Inv'
    /\ MapAbstractStep
<1> SUFFICES ASSUME Map!Inv, Map!SetupFailed \/ Map!SetupApplied PROVE Map!Inv' /\ MapAbstractStep
  OBVIOUS
<1>1. PICK s \in Map!States, q \in BOOLEAN :
          Map!UpdateMapStatus(s, rec.map.acked, Map!Idle, q) /\ Map!Kept
  BY Zenon DEF Map!SetupFailed, Map!SetupApplied, Map!UpdateFailed, Map!States
<1> QED
  BY <1>1, MapStart, MapStatusAndStop, Zenon

LEMMA MapSendingFields ==
    ASSUME Map!Inv
    PROVE  /\ Map!ToSend \in Map!Workers /\ Map!ToSend.pc = "send"
           /\ Map!ToSend.map = rec.map /\ Map!ToSend.base = rec.base
           /\ Map!Confirmed(Map!ToSend.acked, conf, restarts)
           /\ \A m \in Members : restarts[m] = 0
              => <<m, 0>> \in Map!ToSend.todo \cup Map!ToSend.acked
<1> DEFINE todo == Map!Ordered \ Map!Skipped
<1>1. Map!Ordered \subseteq Map!UUIDs /\ todo \subseteq Map!UUIDs
      /\ Map!Skipped \subseteq Map!UUIDs
  BY MapOrderedMembers, ZenonT(30) DEF Map!Skipped
<1>2. Map!Confirmed(Map!Skipped, conf, restarts)
  BY MapStart DEF Map!Skipped, Map!Confirmed
<1>3. \A m \in Members : restarts[m] = 0 => <<m, 0>> \in todo \cup Map!Skipped
  BY MapOrderedMembers
<1> HIDE DEF todo
<1>4. Map!ToSend = [rec EXCEPT !.pc = "send", !.todo = todo, !.acked = Map!Skipped, !.failed = FALSE]
  BY DEF Map!ToSend, todo
<1>5. /\ Map!ToSend \in Map!Workers /\ Map!ToSend.pc = "send" /\ Map!ToSend.todo = todo
         /\ Map!ToSend.acked = Map!Skipped
      /\ Map!ToSend.map = rec.map /\ Map!ToSend.base = rec.base
  BY <1>1, <1>4, MapStart, Zenon DEF Map!Workers, Map!PCs
<1> QED
  BY <1>2, <1>3, <1>5, Zenon

\* ValidateMapSpec lets through what may follow.
LEMMA MapValidIsAdmissible ==
    ASSUME NEW a \in Map!Configs, NEW s \in Map!Specs, ~Map!Unsupported(s), ~Map!Forbidden(a, s)
    PROVE  Map!Admissible(a, s)
<1>1. s.fixed \in 0..1
  BY MapSpecFields DEF Map!Unsupported
<1> QED
  BY <1>1 DEF Map!Forbidden, Map!Admissible

LEMMA MapSetupDoneStep == Map!Inv /\ Map!SetupDone => Map!Inv' /\ MapAbstractStep
<1> SUFFICES ASSUME Map!Inv, Map!SetupDone PROVE Map!Inv' /\ MapAbstractStep
  OBVIOUS
<1>1. Map!Kept /\ rec.pc = "setup" /\ ~Map!Invalid
  BY Zenon DEF Map!SetupDone
<1>2. rec.map = rec.base /\ Map!IsLive(rec.base)
  BY <1>1, MapStart, Zenon DEF Map!CopyInv
<1>3. Map!Admissible(rec.base.ann, rec.base.spec)
  BY <1>1, <1>2, MapStart, MapVersions, MapValidIsAdmissible, Zenon DEF Map!Invalid
<1>4. CASE rec' = Map!ToSend /\ Map!KeepMap /\ UNCHANGED <<queued, mishaps>>
  <2>1. /\ rec' \in Map!Workers /\ rec'.pc = "send" /\ rec'.map = rec.map /\ rec'.base = rec.base
        /\ Map!Confirmed(rec'.acked, conf, restarts)
        /\ \A m \in Members : restarts[m] = 0 => <<m, 0>> \in rec'.todo \cup rec'.acked
    BY <1>4, MapSendingFields, ZenonT(30)
  <2>2. Map!CopyInv'
    BY <1>2, <1>3, <2>1 DEF Map!CopyInv
  <2>3. UNCHANGED restarts
    BY <1>1, Zenon DEF Map!Kept, Map!members
  <2>4. Map!SentInv'
    BY <2>1, <2>3, ZenonT(30) DEF Map!SentInv
  <2>5. mishaps' \in mishaps..MaxMishaps
    BY <1>4, MapStart, ConstantsAssumption
  <2>6. MapQuiet(ds.acked)
    BY <1>4, <2>5, MapStart, MapUntouched, Zenon
  <2>7. MapWorkerInv
    BY <2>1, <2>2, <2>4, MapStart, Zenon DEF MapWorkerInv
  <2> QED
    BY <1>1, <2>6, <2>7, MapStart, MapUnseen, Zenon
<1>5. CASE Map!UpdateMapStatus("Pending", rec.map.acked, Map!ToSend, FALSE)
  BY <1>1, <1>3, <1>5, MapStart, MapSendingFields, MapStatusAndOn, Zenon DEF Map!States
<1> QED
  BY <1>4, <1>5, Zenon DEF Map!SetupDone

LEMMA MapFillFailedStep == Map!Inv /\ Map!FillFailed => Map!Inv' /\ MapAbstractStep
<1> SUFFICES ASSUME Map!Inv, Map!FillFailed PROVE Map!Inv' /\ MapAbstractStep
  OBVIOUS
<1>1. Map!Kept /\ rec' = Map!Idle /\ queued' \in BOOLEAN /\ mishaps' \in mishaps..MaxMishaps
  BY MapStart, MapCounted, Zenon DEF Map!FillFailed, Map!Requeue, Map!Forget
<1>2. CASE Map!KeepMap
  BY <1>1, <1>2, MapStart, MapUntouched, MapStopped, MapUnseen, Zenon
<1>3. CASE Map!Store(Stated(ds, "Failed", {}))
  <2>1. {} \in SUBSET Map!UUIDs /\ "Failed" \in Map!States
    BY Zenon DEF Map!States
  <2>2. ds' \in Map!Objects /\ Same(ds, ds') /\ ds'.acked = {} /\ event' = TRUE
    BY <1>3, <2>1, MapStart, MapReporting, Zenon DEF Map!Store
  <2>3. MapQuiet({}) /\ Map!Confirmed({}, conf, restarts)
    BY <1>1, <2>2, MapNothingSaid, Zenon DEF MapQuiet
  <2> QED
    BY <1>1, <2>3, MapStopped, MapUnseen
<1> QED
  BY <1>2, <1>3 DEF Map!FillFailed, Stated

\* A member that is called has a configuration afterwards: the request adds it,
\* or updates the one that every member got before.
LEMMA MapInvokeStep ==
    ASSUME Map!Inv, NEW u \in Map!UUIDs, Map!InvokeOnMember(u)
    PROVE  Map!Inv' /\ MapAbstractStep
<1>1. /\ UNCHANGED <<ds, event, cache, queued, cluster, restarts, secret, hz, edits>>
      /\ rec.pc = "send"
  BY DEF Map!InvokeOnMember, Map!KeepMap, Map!config
<1>2. mishaps' \in 0..MaxMishaps /\ Map!RestartInv'
  BY <1>1, MapStart, MapCounted, MapBounded, Zenon DEF Map!InvokeOnMember
<1>3. /\ restarts \in [Members -> 0..MaxMishaps] /\ conf \in [Members -> Map!Configs]
      /\ rec.map.spec \in Map!Specs
  BY MapStart, MapVersions, Zenon DEF Map!TypeOK
<1>4. MapAbstractStep
  BY <1>1, Zenon DEF MapAbstractStep, Map!Applied!vars
<1>5. CASE /\ u \in Map!Ordered
           /\ conf' = [conf EXCEPT ![u[1]] = IF Map!CreatedBefore
                                             THEN Map!Updated(conf[u[1]], rec.map.spec)
                                             ELSE rec.map.spec]
           /\ rec' = [rec EXCEPT !.todo = @ \ {u}, !.acked = @ \cup {u}]
  <2>1. PICK n \in Members : u = <<n, restarts[n]>>
    BY <1>5 DEF Map!Ordered, Map!UUID
  <2> DEFINE c == IF Map!CreatedBefore THEN Map!Updated(conf[n], rec.map.spec) ELSE rec.map.spec
  <2>2. conf' = [conf EXCEPT ![n] = c]
    BY <1>5, <2>1, Zenon
  <2>3. c \in Map!Configs /\ (conf[n] # Map!None => c # Map!None) /\ (restarts[n] = 0
        => c # Map!None)
    <3>1. CASE Map!CreatedBefore
      <4>1. Map!Everywhere(conf, restarts)
        BY <3>1, MapStart, Zenon DEF Map!CreatedBefore, Map!Truthful
      <4>2. restarts[n] = 0 => conf[n] # Map!None
        BY <4>1, Zenon DEF Map!Everywhere
      <4> QED
        BY <1>3, <3>1, <4>2, MapUpdatedFields, Zenon
    <3>2. CASE ~Map!CreatedBefore
      BY <1>3, <3>2, MapSpecFields, Zenon DEF Map!Configs
    <3> QED
      BY <3>1, <3>2, Zenon
  <2> HIDE DEF c
  <2>4. /\ conf' \in [Members -> Map!Configs] /\ (restarts[n] = 0 => conf'[n] # Map!None)
        /\ \A m \in Members : conf[m] # Map!None => conf'[m] # Map!None
    BY <1>3, <2>2, <2>3, Zenon
  <2>5. /\ rec' \in Map!Workers /\ rec'.pc = rec.pc /\ rec'.map = rec.map /\ rec'.base = rec.base
        /\ rec'.todo = rec.todo \ {u} /\ rec'.acked = rec.acked \cup {u}
    BY <1>5, MapStart, Zenon DEF Map!Workers
  <2>6. rec'.failed = rec.failed
    BY <1>5, MapStart DEF Map!Workers
  <2>7. Map!TypeOK'
    BY <1>1, <1>2, <2>4, <2>5 DEF Map!Inv, Map!TypeOK, Map!Workers
  <2>8. Map!CopyInv'
    BY <2>5, Zenon DEF Map!Inv, Map!CopyInv
  <2>9. \A m \in Members : restarts[m] = 0 /\ <<m, 0>> = u => conf'[m] # Map!None
    BY <2>1, <2>4, Zenon
  <2>10. /\ \A s : Map!Confirmed(s, conf, restarts) => Map!Confirmed(s, conf', restarts)
         /\ \A o : Map!Truthful(o, conf, restarts) => Map!Truthful(o, conf', restarts)
    BY <2>4, MapStillTruthful, Zenon
  <2>11. Map!Confirmed(rec'.acked, conf', restarts)
    BY <2>5, <2>9, <2>10, MapStart, Zenon DEF Map!Confirmed
  <2>12. Map!AckInv'
    BY <1>1, <2>5, <2>10, <2>11, Zenon DEF Map!Inv, Map!AckInv
  <2>13. Map!SentInv'
    BY <1>1, <2>5, <2>6, Zenon DEF Map!Inv, Map!SentInv
  <2> QED
    BY <1>2, <1>4, <2>7, <2>8, <2>12, <2>13, Zenon DEF Map!Inv
<1>6. CASE UNCHANGED conf /\ rec' = [rec EXCEPT !.todo = @ \ {u}, !.failed = TRUE]
  <2>1. /\ rec' \in Map!Workers /\ rec'.pc = rec.pc /\ rec'.map = rec.map /\ rec'.base = rec.base
        /\ rec'.acked = rec.acked
    BY <1>6, MapStart, Zenon DEF Map!Workers
  <2>2. rec'.failed = TRUE
    BY <1>6, MapStart DEF Map!Workers
  <2>3. Map!TypeOK'
    BY <1>1, <1>2, <1>6, <2>1 DEF Map!Inv, Map!TypeOK, Map!Workers
  <2>4. Map!CopyInv' /\ Map!AckInv'
    BY <1>1, <1>6, <2>1 DEF Map!Inv, Map!CopyInv, Map!AckInv
  <2>5. Map!SentInv'
    BY <1>1, <2>1, <2>2, Zenon DEF Map!SentInv
  <2> QED
    BY <1>2, <1>4, <2>3, <2>4, <2>5, Zenon DEF Map!Inv
<1> QED
  BY <1>5, <1>6 DEF Map!InvokeOnMember

LEMMA MapAnswersStop ==
    Map!Inv /\ (Map!SomeFailed \/ Map!ValidateMissing \/ Map!Succeed) => Map!Inv'
    /\ MapAbstractStep
<1> SUFFICES ASSUME Map!Inv, Map!SomeFailed \/ Map!ValidateMissing \/ Map!Succeed
             PROVE  Map!Inv' /\ MapAbstractStep
  OBVIOUS
<1>1. Map!Confirmed({}, conf, restarts) /\ {} \in SUBSET Map!UUIDs
  BY MapNothingSaid, Zenon
<1>2. PICK s \in Map!States, a \in {rec.acked, rec.map.acked, {}}, q \in BOOLEAN :
          Map!UpdateMapStatus(s, a, Map!Idle, q) /\ Map!Kept
  BY Zenon DEF Map!SomeFailed, Map!UpdateFailed, Map!ValidateMissing, Map!Succeed, Map!States
<1> QED
  BY <1>1, <1>2, MapStart, MapStatusAndStop, Zenon

LEMMA MapAllSentStep == Map!Inv /\ Map!AllSent => Map!Inv' /\ MapAbstractStep
<1> SUFFICES ASSUME Map!Inv, Map!AllSent PROVE Map!Inv' /\ MapAbstractStep
  BY Zenon
<1>1. /\ Map!Kept /\ rec.pc = "send" /\ rec.todo = {}
      /\ Map!UpdateMapStatus("Persisting", rec.map.acked, Map!To("validate"), FALSE)
  BY ZenonT(30) DEF Map!AllSent
<1>2. \A m \in Members : restarts[m] = 0 => <<m, 0>> \in rec.todo \cup rec.acked
  BY <1>1 DEF Map!AllSent, Map!Inv, Map!SentInv
<1>3. Map!Everywhere(conf, restarts)
  BY <1>1, <1>2, MapStart, Zenon DEF Map!Confirmed, Map!Everywhere
<1>4. Map!Admissible(rec.base.ann, rec.base.spec)
  BY <1>1, MapStart, Zenon DEF Map!CopyInv
<1>5. /\ Map!To("validate") \in Map!Workers /\ Map!To("validate").pc = "validate"
      /\ Map!To("validate").acked = rec.acked
  BY MapStart, MapMoved, Zenon DEF Map!To, Map!PCs
<1> HIDE DEF Map!To
<1> QED
  BY <1>1, <1>3, <1>4, <1>5, MapStart, MapStatusAndOn, Zenon DEF Map!States

LEMMA MapValidateFoundStep == Map!Inv /\ Map!ValidateFound => Map!Inv' /\ MapAbstractStep
<1> SUFFICES ASSUME Map!Inv, Map!ValidateFound PROVE Map!Inv' /\ MapAbstractStep
  OBVIOUS
<1>1. /\ Map!Kept /\ rec.pc = "validate" /\ rec' = Map!To("annotate")
      /\ Map!KeepMap /\ UNCHANGED <<queued, mishaps>>
  BY DEF Map!ValidateFound
<1>2. /\ rec' \in Map!Workers /\ rec'.pc = "annotate" /\ rec'.map = rec.map
         /\ rec'.base = rec.base
      /\ rec'.acked = rec.acked
  BY <1>1, MapStart, MapMoved, Zenon DEF Map!To, Map!PCs
<1>3. Map!CopyInv'
  BY <1>1, <1>2, MapStart, Zenon DEF Map!CopyInv
<1>4. UNCHANGED <<conf, restarts>>
  BY <1>1, Zenon DEF Map!Kept, Map!members
<1>5. Map!SentInv'
  BY <1>1, <1>2, <1>4, ZenonT(30) DEF Map!Inv, Map!SentInv
<1>6. mishaps' \in mishaps..MaxMishaps
  BY <1>1, MapStart, ConstantsAssumption
<1>7. MapQuiet(ds.acked)
  BY <1>1, <1>6, MapStart, MapUntouched, Zenon
<1>8. MapWorkerInv
  BY <1>2, <1>3, <1>5, MapStart, Zenon DEF MapWorkerInv
<1> QED
  BY <1>1, <1>7, <1>8, MapStart, MapUnseen, Zenon

LEMMA MapValidateFailedStep == Map!Inv /\ Map!ValidateFailed => Map!Inv' /\ MapAbstractStep
<1> SUFFICES ASSUME Map!Inv, Map!ValidateFailed PROVE Map!Inv' /\ MapAbstractStep
  OBVIOUS
<1>1. Map!Kept /\ Map!Fault /\ Map!Reported("Failed")
  BY Zenon DEF Map!ValidateFailed
<1>2. MapQuiet(ds.acked) /\ rec' = Map!Idle
  BY <1>1, MapStart, MapFailureReported, Zenon DEF Map!States
<1> QED
  BY <1>1, <1>2, MapStart, MapStopped, MapUnseen, Zenon

\* The one step that applies: the copy has the spec of the object, and that
\* spec may be applied.
LEMMA MapAnnotateStep == Map!Inv /\ Map!UpdateLastSuccessful => Map!Inv' /\ MapAbstractStep
<1> SUFFICES ASSUME Map!Inv, Map!UpdateLastSuccessful PROVE Map!Inv' /\ MapAbstractStep
  OBVIOUS
<1> DEFINE copy == [rec.base EXCEPT !.ann = rec.map.spec]
<1>1. Map!Kept /\ rec.pc = "annotate" /\ queued' \in BOOLEAN /\ mishaps' \in mishaps..MaxMishaps
  BY MapStart, MapCounted, Zenon DEF Map!UpdateLastSuccessful, Map!Forget
<1>2. /\ rec.map.spec = rec.base.spec /\ Map!IsLive(rec.base)
      /\ Map!Admissible(rec.base.ann, rec.base.spec) /\ rec.map.spec \in Map!Specs
  BY <1>1, MapStart, MapVersions, Zenon DEF Map!CopyInv
<1>3. /\ copy \in Map!Objects /\ copy.spec = rec.base.spec /\ copy.ann = rec.base.spec
      /\ copy.acked = rec.base.acked
  BY <1>2, MapStart, MapAnnotated
<1>4. copy.live = rec.base.live
  BY <1>2, MapStart, MapAnnotatedLives, Zenon
<1>5. Map!IsLive(copy)
  BY <1>2, <1>4, Zenon DEF Map!IsLive
<1>6. Map!To("final") \in Map!Workers /\ Map!To("final").pc = "final"
      /\ Map!To("final").acked = rec.acked
      /\ Map!To("final").base = rec.base /\ Map!To("final").map = rec.map
  BY MapStart, MapMoved, Zenon DEF Map!To, Map!PCs
<1>e. Map!Everywhere(conf, restarts)
  BY <1>1, Zenon DEF Map!Inv, Map!SentInv
<1> HIDE DEF copy
<1>7. CASE Map!Store(copy) /\ ~Map!Conflict
           /\ rec' = [Map!To("final") EXCEPT !.map = copy, !.base = copy]
  <2>1. ds = rec.base /\ ds' = copy /\ event' = TRUE
    BY <1>7 DEF Map!Conflict, Map!Store
  <2>2. rec' = MapWith(Map!To("final"), copy, copy)
    BY <1>7, Zenon DEF MapWith
  <2>3. /\ rec' \in Map!Workers /\ rec'.pc = "final" /\ rec'.map = copy /\ rec'.base = copy
        /\ rec'.acked = rec.acked
    BY <1>3, <1>6, <2>2, MapRenewed, Zenon
  <2>4. Map!CopyInv' /\ Map!SentInv'
    BY <1>5, <2>3, Zenon DEF Map!CopyInv, Map!SentInv
  <2>5. UNCHANGED <<cache, cluster, conf, restarts, secret, hz, edits>>
    BY <1>1, Zenon DEF Map!Kept, Map!members, Map!config
  <2>6. mishaps' \in 0..MaxMishaps /\ Map!RestartInv'
    BY <1>1, <2>5, MapBounded, Zenon
  <2>7. Map!TypeOK'
    BY <1>1, <1>3, <2>1, <2>3, <2>5, <2>6, Zenon DEF Map!Inv, Map!TypeOK, Map!Workers
  <2>8. Map!Truthful(copy, conf, restarts)
    BY <1>3, <1>e, MapStart, Zenon DEF Map!Truthful
  <2>9. Map!AckInv'
    BY <2>1, <2>3, <2>5, <2>8, Zenon DEF Map!Inv, Map!AckInv
  <2>10. ds.live /\ ds'.live = ds.live
    BY <1>2, <1>4, <2>1, ZenonT(30) DEF Map!IsLive
  <2>11. Map!Admissible(ds.ann, ds.spec) /\ ds'.ann = ds.spec /\ ds'.spec = ds.spec
    BY <1>2, <1>3, <2>1
  <2>12. Map!Applied!Apply
    BY <2>10, <2>11, Zenon DEF Map!Applied!Apply
  <2> QED
    BY <2>4, <2>6, <2>7, <2>9, <2>12, Zenon DEF Map!Inv, MapAbstractStep, Map!Applied!Next
<1>8. CASE Map!KeepMap /\ rec' = [Map!To("final") EXCEPT !.map.ann = rec.map.spec]
  <2> DEFINE d == [rec.map EXCEPT !.ann = rec.map.spec]
  <2>1. d \in Map!Objects /\ d.spec = rec.map.spec /\ d.acked = rec.map.acked
    BY <1>2, MapStart, MapAnnotated
  <2>2. rec' = [Map!To("final") EXCEPT !.map = d]
    BY <1>6, <1>8
  <2> HIDE DEF d
  <2>3. /\ rec' \in Map!Workers /\ rec'.pc = "final" /\ rec'.map = d /\ rec'.base = rec.base
        /\ rec'.acked = rec.acked
    BY <1>6, <2>1, <2>2, Zenon DEF Map!Workers
  <2>4. Map!CopyInv' /\ Map!SentInv'
    BY <1>2, <2>1, <2>3, Zenon DEF Map!CopyInv, Map!SentInv
  <2>5. Map!Truthful(d, conf, restarts)
    BY <1>e, <2>1, MapStart, Zenon DEF Map!Truthful
  <2>6. MapWorkerInv
    BY <2>3, <2>4, <2>5, MapStart, Zenon DEF MapWorkerInv
  <2>7. MapQuiet(ds.acked)
    BY <1>1, <1>8, MapStart, MapUntouched
  <2> QED
    BY <1>1, <2>6, <2>7, MapStart, MapUnseen, Zenon
<1> QED
  BY <1>7, <1>8 DEF Map!UpdateLastSuccessful, copy

----------------------------------------------------------------------------
(* The maps: the invariant.                                                *)

LEMMA MapInitInv == Map!Init => Map!Inv /\ Map!Applied!Init
<1> SUFFICES ASSUME Map!Init PROVE Map!Inv /\ Map!Applied!Init
  BY Zenon
<1>1. ds \in Map!Objects /\ cache \in Map!Objects /\ rec \in Map!Workers
      /\ Map!None \in Map!Configs
  BY MapNewFields, MapGoneFields, MapIdleFields, Zenon DEF Map!Init, Map!Configs
<1>2. hz \in [busy: BOOLEAN, config: Map!Configs]
  BY <1>1, Zenon DEF Map!Init
<1>3. edits \in 0..MaxEdits /\ mishaps \in 0..MaxMishaps /\ 0 \in 0..MaxMishaps
  BY ConstantsAssumption DEF Map!Init
<1>4. conf \in [Members -> Map!Configs] /\ restarts \in [Members -> 0..MaxMishaps]
      /\ secret \in Map!Configs
  BY <1>1, <1>3, Zenon DEF Map!Init
<1>5. Map!TypeOK
  BY <1>1, <1>2, <1>3, <1>4, Zenon DEF Map!Init, Map!TypeOK, Map!Workers, Map!Clusters
<1>6. Map!RestartInv
  BY DEF Map!Init, Map!RestartInv
<1>7. Map!AckInv
  BY MapNothingSaid, MapIdleFields, Zenon DEF Map!Init, Map!AckInv
<1>8. Map!CopyInv /\ Map!SentInv
  BY MapIdleFields, Zenon DEF Map!Init, Map!CopyInv, Map!SentInv
<1>9. Map!Applied!Init
  BY MapNewFields, MapNewLives DEF Map!Init, Map!Applied!Init
<1> QED
  BY <1>5, <1>6, <1>7, <1>8, <1>9, Zenon DEF Map!Inv

LEMMA MapNextInv == Map!Inv /\ [Map!Next]_(Map!vars) => Map!Inv' /\ MapAbstractStep
<1> SUFFICES ASSUME Map!Inv, [Map!Next]_(Map!vars) PROVE Map!Inv' /\ MapAbstractStep
  OBVIOUS
<1>1. CASE UNCHANGED Map!vars
  <2>1. UNCHANGED <<ds, cache, event, queued, cluster, conf, restarts, secret, hz, rec,
                    edits, mishaps>>
    BY <1>1 DEF Map!vars, Map!members, Map!config, Map!count
  <2>2. MapAbstractStep
    BY <2>1, Zenon DEF MapAbstractStep, Map!Applied!vars
  <2>3. Map!TypeOK'
    BY <2>1, Zenon DEF Map!Inv, Map!TypeOK
  <2>4. Map!RestartInv' /\ Map!CopyInv' /\ Map!AckInv' /\ Map!SentInv'
    BY <2>1, Zenon DEF Map!Inv, Map!RestartInv, Map!CopyInv, Map!AckInv, Map!SentInv
  <2> QED
    BY <2>2, <2>3, <2>4, Zenon DEF Map!Inv
<1>2. CASE \E m \in Members : Map!MemberRestart(m)
  BY <1>2, MapMemberRestartStep
<1>3. CASE \E u \in Map!UUIDs : Map!InvokeOnMember(u)
  BY <1>3, MapInvokeStep, Zenon
<1>4. CASE Map!Worker
  BY <1>3, <1>4, MapAddFinalizerStep, MapStartDeleteStep, MapExecuteFinalizerStep, MapSetupStops,
     MapSetupDoneStep, MapFillFailedStep, MapAnswersStop, MapAllSentStep, MapValidateFoundStep,
     MapValidateFailedStep, MapAnnotateStep, ZenonT(30)
  DEF Map!Worker
<1>5. CASE \E f \in DOMAIN Map!FirstSpec : Map!Edit(f)
  BY <1>5, MapEditStep
<1> QED
  BY <1>1, <1>2, <1>4, <1>5, MapDeleteStep, MapOthersStep, MapRestartStep,
     MapReconcileStep, Zenon DEF Map!Next

LEMMA MapInvariance == Map!Spec => []Map!Inv
<1>1. Map!Init => Map!Inv
  BY MapInitInv
<1>2. Map!Inv /\ [Map!Next]_(Map!vars) => Map!Inv'
  BY MapNextInv
<1> QED
  BY <1>1, <1>2, PTL DEF Map!Spec

\* The controller of the maps implements AppliedConfig too, although a map may
\* be edited after it was applied: ValidateMapSpec looks at the copy of the
\* worker, and the annotation is written only to the version that was read.
THEOREM MapRefinement == Map!Spec => Map!Applied!Spec
<1>1. Map!Init => Map!Applied!Init
  BY MapInitInv
<1>2. Map!Inv /\ [Map!Next]_(Map!vars) => [Map!Applied!Next]_(Map!Applied!vars)
  BY MapNextInv DEF MapAbstractStep
<1> QED
  BY <1>1, <1>2, MapInvariance, PTL DEF Map!Spec, Map!Applied!Spec

----------------------------------------------------------------------------
(* Either controller.                                                      *)

BothInv == (which = "map" /\ Map!Inv) \/ (which = "ds" /\ Inv)

LEMMA BothInitInv == BothInit => BothInv
BY InitInv, MapInitInv, Zenon DEF BothInit, BothInv

LEMMA BothNextInv == BothInv /\ [BothNext]_both => BothInv'
<1> SUFFICES ASSUME BothInv, [BothNext]_both PROVE BothInv'
  OBVIOUS
<1>1. UNCHANGED which
  BY DEF BothNext, DsStep, MapStep, both
<1>2. CASE which = "map"
  <2>1. Map!Inv
    BY <1>2 DEF BothInv
  <2>2. CASE UNCHANGED both
    <3>1. UNCHANGED <<ds, cache, event, queued, cluster, conf, restarts, secret, hz, rec,
                      edits, mishaps>>
      BY <2>2, Zenon DEF both, vars, members, config, count
    <3>2. UNCHANGED Map!vars
      BY <3>1 DEF Map!vars, Map!members, Map!config, Map!count
    <3> QED
      BY <1>1, <1>2, <2>1, <3>2, MapNextInv, Zenon DEF BothInv
  <2>3. CASE Map!Next
    BY <1>1, <1>2, <2>1, <2>3, MapNextInv, Zenon DEF BothInv
  <2> QED
    BY <1>2, <2>2, <2>3, Zenon DEF BothNext, DsStep, MapStep
<1>3. CASE which = "ds"
  <2>1. Inv
    BY <1>3 DEF BothInv
  <2>2. [Next]_vars
    BY <1>3 DEF BothNext, DsStep, MapStep, both
  <2> QED
    BY <1>1, <1>3, <2>1, <2>2, NextInv, Zenon DEF BothInv
<1> QED
  BY <1>2, <1>3 DEF BothInv

\* What is taken for applied every member has got, or has started with, of the
\* maps too, although an update (ReconcileMapConfig of a map that was created
\* before) gives nothing to a member that never got the map and counts as sent.
THEOREM BothOnMembers == BothSpec => []BothAppliedOnMembers
<1>1. BothInv => BothAppliedOnMembers
  <2>1. Map!Inv => Map!AppliedOnMembers
    BY Zenon DEF Map!Inv, Map!AckInv, Map!Truthful, Map!Everywhere, Map!AppliedOnMembers
  <2>2. Inv => AppliedOnMembers
    BY DEF Inv
  <2> QED
    BY <2>1, <2>2, Zenon DEF BothInv, BothAppliedOnMembers
<1> QED
  BY <1>1, BothInitInv, BothNextInv, PTL DEF BothSpec

============================================================================
