------------------------- MODULE HotBackup_proofs -------------------------
(* Proofs about the HotBackup controller, for every number of resources,  *)
(* creations, edits, faults and restarts.                                 *)
EXTENDS HotBackup, TLAPS

\* The values the actions put into the state have their types.
LEMMA Values ==
    /\ NoSpec \in Nat
    /\ \A u \in 0..MaxUid : Object(u) \in Objects
    /\ Gone \in Objects
    /\ Idle \in [pc: RecPCs, name: Backups, hb: Objects]
    /\ Idle.pc = "idle"
<1>1. NoSpec \in Nat
  BY ConstantsAssumption DEF NoSpec
<1>2. \A u \in 0..MaxUid : Object(u) \in Objects
  BY ConstantsAssumption DEF Object, Objects, NoSpec, States
<1>3. Gone \in Objects
  BY <1>2, ConstantsAssumption DEF Gone
<1>4. (CHOOSE b \in Backups : TRUE) \in Backups
  BY ConstantsAssumption
<1>5. Idle \in [pc: RecPCs, name: Backups, hb: Objects]
  BY <1>3, <1>4 DEF Idle, RecPCs
<1>6. QED
  BY <1>1, <1>2, <1>3, <1>5 DEF Idle

\* The functions that say that nothing was created or is running.
LEMMA NothingTyped ==
    /\ [b \in Backups |-> 0] \in [Backups -> 0..MaxUid]
    /\ [b \in Backups |-> [u \in Uids |-> "none"]] \in [Backups -> [Uids -> TaskPCs]]
    /\ [b \in Backups |-> [u \in Uids |-> 0]] \in [Backups -> [Uids -> Nat]]
<1>1. 0 \in 0..MaxUid /\ "none" \in TaskPCs
  BY ConstantsAssumption DEF TaskPCs
<1>2. QED
  BY <1>1

\* The types of the fields of an object that the proofs need.
LEMMA FieldTypes ==
    ASSUME NEW o \in Objects
    PROVE  o.spec \in 0..MaxEdits /\ o.uid \in 0..MaxUid
BY DEF Objects

\* The identities of the objects are numbers.
LEMMA UidTypes ==
    ASSUME TypeOK, NEW b \in Backups
    PROVE  /\ api[b].uid \in Nat /\ cache[b].uid \in Nat
           /\ created[b] \in Nat /\ rec.hb.uid \in Nat
<1>1. api[b] \in Objects /\ cache[b] \in Objects /\ rec.hb \in Objects
  BY DEF TypeOK
<1>2. created[b] \in 0..MaxUid
  BY DEF TypeOK
<1>3. /\ api[b].uid \in 0..MaxUid /\ cache[b].uid \in 0..MaxUid
      /\ rec.hb.uid \in 0..MaxUid
  BY <1>1, FieldTypes
<1>4. \A k \in 0..MaxUid : k \in Nat
  BY ConstantsAssumption
<1>5. QED
  BY <1>2, <1>3, <1>4

\* Zero or the last identity given out is at most that one.
LEMMA UidBound ==
    ASSUME NEW n \in Nat, NEW k \in {0, n} PROVE k <= n
OBVIOUS

\* A positive number up to n is in the interval.
LEMMA UidInterval ==
    ASSUME NEW n \in Nat, NEW k \in Nat, k # 0, k <= n PROVE k \in 1..n
OBVIOUS

\* Identities that were given out are positive numbers.
LEMMA UidPositive ==
    ASSUME NEW u \in Uids PROVE u \in Nat /\ u # 0
BY ConstantsAssumption DEF Uids

\* A counter is at least itself, and a count more makes it positive and another.
LEMMA Counts ==
    ASSUME NEW n \in Nat PROVE n >= n /\ n + 1 > 0 /\ n + 1 # n /\ n + 1 # 0
OBVIOUS

\* A number up to n stays below the next one, and one beyond the next beyond n.
LEMMA Beyond ==
    ASSUME NEW n \in Nat, NEW k \in Nat
    PROVE  /\ k > n + 1 => k > n
           /\ k <= n => k <= n + 1 /\ k # n + 1
OBVIOUS

\* Changing one field of an object gives an object.
LEMMA FieldUpdates ==
    ASSUME NEW o \in Objects
    PROVE  /\ \A s \in States : [o EXCEPT !.state = s] \in Objects
           /\ \A k \in 0..MaxEdits : [o EXCEPT !.spec = k] \in Objects
           /\ \A k \in 0..NoSpec : [o EXCEPT !.ann = k] \in Objects
           /\ [o EXCEPT !.fin = TRUE] \in Objects
           /\ [o EXCEPT !.deleting = TRUE] \in Objects
BY Zenon DEF Objects

\* updateStatus, with either result, leaves objects and counters typed.
LEMMA StatusTypes ==
    ASSUME TypeOK, NEW b \in Backups, NEW s \in States,
           UpdateStatusOk(b, s) \/ UpdateStatusErr(b)
    PROVE  api' \in [Backups -> Objects] /\ faults' \in 0..MaxFaults
<1>1. CASE UpdateStatusOk(b, s)
  <2>1. [api[b] EXCEPT !.state = s] \in Objects
    BY FieldUpdates, Zenon DEF TypeOK
  <2>2. QED
    BY <1>1, <2>1 DEF UpdateStatusOk, WriteState, NoFault, TypeOK
<1>2. CASE UpdateStatusErr(b)
  BY <1>2, ConstantsAssumption DEF UpdateStatusErr, Fault, NoFault, TypeOK
<1>3. QED
  BY <1>1, <1>2

\* The worker leaves a Goto in one of its places.
LEMMA GotoType ==
    ASSUME NEW pc \in RecPCs, NEW b \in Backups, NEW hb \in Objects,
           Goto(pc, b, hb)
    PROVE  rec' \in [pc: RecPCs, name: Backups, hb: Objects]
BY Values DEF Goto

\* Every step of the reconcile worker keeps the variables in their types.
LEMMA WorkerType ==
    ASSUME TypeOK, NEW b \in Backups, Worker(b)
    PROVE  TypeOK'
<1>0. /\ rec.hb \in Objects /\ "failure" \in RecPCs /\ "notStarted" \in RecPCs
      /\ \A o \in Objects : AfterFinalizer(b, o) \in RecPCs
  BY DEF TypeOK, RecPCs, AfterFinalizer
<1>f. ASSUME Fault PROVE faults' \in 0..MaxFaults
  BY <1>f, ConstantsAssumption DEF TypeOK, Fault
<1>1. CASE AddFinalizer(b)
  <2> DEFINE new == [rec.hb EXCEPT !.fin = TRUE]
  <2>1. new \in Objects
    BY <1>0, FieldUpdates, Zenon
  <2> HIDE DEF new
  <2>2. CASE /\ api' = [api EXCEPT ![b] = new] /\ NoFault
             /\ Goto(AfterFinalizer(b, new), b, new)
    <3>1. rec' \in [pc: RecPCs, name: Backups, hb: Objects]
      BY <1>0, <2>1, <2>2, GotoType
    <3>2. QED
      BY <1>1, <2>1, <2>2, <3>1 DEF TypeOK, AddFinalizer, NoFault, mem, run, env
  <2>3. CASE /\ UNCHANGED api /\ (NoFault \/ Fault)
             /\ Goto("failure", b, rec.hb)
    <3>1. rec' \in [pc: RecPCs, name: Backups, hb: Objects]
      BY <1>0, <2>3, GotoType
    <3>2. QED
      BY <1>1, <1>f, <2>3, <3>1 DEF TypeOK, AddFinalizer, NoFault, mem, run, env
  <2>4. QED
    BY <1>1, <2>2, <2>3 DEF AddFinalizer, new
<1>2. CASE RefuseDelete(b)
  <2>1. rec' \in [pc: RecPCs, name: Backups, hb: Objects]
    BY <1>0, <1>2, GotoType DEF RefuseDelete
  <2>2. QED
    BY <1>2, <2>1 DEF TypeOK, RefuseDelete, kube, mem, run, env, count
<1>3. CASE ExecuteFinalizer(b)
  <2>1. cancelled' \subseteq Backups \X Uids
    BY <1>3, ConstantsAssumption DEF ExecuteFinalizer, CancelContext, TypeOK, Uids
  <2>2. api' \in [Backups -> Objects]
    BY <1>3, Values, Zenon DEF ExecuteFinalizer, TypeOK
  <2>3. rec' \in [pc: RecPCs, name: Backups, hb: Objects]
    BY <1>0, <1>3, GotoType, Values DEF ExecuteFinalizer
  <2>4. faults' \in 0..MaxFaults
    BY <1>3, <1>f DEF ExecuteFinalizer, NoFault, TypeOK
  <2>5. cancelMap' \in [Backups -> 0..MaxUid]
    BY <1>3, ConstantsAssumption DEF ExecuteFinalizer, TypeOK
  <2>6. QED
    BY <1>3, <2>1, <2>2, <2>3, <2>4, <2>5 DEF ExecuteFinalizer, TypeOK, run, env
<1>4. CASE ReportFailure(b)
  <2>1. api' \in [Backups -> Objects] /\ faults' \in 0..MaxFaults
    BY <1>4, StatusTypes, Zenon DEF ReportFailure, States, Finished
  <2>2. QED
    BY <1>4, <2>1, Values DEF ReportFailure, TypeOK, mem, run, env
<1>5. CASE HazelcastNotReady(b)
  <2>1. api' \in [Backups -> Objects] /\ faults' \in 0..MaxFaults
    BY <1>5, StatusTypes, Zenon DEF HazelcastNotReady, States
  <2>2. QED
    BY <1>5, <2>1, Values DEF HazelcastNotReady, TypeOK, mem, run, env
<1>6. CASE NoPersistence(b)
  <2>1. rec' \in [pc: RecPCs, name: Backups, hb: Objects]
    BY <1>0, <1>6, GotoType DEF NoPersistence
  <2>2. QED
    BY <1>6, <2>1 DEF TypeOK, NoPersistence, kube, mem, run, env, count
<1>7. CASE SaveSpec(b)
  <2>1. api[b] \in Objects /\ api[b].spec \in 0..MaxEdits /\ rec.hb.uid \in 0..MaxUid
    BY <1>0, FieldTypes DEF TypeOK
  <2>2. api[b].spec \in 0..NoSpec
    BY <2>1, ConstantsAssumption DEF NoSpec
  <2>3. [api[b] EXCEPT !.ann = api[b].spec] \in Objects
    BY <2>1, <2>2, FieldUpdates, Zenon
  <2>4. api' \in [Backups -> Objects]
    <3>1. api \in [Backups -> Objects]
      BY DEF TypeOK
    <3>2. \/ api' = api
          \/ api' = [api EXCEPT ![b] = [api[b] EXCEPT !.ann = api[b].spec]]
      BY <1>7, <3>1 DEF SaveSpec, UpdateStatusErr
    <3>3. QED
      BY <2>3, <3>1, <3>2
  <2>5. rec' \in [pc: RecPCs, name: Backups, hb: Objects]
    BY <1>0, <1>7, GotoType, Values DEF SaveSpec
  <2>6. faults' \in 0..MaxFaults
    BY <1>7, <1>f DEF SaveSpec, UpdateStatusErr, NoFault, TypeOK
  <2>7. cancelMap' \in [Backups -> 0..MaxUid]
    BY <1>7, <2>1, Zenon DEF SaveSpec, TypeOK
  <2>8. QED
    BY <1>7, <2>4, <2>5, <2>6, <2>7 DEF SaveSpec, TypeOK, run, env
<1>8. CASE Launch(b)
  <2>1. api' \in [Backups -> Objects] /\ faults' \in 0..MaxFaults
    BY <1>8, StatusTypes, Zenon DEF Launch, States, Running
  <2> DEFINE u == rec.hb.uid
  <2>2. task' \in [Backups -> [Uids -> TaskPCs]]
    <3>1. [task[b] EXCEPT ![u] = "inProgress"] \in [Uids -> TaskPCs]
      BY Zenon DEF TypeOK, TaskPCs
    <3>2. QED
      BY <1>8, <3>1, Zenon DEF Launch, TypeOK
  <2>3. launches' \in [Backups -> [Uids -> Nat]]
    <3> DEFINE new == [launches[b] EXCEPT ![u] = launches[b][u] + 1]
    <3>1. launches[b] \in [Uids -> Nat]
      BY DEF TypeOK
    <3>2. new \in [Uids -> Nat]
      <4>1. u \in Uids => launches[b][u] + 1 \in Nat
        BY <3>1
      <4> DEFINE k == launches[b][u] + 1
      <4> HIDE DEF k, u
      <4>2. [launches[b] EXCEPT ![u] = k] \in [Uids -> Nat]
        BY <3>1, <4>1, Zenon DEF k
      <4> QED
        BY <4>2 DEF k
    <3>3. launches' = [launches EXCEPT ![b] = new] \/ launches' = launches
      BY <1>8 DEF Launch
    <3> HIDE DEF new
    <3>4. QED
      BY <3>2, <3>3, Zenon DEF TypeOK
  <2>4. QED
    BY <1>8, <2>1, <2>2, <2>3, Values DEF Launch, TypeOK, env
<1>9. QED
  BY <1>1, <1>2, <1>3, <1>4, <1>5, <1>6, <1>7, <1>8 DEF Worker

\* Every step of a backup goroutine keeps the variables in their types.
LEMMA TaskType ==
    ASSUME TypeOK, NEW b \in Backups, NEW u \in Uids, Task(b, u)
    PROVE  TypeOK'
<1>f. ASSUME Fault PROVE faults' \in 0..MaxFaults
  BY <1>f, ConstantsAssumption DEF TypeOK, Fault
<1>s. ASSUME NEW pc \in TaskPCs, Step(b, u, pc)
      PROVE  task' \in [Backups -> [Uids -> TaskPCs]]
  <2>1. [task[b] EXCEPT ![u] = pc] \in [Uids -> TaskPCs]
    BY DEF TypeOK
  <2>2. QED
    BY <1>s, <2>1 DEF Step, TypeOK
<1>1. CASE TaskInProgress(b, u)
  <2>1. api' \in [Backups -> Objects] /\ faults' \in 0..MaxFaults
    BY <1>1, StatusTypes, Zenon
    DEF TaskInProgress, TaskStatus, TaskStatusErr, NoFault, TypeOK, States, Running
  <2>2. QED
    BY <1>1, <1>s, <2>1 DEF TaskInProgress, TypeOK, TaskPCs, mem, env
<1>2. CASE TaskPrepare(b, u)
  BY <1>2, <1>s DEF TaskPrepare, TypeOK, TaskPCs, kube, mem, env, count
<1>3. CASE TaskPassive(b, u)
  BY <1>3, <1>f, <1>s DEF TaskPassive, NoFault, TypeOK, TaskPCs, kube, mem, env
<1>4. CASE TaskTrigger(b, u)
  BY <1>4, <1>f, <1>s DEF TaskTrigger, NoFault, TypeOK, TaskPCs, kube, mem, env
<1>5. CASE TaskActivate(b, u)
  BY <1>5, <1>f, <1>s DEF TaskActivate, NoFault, TypeOK, TaskPCs, kube, mem, env
<1>6. CASE TaskWait(b, u)
  BY <1>6, <1>s DEF TaskWait, TypeOK, TaskPCs, kube, mem, env, count
<1>7. CASE TaskTransfer(b, u)
  BY <1>7, <1>s DEF TaskTransfer, TypeOK, TaskPCs, kube, mem, env, count
<1>8. CASE TaskFinish(b, u)
  <2>1. api' \in [Backups -> Objects] /\ faults' \in 0..MaxFaults
    BY <1>8, StatusTypes, Zenon
    DEF TaskFinish, TaskStatus, TaskStatusErr, NoFault, TypeOK, States, Finished
  <2>2. QED
    BY <1>8, <1>s, <2>1 DEF TaskFinish, TypeOK, TaskPCs, mem, env
<1>9. QED
  BY <1>1, <1>2, <1>3, <1>4, <1>5, <1>6, <1>7, <1>8 DEF Task

\* Every step of the users, the cache, Hazelcast and the process itself
\* keeps the variables in their types.
LEMMA EnvironmentType ==
    ASSUME TypeOK,
           \/ \E b \in Backups : Users(b) \/ CacheSync(b) \/ Reconcile(b)
           \/ \E p \in HzPhases : HazelcastChange(p)
           \/ HazelcastRegister \/ HazelcastDisconnect \/ Restart
    PROVE  TypeOK'
<1>1. ASSUME NEW b \in Backups, Create(b) PROVE TypeOK'
  <2>1. created[b] + 1 \in 0..MaxUid
    BY <1>1, ConstantsAssumption DEF TypeOK, Create
  <2>2. Object(created[b] + 1) \in Objects
    BY <2>1, Values
  <2>3. QED
    BY <1>1, <2>1, <2>2 DEF TypeOK, Create, mem, run, env, count
<1>2. ASSUME NEW b \in Backups, Edit(b) PROVE TypeOK'
  <2>1. api[b] \in Objects /\ api[b].spec < MaxEdits
    BY <1>2 DEF TypeOK, Edit
  <2>2. api[b].spec \in 0..MaxEdits
    BY <2>1, FieldTypes
  <2>3. api[b].spec + 1 \in 0..MaxEdits
    BY <2>1, <2>2, ConstantsAssumption
  <2>4. [api[b] EXCEPT !.spec = api[b].spec + 1] \in Objects
    BY <2>1, <2>3, FieldUpdates, Zenon
  <2>5. QED
    BY <1>2, <2>4 DEF TypeOK, Edit, mem, run, env, count
<1>3. ASSUME NEW b \in Backups, Delete(b) PROVE TypeOK'
  <2>1. [api[b] EXCEPT !.deleting = TRUE] \in Objects
    BY FieldUpdates, Zenon DEF TypeOK
  <2>2. QED
    BY <1>3, <2>1, Values DEF TypeOK, Delete, mem, run, env, count
<1>4. ASSUME NEW b \in Backups, Reference(b) PROVE TypeOK'
  BY <1>4 DEF TypeOK, Reference, kube, mem, run, count
<1>5. ASSUME NEW b \in Backups, CacheSync(b) PROVE TypeOK'
  BY <1>5 DEF TypeOK, CacheSync, mem, run, env, count
<1>6. ASSUME NEW b \in Backups, Reconcile(b) PROVE TypeOK'
  <2>1. /\ cache[b] \in Objects /\ "finalizer" \in RecPCs
        /\ AfterFinalizer(b, cache[b]) \in RecPCs
    BY DEF TypeOK, AfterFinalizer, RecPCs
  <2>2. rec' \in [pc: RecPCs, name: Backups, hb: Objects]
    BY <1>6, <2>1, GotoType DEF Reconcile
  <2>3. QED
    BY <1>6, <2>2 DEF TypeOK, Reconcile, kube, mem, run, env, count
<1>7. ASSUME NEW p \in HzPhases, HazelcastChange(p) PROVE TypeOK'
  BY <1>7, Zenon DEF TypeOK, HazelcastChange, kube, mem, run, count
<1>8. CASE HazelcastRegister
  BY <1>8 DEF TypeOK, HazelcastRegister, kube, mem, run, count
<1>9. CASE HazelcastDisconnect
  BY <1>9, Zenon DEF TypeOK, HazelcastDisconnect, kube, mem, run, count
<1>10. CASE Restart
  <2>1. crashes' \in 0..MaxCrashes
    BY <1>10, ConstantsAssumption DEF TypeOK, Restart
  <2>2. /\ task' \in [Backups -> [Uids -> TaskPCs]]
        /\ cancelMap' \in [Backups -> 0..MaxUid]
    BY <1>10, NothingTyped DEF Restart
  <2>3. QED
    BY <1>10, <2>1, <2>2, Values, Zenon DEF TypeOK, Restart
<1>11. QED
  BY <1>1, <1>2, <1>3, <1>4, <1>5, <1>6, <1>7, <1>8, <1>9, <1>10 DEF Users

\* Every step keeps the variables in their types.
LEMMA TypeStep == TypeOK /\ [Next]_vars => TypeOK'
<1> SUFFICES ASSUME TypeOK, [Next]_vars PROVE TypeOK'
  OBVIOUS
<1>1. CASE UNCHANGED vars
  BY <1>1, Zenon DEF TypeOK, vars, kube, mem, run, env, count
<1>2. CASE Next
  BY <1>2, WorkerType, TaskType, EnvironmentType DEF Next, TaskPanic
<1>3. QED
  BY <1>1, <1>2

\* The variables have their types at first.
LEMMA InitType == Init => TypeOK
<1> SUFFICES ASSUME Init PROVE TypeOK
  OBVIOUS
<1>1. /\ api \in [Backups -> Objects] /\ cache \in [Backups -> Objects]
      /\ rec \in [pc: RecPCs, name: Backups, hb: Objects]
  BY Values DEF Init
<1>2. /\ task \in [Backups -> [Uids -> TaskPCs]]
      /\ launches \in [Backups -> [Uids -> Nat]]
      /\ created \in [Backups -> 0..MaxUid]
      /\ cancelMap \in [Backups -> 0..MaxUid]
  BY NothingTyped DEF Init
<1>3. faults \in 0..MaxFaults /\ crashes \in 0..MaxCrashes
  BY ConstantsAssumption DEF Init
<1>4. statusService \in BOOLEAN /\ hz \in HzPhases
  BY Zenon DEF Init, HzPhases
<1>5. QED
  BY <1>1, <1>2, <1>3, <1>4 DEF Init, TypeOK

\* The types of the variables hold in every reachable state of the
\* HotBackup controller, for every value of the constants.
THEOREM TypeCorrect == Spec => []TypeOK
BY InitType, TypeStep, PTL DEF Spec

---------------------------------------------------------------------------
(* The inductive invariant.                                                *)

\* The part of the invariant that says who may be launched and who owns what.
Base == TypeOK /\ \A b \in Backups : ObjectInv(b) /\ WorkerInv(b)

\* What ObjectInv(c) and WorkerInv(c) look at is as before, except that
\* goroutines of c may have ended.
Same(c) ==
    /\ api'[c] = api[c] /\ cache'[c] = cache[c] /\ created'[c] = created[c]
    /\ launches'[c] = launches[c] /\ cancelMap'[c] = cancelMap[c]
    /\ (c \in backup)' = (c \in backup)
    /\ \A u \in Uids : Cancelled(c, u)' = Cancelled(c, u)
    /\ \A u \in Uids : Live(c, u)' => Live(c, u)

\* The worker goes on with the same request, or has nothing left to do but
\* to report.
Ends == rec' = rec \/ rec'.pc \in {"idle", "failure"}

\* A step that leaves an object alone keeps its invariant.
LEMMA ObjectFrame ==
    ASSUME NEW c \in Backups, ObjectInv(c), Same(c)
    PROVE  ObjectInv(c)'
<1>1. LaunchedOnce(c)'
  BY Zenon DEF ObjectInv, LaunchedOnce, Same
<1>2. CacheIsBehind(c)'
  BY Zenon DEF ObjectInv, CacheIsBehind, Same
<1>3. LaunchIsRemembered(c)'
  BY Zenon DEF ObjectInv, LaunchIsRemembered, Launched, Same
<1>4. TaskIsOwned(c)'
  BY DEF ObjectInv, TaskIsOwned, Same
<1>5. QED
  BY <1>1, <1>2, <1>3, <1>4 DEF ObjectInv

\* A step that leaves the worker and its object alone keeps the worker's
\* invariant, and a worker that only has to report has none to keep.
LEMMA WorkerFrame ==
    ASSUME NEW c \in Backups, WorkerInv(c), Ends,
           rec' = rec => Same(c)
    PROVE  WorkerInv(c)'
<1>1. CASE rec'.pc \in {"idle", "failure"}
  BY <1>1, Zenon DEF WorkerInv, LaunchIsFirst, DeletionIsKnown
<1>2. CASE rec' = rec
  BY <1>2 DEF WorkerInv, LaunchIsFirst, DeletionIsKnown, Launched, Same
<1>3. QED
  BY <1>1, <1>2, Zenon DEF Ends

\* updateStatus(s) keeps the invariant when s says that the backup was
\* started, or when it was not.
LEMMA StateWritten ==
    ASSUME TypeOK, NEW b \in Backups, NEW s \in States,
           \A c \in Backups : ObjectInv(c) /\ WorkerInv(c),
           WriteState(b, s),
           s \in Running \cup Finished \/ ~Launched(b, api[b]),
           UNCHANGED <<cache, created, cancelMap, backup, cancelled, launches>>,
           \A c \in Backups, u \in Uids : Live(c, u)' => Live(c, u),
           Ends
    PROVE  \A c \in Backups : ObjectInv(c)' /\ WorkerInv(c)'
<1> SUFFICES ASSUME NEW c \in Backups
             PROVE  ObjectInv(c)' /\ WorkerInv(c)'
  OBVIOUS
<1>1. CASE c # b
  <2>1. Same(c)
    BY <1>1 DEF TypeOK, WriteState, Same, Cancelled
  <2>2. QED
    BY <2>1, ObjectFrame, WorkerFrame
<1>2. CASE c = b
  <2>1. /\ api'[b].uid = api[b].uid /\ api'[b].fin = api[b].fin
        /\ api'[b].deleting = api[b].deleting /\ api'[b].state = s
    BY DEF WriteState, TypeOK, Objects
  <2>2. LaunchedOnce(b)' /\ CacheIsBehind(b)' /\ LaunchIsRemembered(b)'
    BY <2>1, Zenon DEF ObjectInv, LaunchedOnce, CacheIsBehind, LaunchIsRemembered, Launched
  <2>3. TaskIsOwned(b)'
    BY <2>1 DEF ObjectInv, TaskIsOwned, Cancelled
  <2>4. WorkerInv(b)'
    <3>1. CASE rec'.pc \in {"idle", "failure"}
      BY <3>1, Zenon DEF WorkerInv, LaunchIsFirst, DeletionIsKnown
    <3>2. CASE rec' = rec
      BY <2>1, <3>2, Zenon DEF WorkerInv, LaunchIsFirst, DeletionIsKnown, Launched
    <3>3. QED
      BY <3>1, <3>2 DEF Ends
  <2>5. QED
    BY <1>2, <2>2, <2>3, <2>4 DEF ObjectInv
<1>3. QED
  BY <1>1, <1>2

\* A step after which only the request of the worker, or the end of some
\* goroutine, is different keeps the invariant.
LEMMA Quiet ==
    ASSUME TypeOK, NEW b \in Backups,
           \A c \in Backups : ObjectInv(c) /\ WorkerInv(c),
           UNCHANGED <<api, cache, created, cancelMap, backup, cancelled, launches>>,
           \A c \in Backups, u \in Uids : Live(c, u)' => Live(c, u),
           Ends
    PROVE  \A c \in Backups : ObjectInv(c)' /\ WorkerInv(c)'
<1>1. \A c \in Backups : Same(c)
  BY Zenon DEF Same, Cancelled
<1>2. QED
  BY <1>1, ObjectFrame, WorkerFrame

\* Reconcile goes on only with an object for which its place is right.
LEMMA ReconcileInv ==
    ASSUME TypeOK, NEW b \in Backups,
           \A c \in Backups : ObjectInv(c) /\ WorkerInv(c),
           Reconcile(b)
    PROVE  \A c \in Backups : ObjectInv(c)' /\ WorkerInv(c)'
<1>1. \A c \in Backups : Same(c)
  BY DEF Same, Cancelled, Live, Reconcile, kube, mem, run
<1>2. \A c \in Backups : ObjectInv(c)'
  BY <1>1, ObjectFrame
<1>3. /\ rec'.name = b /\ rec'.hb = cache[b] /\ cache[b].uid # 0
      /\ rec'.pc = IF ~cache[b].fin /\ ~cache[b].deleting THEN "finalizer"
                   ELSE AfterFinalizer(b, cache[b])
  BY DEF Reconcile, Goto
<1>4. LaunchIsFirst(b)'
  <2>1. UNCHANGED <<api, cache, launches, backup>>
    BY DEF Reconcile, kube, mem, run
  <2>2. ObjectInv(b)
    OBVIOUS
  <2>3. QED
    BY <1>3, <2>1, <2>2, Zenon DEF LaunchIsFirst, AfterFinalizer, ObjectInv, CacheIsBehind,
       LaunchIsRemembered, Launched
<1>5. DeletionIsKnown(b)'
  <2>1. UNCHANGED <<api, cache, created, launches, backup>>
    BY Zenon DEF Reconcile, kube, mem, run
  <2>2. cache[b].uid \in 1..created[b]
    <3>1. CacheIsBehind(b)
      BY DEF ObjectInv
    <3>2. cache[b].uid <= created[b]
      BY <3>1 DEF CacheIsBehind
    <3>3. cache[b].uid \in Nat /\ created[b] \in Nat /\ cache[b].uid # 0
      BY <1>3, UidTypes
    <3>4. QED
      BY <3>2, <3>3, UidInterval
  <2>3. ObjectInv(b)
    OBVIOUS
  <2>4. QED
    BY <1>3, <2>1, <2>2, <2>3, Zenon DEF DeletionIsKnown, AfterFinalizer, ObjectInv,
       CacheIsBehind, LaunchIsRemembered, Launched
<1>6. QED
  BY <1>2, <1>3, <1>4, <1>5 DEF WorkerInv

\* AddFinalizer writes the version it read, so the finalizer is there when
\* the worker goes on to launch.
LEMMA AddFinalizerInv ==
    ASSUME TypeOK, NEW b \in Backups,
           \A c \in Backups : ObjectInv(c) /\ WorkerInv(c),
           AddFinalizer(b)
    PROVE  \A c \in Backups : ObjectInv(c)' /\ WorkerInv(c)'
<1> DEFINE new == [rec.hb EXCEPT !.fin = TRUE]
<1>0. UNCHANGED <<cache, created, cancelMap, backup, cancelled, launches, task>>
  BY DEF AddFinalizer, mem, run
<1>1. CASE UNCHANGED api /\ Goto("failure", b, rec.hb)
  <2>1. Ends
    BY <1>1 DEF Goto, Ends
  <2>2. QED
    BY <1>0, <1>1, <2>1, Quiet DEF Live
<1>2. CASE /\ rec.hb = api[b] /\ api' = [api EXCEPT ![b] = new]
           /\ Goto(AfterFinalizer(b, new), b, new)
  <2>1. /\ rec.pc = "finalizer" /\ rec.name = b /\ LaunchIsFirst(b)
        /\ rec.hb \in Objects /\ ObjectInv(b)
    BY DEF AddFinalizer, At, WorkerInv, TypeOK
  <2>2. /\ new.uid = api[b].uid /\ new.deleting = FALSE /\ new.fin
        /\ new.state = api[b].state /\ api[b].uid # 0
        /\ api'[b] = new /\ ~Launched(b, api[b]) /\ ~api[b].deleting
    BY <1>2, <2>1, Zenon DEF LaunchIsFirst, TypeOK, Objects
  <2> HIDE DEF new
  <2>3. ASSUME NEW c \in Backups, c # b PROVE ObjectInv(c)' /\ WorkerInv(c)'
    <3>1. Same(c)
      BY <1>0, <1>2, <2>3, Zenon DEF TypeOK, Same, Cancelled, Live
    <3>2. rec'.name = c => rec'.pc = "idle"
      BY <1>2, <2>3 DEF Goto, Idle
    <3>3. QED
      BY <3>1, <3>2, ObjectFrame DEF WorkerInv, LaunchIsFirst, DeletionIsKnown
  <2>4. LaunchedOnce(b)' /\ CacheIsBehind(b)' /\ LaunchIsRemembered(b)'
    BY <1>0, <2>1, <2>2, Zenon DEF ObjectInv, LaunchedOnce, CacheIsBehind,
       LaunchIsRemembered, Launched
  <2>5. TaskIsOwned(b)'
    BY <1>0, <2>1, <2>2, Zenon DEF ObjectInv, TaskIsOwned, Cancelled, Live
  <2>6. /\ rec'.pc = "idle" \/ (rec'.pc = AfterFinalizer(b, new) /\ rec'.hb = new)
        /\ rec'.pc \in {"idle", "hazelcast"}
    BY <1>2, <2>2, Zenon DEF Goto, AfterFinalizer, Idle
  <2>7. WorkerInv(b)'
    BY <1>0, <2>1, <2>2, <2>6, Zenon DEF WorkerInv, LaunchIsFirst, DeletionIsKnown, Launched
  <2>8. QED
    BY <2>3, <2>4, <2>5, <2>7 DEF ObjectInv
<1>3. QED
  BY <1>1, <1>2 DEF AddFinalizer, Conflict

\* executeFinalizer cancels the goroutine before it gives the lock and the
\* object away.
LEMMA ExecuteFinalizerInv ==
    ASSUME TypeOK, NEW b \in Backups,
           \A c \in Backups : ObjectInv(c) /\ WorkerInv(c),
           ExecuteFinalizer(b)
    PROVE  \A c \in Backups : ObjectInv(c)' /\ WorkerInv(c)'
<1>0. /\ UNCHANGED <<cache, created, launches, task>> /\ Ends
      /\ cancelled' = CancelContext(b) /\ backup' = backup \ {b}
      /\ cancelMap' = [cancelMap EXCEPT ![b] = 0]
      /\ api' = api \/ (rec.hb = api[b] /\ api' = [api EXCEPT ![b] = Gone])
  <2>1. Idle.pc = "idle"
    BY Values
  <2>2. rec' = Idle \/ rec'.pc = "failure"
    BY DEF ExecuteFinalizer, Goto
  <2>3. Ends
    BY <2>1, <2>2, Zenon DEF Ends
  <2>4. QED
    BY <2>3 DEF ExecuteFinalizer, run, Conflict
<1>1. ASSUME NEW c \in Backups PROVE WorkerInv(c)'
  <2>1. rec'.pc \in {"idle", "failure"}
    <3>1. Idle.pc = "idle"
      BY Values
    <3>2. rec' = Idle \/ rec'.pc = "failure"
      BY DEF ExecuteFinalizer, Goto
    <3>3. QED
      BY <3>1, <3>2
  <2>2. QED
    BY <2>1 DEF WorkerInv, LaunchIsFirst, DeletionIsKnown
<1>2. ASSUME NEW c \in Backups, c # b PROVE ObjectInv(c)'
  <2>1. Same(c)
    <3>1. DOMAIN api = Backups /\ DOMAIN cancelMap = Backups
      BY DEF TypeOK
    <3>2. api'[c] = api[c] /\ cancelMap'[c] = cancelMap[c]
      BY <1>0, <1>2, <3>1
    <3>3. (c \in backup)' = (c \in backup)
      BY <1>0, <1>2
    <3>4. \A u \in Uids : Cancelled(c, u)' = Cancelled(c, u)
      BY <1>0, <1>2 DEF Cancelled, CancelContext
    <3>5. QED
      BY <1>0, <3>2, <3>3, <3>4 DEF Same, Live
  <2>2. QED
    BY <2>1, ObjectFrame, Zenon
<1>3. ObjectInv(b)'
  <2>1. /\ rec.pc = "delete" /\ rec.name = b /\ DeletionIsKnown(b)
        /\ ObjectInv(b)
    BY DEF ExecuteFinalizer, At, WorkerInv
  <2>2. TaskIsOwned(b)'
    <3>1. ASSUME NEW u \in Uids, Live(b, u)' PROVE Cancelled(b, u)'
      <4>1. Live(b, u) /\ u # 0
        BY <1>0, <3>1 DEF Live, Uids
      <4>2. ~Cancelled(b, u) => cancelMap[b] = u
        BY <2>1, <4>1, Zenon DEF ObjectInv, TaskIsOwned
      <4>3. QED
        BY <1>0, <4>1, <4>2 DEF Cancelled, CancelContext
    <3>2. QED
      BY <3>1 DEF TaskIsOwned
  <2>3. LaunchedOnce(b)'
    BY <1>0, <2>1 DEF ObjectInv, LaunchedOnce
  <2>4. CASE api' = api
    BY <1>0, <2>1, <2>2, <2>3, <2>4, Zenon DEF ObjectInv, CacheIsBehind,
       LaunchIsRemembered, Launched, DeletionIsKnown
  <2>5. CASE rec.hb = api[b] /\ api' = [api EXCEPT ![b] = Gone]
    <3>1. api'[b].uid = 0 /\ api'[b].fin = FALSE
      BY <2>5, Zenon DEF TypeOK, Gone, Object
    <3>2. CacheIsBehind(b)'
      BY <1>0, <2>1, <2>5, <3>1, Zenon DEF ObjectInv, CacheIsBehind, DeletionIsKnown
    <3>3. LaunchIsRemembered(b)'
      BY <1>0, <2>1, <3>1, Zenon DEF ObjectInv, LaunchIsRemembered, Launched,
         DeletionIsKnown
    <3>4. QED
      BY <2>2, <2>3, <3>2, <3>3 DEF ObjectInv
  <2>6. QED
    BY <1>0, <2>4, <2>5
<1>4. QED
  BY <1>1, <1>2, <1>3

\* The context of the new goroutine replaces only that of its own object.
LEMMA SaveSpecInv ==
    ASSUME TypeOK, NEW b \in Backups,
           \A c \in Backups : ObjectInv(c) /\ WorkerInv(c),
           SaveSpec(b)
    PROVE  \A c \in Backups : ObjectInv(c)' /\ WorkerInv(c)'
<1>0. /\ UNCHANGED <<cache, created, backup, cancelled, launches, task>>
      /\ rec.pc = "hazelcast" /\ rec.name = b /\ LaunchIsFirst(b) /\ ObjectInv(b)
  BY DEF SaveSpec, run, At, WorkerInv
<1>1. CASE UNCHANGED <<api, cancelMap>> /\ rec' = Idle
  BY <1>0, <1>1, Values, Quiet, Zenon DEF Live, Ends
<1>2. CASE /\ api' = [api EXCEPT ![b] = [@ EXCEPT !.ann = api[b].spec]]
           /\ cancelMap' = [cancelMap EXCEPT ![b] = rec.hb.uid]
           /\ rec' = [pc |-> "notStarted", name |-> b, hb |-> rec.hb]
  <2>1. /\ api'[b].uid = api[b].uid /\ api'[b].fin = api[b].fin
        /\ api'[b].deleting = api[b].deleting /\ api'[b].state = api[b].state
        /\ cancelMap'[b] = rec.hb.uid
    BY <1>2 DEF TypeOK, Objects
  <2>2. ASSUME NEW c \in Backups, c # b PROVE ObjectInv(c)' /\ WorkerInv(c)'
    <3>1. Same(c)
      BY <1>0, <1>2, <2>2 DEF TypeOK, Same, Cancelled, Live
    <3>2. QED
      BY <1>2, <2>2, <3>1, ObjectFrame DEF WorkerInv
  <2>3. LaunchedOnce(b)' /\ CacheIsBehind(b)' /\ LaunchIsRemembered(b)'
    BY <1>0, <2>1, Zenon DEF ObjectInv, LaunchedOnce, CacheIsBehind, LaunchIsRemembered,
       Launched
  <2>4. TaskIsOwned(b)'
    BY <1>0, <2>1 DEF ObjectInv, TaskIsOwned, Cancelled, Live, LaunchIsFirst
  <2>5. WorkerInv(b)'
    BY <1>0, <1>2, <2>1 DEF WorkerInv, LaunchIsFirst, DeletionIsKnown, Launched
  <2>6. QED
    BY <2>2, <2>3, <2>4, <2>5 DEF ObjectInv
<1>3. QED
  BY <1>1, <1>2 DEF SaveSpec, UpdateStatusErr, Goto

\* The launch is the first one of its object, and NotStarted and the lock
\* record it before the worker takes another request.
LEMMA LaunchInv ==
    ASSUME TypeOK, NEW b \in Backups,
           \A c \in Backups : ObjectInv(c) /\ WorkerInv(c),
           Launch(b)
    PROVE  \A c \in Backups : ObjectInv(c)' /\ WorkerInv(c)'
<1> DEFINE u == rec.hb.uid
<1>0. /\ UNCHANGED <<cache, created, cancelMap, cancelled>> /\ rec' = Idle
      /\ rec.pc = "notStarted" /\ rec.name = b /\ LaunchIsFirst(b) /\ ObjectInv(b)
  BY Zenon DEF Launch, At, WorkerInv
<1>1. CASE UNCHANGED <<api, backup, task, launches>>
  BY <1>0, <1>1, Values, Quiet DEF Live, Ends
<1>2. CASE /\ CanRetryWrite(b)
           /\ api' = [api EXCEPT ![b] = [@ EXCEPT !.state = "NotStarted"]]
           /\ backup' = backup \cup {b}
           /\ task' = [task EXCEPT ![b] = [@ EXCEPT ![u] = "inProgress"]]
           /\ launches' = [launches EXCEPT ![b] = [@ EXCEPT ![u] = launches[b][u] + 1]]
  <2>1. /\ api'[b].uid = u /\ api'[b].fin /\ api'[b].state = "NotStarted"
        /\ api'[b].deleting = api[b].deleting
        /\ cache[b] = api[b] /\ api[b].uid = u /\ api[b].fin /\ cancelMap[b] = u
        /\ u \in Uids /\ ~Launched(b, rec.hb)
    BY <1>0, <1>2, FieldTypes DEF TypeOK, Objects, LaunchIsFirst, CanRetryWrite, Uids
  <2>2. /\ launches[b] \in [Uids -> Nat] /\ task[b] \in [Uids -> TaskPCs]
        /\ launches'[b] = [launches[b] EXCEPT ![u] = launches[b][u] + 1]
        /\ task'[b] = [task[b] EXCEPT ![u] = "inProgress"]
    BY <1>2 DEF TypeOK
  <2>3. launches[b][u] = 0 /\ created[b] = u
    <3>0. launches[b][u] \in Nat
      BY <2>1, <2>2, Zenon
    <3>1. u # 0 /\ launches[b][u] \in Nat
      BY <2>1, <3>0, UidPositive
    <3>2. ~(launches[b][u] > 0)
      BY <2>1, <3>1 DEF Launched
    <3>3. api[b].uid \in {0, created[b]}
      BY <1>0, Zenon DEF ObjectInv, CacheIsBehind
    <3>4. launches[b][u] = 0
      BY <3>1, <3>2
    <3>5. QED
      BY <2>1, <3>1, <3>3, <3>4, Zenon
  <2> HIDE DEF u
  <2>4. ASSUME NEW c \in Backups, c # b PROVE ObjectInv(c)'
    <3>1. Same(c)
      BY <1>0, <1>2, <2>4 DEF TypeOK, Same, Cancelled, Live
    <3>2. QED
      BY <3>1, ObjectFrame
  <2>5. LaunchedOnce(b)'
    <3>1. ASSUME NEW v \in Uids
          PROVE  launches'[b][v] <= 1 /\ (v > created[b] => launches'[b][v] = 0)
      <4>1. LaunchedOnce(b)
        BY <1>0 DEF ObjectInv
      <4>2. CASE v = u
        <5>1. launches'[b][v] = 1
          BY <2>2, <2>3, <4>2
        <5>2. ~(v > created[b])
          BY <2>3, <4>2, UidPositive
        <5>3. QED
          BY <5>1, <5>2
      <4>3. CASE v # u
        <5>1. launches'[b][v] = launches[b][v]
          BY <2>2, <4>3
        <5>2. QED
          BY <4>1, <5>1, Zenon DEF LaunchedOnce
      <4>4. QED
        BY <4>2, <4>3
    <3>2. QED
      BY <1>0, <3>1 DEF LaunchedOnce
  <2>6. CacheIsBehind(b)'
    BY <1>0, <2>1, Zenon DEF ObjectInv, CacheIsBehind
  <2>7. LaunchIsRemembered(b)'
    BY <1>0, <1>2, <2>1 DEF LaunchIsRemembered, Running
  <2>8. TaskIsOwned(b)'
    <3>1. ASSUME NEW v \in Uids, v # u PROVE Live(b, v)' = Live(b, v)
      BY <2>2, <3>1 DEF Live
    <3>2. QED
      <4>1. TaskIsOwned(b)
        BY <1>0 DEF ObjectInv
      <4>2. /\ api'[b].uid = u /\ api'[b].fin /\ cancelMap'[b] = u
            /\ cancelled' = cancelled /\ api[b].uid = u
        BY <1>0, <2>1, Zenon
      <4>3. QED
        BY <3>1, <4>1, <4>2, Zenon DEF TaskIsOwned, Cancelled
  <2>9. \A c \in Backups : WorkerInv(c)'
    BY <1>0, Values, Zenon DEF WorkerInv, LaunchIsFirst, DeletionIsKnown
  <2>10. QED
    BY <2>4, <2>5, <2>6, <2>7, <2>8, <2>9 DEF ObjectInv
<1>3. QED
  BY <1>1, <1>2 DEF Launch, UpdateStatusOk, UpdateStatusErr, WriteState

\* Every step of the worker keeps the invariant.
LEMMA WorkerStepInv ==
    ASSUME TypeOK, NEW b \in Backups,
           \A c \in Backups : ObjectInv(c) /\ WorkerInv(c),
           Worker(b)
    PROVE  \A c \in Backups : ObjectInv(c)' /\ WorkerInv(c)'
<1>1. CASE AddFinalizer(b)
  BY <1>1, AddFinalizerInv
<1>2. CASE RefuseDelete(b)
  BY <1>2, Quiet DEF RefuseDelete, kube, mem, run, Goto, Ends, Live
<1>3. CASE ExecuteFinalizer(b)
  BY <1>3, ExecuteFinalizerInv
<1>4. CASE ReportFailure(b)
  <2>1. /\ UNCHANGED <<cache, created, cancelMap, backup, cancelled, launches, task>>
        /\ Ends
    BY <1>4, Values DEF ReportFailure, mem, run, Ends
  <2>2. CASE UpdateStatusOk(b, "Failure")
    BY <2>1, <2>2, StateWritten, Zenon DEF UpdateStatusOk, States, Finished, Live
  <2>3. CASE UpdateStatusErr(b)
    BY <2>1, <2>3, Quiet DEF UpdateStatusErr, Live
  <2>4. QED
    BY <1>4, <2>2, <2>3 DEF ReportFailure
<1>5. CASE HazelcastNotReady(b)
  <2>1. /\ UNCHANGED <<cache, created, cancelMap, backup, cancelled, launches, task>>
        /\ Ends
    BY <1>5, Values, Zenon DEF HazelcastNotReady, mem, run, Ends
  <2>2. ~Launched(b, api[b])
    BY <1>5 DEF HazelcastNotReady, At, WorkerInv, LaunchIsFirst, Launched
  <2>3. CASE UpdateStatusOk(b, "Pending")
    BY <2>1, <2>2, <2>3, StateWritten, Zenon DEF UpdateStatusOk, States, Live
  <2>4. CASE UpdateStatusErr(b)
    BY <2>1, <2>4, Quiet, Zenon DEF UpdateStatusErr, Live
  <2>5. QED
    BY <1>5, <2>3, <2>4 DEF HazelcastNotReady
<1>6. CASE NoPersistence(b)
  BY <1>6, Quiet DEF NoPersistence, kube, mem, run, Goto, Ends, Live
<1>7. CASE SaveSpec(b)
  BY <1>7, SaveSpecInv
<1>8. CASE Launch(b)
  BY <1>8, LaunchInv
<1>9. QED
  BY <1>1, <1>2, <1>3, <1>4, <1>5, <1>6, <1>7, <1>8 DEF Worker

\* A goroutine that takes a step was alive, and no other one comes to life.
LEMMA StepOfLive ==
    ASSUME TypeOK, NEW b \in Backups, NEW u \in Uids, NEW pc \in TaskPCs,
           Live(b, u), Step(b, u, pc)
    PROVE  \A c \in Backups, v \in Uids : Live(c, v)' => Live(c, v)
<1> SUFFICES ASSUME NEW c \in Backups, NEW v \in Uids, Live(c, v)'
             PROVE  Live(c, v)
  OBVIOUS
<1>1. CASE c = b /\ v = u
  BY <1>1
<1>2. CASE ~(c = b /\ v = u)
  <2>1. task'[c][v] = task[c][v]
    BY <1>2 DEF Step, TypeOK
  <2>2. QED
    BY <2>1 DEF Live
<1>3. QED
  BY <1>1, <1>2

\* updateStatus in the goroutine keeps the invariant, whatever its result.
LEMMA TaskStatusInv ==
    ASSUME TypeOK, NEW b \in Backups, NEW u \in Uids,
           NEW s \in Running \cup Finished,
           \A c \in Backups : ObjectInv(c) /\ WorkerInv(c),
           TaskStatus(b, u, s) \/ TaskStatusErr(b, u),
           UNCHANGED <<cache, created, rec, cancelMap, backup, cancelled, launches>>,
           \A c \in Backups, v \in Uids : Live(c, v)' => Live(c, v)
    PROVE  \A c \in Backups : ObjectInv(c)' /\ WorkerInv(c)'
<1>1. CASE TaskStatus(b, u, s)
  BY <1>1, StateWritten, Zenon DEF TaskStatus, UpdateStatusOk, States, Ends
<1>2. CASE TaskStatusErr(b, u)
  BY <1>2, Quiet DEF TaskStatusErr, UpdateStatusErr, Ends
<1>3. QED
  BY <1>1, <1>2

\* Every step of a goroutine keeps the invariant.
LEMMA TaskStepInv ==
    ASSUME TypeOK, NEW b \in Backups, NEW u \in Uids,
           \A c \in Backups : ObjectInv(c) /\ WorkerInv(c),
           Task(b, u)
    PROVE  \A c \in Backups : ObjectInv(c)' /\ WorkerInv(c)'
<1>1. UNCHANGED <<cache, created, rec, cancelMap, backup, cancelled, launches>>
  BY Zenon DEF Task, TaskInProgress, TaskPrepare, TaskPassive, TaskTrigger, TaskActivate,
     TaskWait, TaskTransfer, TaskFinish, kube, mem
<1>2. Live(b, u) /\ \E pc \in TaskPCs : Step(b, u, pc)
  BY Zenon DEF Task, TaskInProgress, TaskPrepare, TaskPassive, TaskTrigger, TaskActivate,
     TaskWait, TaskTransfer, TaskFinish, Live, TaskPCs
<1>3. \A c \in Backups, v \in Uids : Live(c, v)' => Live(c, v)
  BY <1>2, StepOfLive
<1>4. CASE TaskInProgress(b, u)
  BY <1>1, <1>3, <1>4, TaskStatusInv, Zenon DEF TaskInProgress, Running
<1>5. CASE TaskFinish(b, u)
  BY <1>1, <1>3, <1>5, TaskStatusInv, Zenon DEF TaskFinish, Finished
<1>6. CASE UNCHANGED api
  BY <1>1, <1>3, <1>6, Quiet DEF Ends
<1>7. QED
  BY <1>4, <1>5, <1>6, Zenon DEF Task, TaskPrepare, TaskPassive, TaskTrigger, TaskActivate,
     TaskWait, TaskTransfer, kube

\* Users, the informer and a restart of the operator keep the invariant.
LEMMA EnvironmentInv ==
    ASSUME TypeOK, NEW b \in Backups,
           \A c \in Backups : ObjectInv(c) /\ WorkerInv(c),
           Users(b) \/ CacheSync(b) \/ Restart
    PROVE  \A c \in Backups : ObjectInv(c)' /\ WorkerInv(c)'
<1>0. ObjectInv(b) /\ WorkerInv(b) /\ api[b] \in Objects /\ cache[b] \in Objects
  BY DEF TypeOK
<1>1. CASE Create(b)
  <2>1. /\ UNCHANGED <<cache, rec, cancelMap, backup, cancelled, launches, task>>
        /\ \A c \in Backups \ {b} : api'[c] = api[c] /\ created'[c] = created[c]
        /\ created'[b] = created[b] + 1 /\ created[b] \in Nat
        /\ api'[b].uid = created[b] + 1 /\ ~api'[b].fin /\ api[b].uid = 0
    <3>1. created[b] \in 0..MaxUid /\ created[b] \in Nat
      BY ConstantsAssumption DEF TypeOK
    <3>2. /\ \A c \in Backups \ {b} : api'[c] = api[c] /\ created'[c] = created[c]
          /\ created'[b] = created[b] + 1 /\ api'[b] = Object(created[b] + 1)
      BY <1>1, Zenon DEF Create, TypeOK
    <3>3. /\ Object(created[b] + 1).uid = created[b] + 1
          /\ Object(created[b] + 1).fin = FALSE
      BY Zenon DEF Object
    <3>4. api'[b].uid = created[b] + 1 /\ api'[b].fin = FALSE
      BY <3>2, <3>3
    <3>5. QED
      BY <1>1, <3>1, <3>2, <3>4, Zenon DEF Create, mem, run
  <2>2. ASSUME NEW c \in Backups, c # b PROVE ObjectInv(c)' /\ WorkerInv(c)'
    <3>1. Same(c)
      BY <2>1, <2>2, Zenon DEF Same, Cancelled, Live
    <3>2. QED
      BY <2>1, <3>1, ObjectFrame, WorkerFrame, Zenon DEF Ends
  <2>3. created[b] + 1 \in Uids /\ launches[b][created[b] + 1] = 0
    <3>1. created[b] + 1 \in Uids /\ created[b] + 1 > created[b]
      <4>1. created[b] < MaxUid
        BY <1>1 DEF Create
      <4>2. created[b] \in Nat /\ MaxUid \in Nat
        BY <2>1, ConstantsAssumption, Zenon
      <4>3. QED
        BY <4>1, <4>2 DEF Uids
    <3>2. QED
      BY <1>0, <3>1 DEF ObjectInv, LaunchedOnce
  <2>4. LaunchedOnce(b)'
    <3>1. ASSUME NEW u \in Uids
          PROVE  launches[b][u] <= 1 /\ (u > created[b] + 1 => launches[b][u] = 0)
      <4>1. LaunchedOnce(b)
        BY <1>0, Zenon DEF ObjectInv
      <4>2. launches[b][u] <= 1 /\ (u > created[b] => launches[b][u] = 0)
        BY <4>1, Zenon DEF LaunchedOnce
      <4>3. created[b] \in Nat /\ u \in Nat
        BY <2>1, UidPositive
      <4>4. u > created[b] + 1 => u > created[b]
        BY <4>3, Beyond, Zenon
      <4>5. QED
        BY <4>2, <4>4, Zenon
    <3>2. QED
      BY <2>1, <3>1, Zenon DEF LaunchedOnce
  <2>5. CacheIsBehind(b)'
    <3>1. cache[b].uid \in Nat
      BY UidTypes, Zenon
    <3>2. ~(cache[b].fin /\ ~cache[b].deleting) /\ cache[b].uid <= created[b]
      BY <1>0, <2>1, Zenon DEF ObjectInv, CacheIsBehind
    <3>3. created[b] \in Nat
      BY <2>1, Zenon
    <3>4. cache[b].uid <= created[b] + 1 /\ cache[b].uid # created[b] + 1
      BY <3>1, <3>2, <3>3, Beyond, Zenon
    <3>5. QED
      BY <2>1, <3>2, <3>4, Zenon DEF CacheIsBehind
  <2>6. /\ ~Launched(b, api[b])'
        /\ Launched(b, cache[b])' = Launched(b, cache[b])
        /\ Launched(b, rec.hb)' = Launched(b, rec.hb)
    <3>1. ~Launched(b, api[b])'
      <4>1. api'[b].uid = created[b] + 1 /\ launches' = launches
        BY <2>1
      <4>2. launches'[b][api'[b].uid] = 0
        BY <2>3, <4>1
      <4>3. ~(launches'[b][api'[b].uid] > 0)
        BY <4>2
      <4>4. QED
        BY <4>3, Zenon DEF Launched
    <3>2. QED
      BY <2>1, <3>1 DEF Launched
  <2>7. LaunchIsRemembered(b)'
    BY <1>0, <2>1, <2>6, Zenon DEF ObjectInv, LaunchIsRemembered
  <2>8. TaskIsOwned(b)'
    <3>1. 0 \notin Uids
      BY ConstantsAssumption DEF Uids
    <3>2. TaskIsOwned(b) /\ api[b].uid = 0
      BY <1>0, <2>1, Zenon DEF ObjectInv
    <3>3. \A u \in Uids : ~(Live(b, u) /\ ~Cancelled(b, u))
      BY <3>1, <3>2 DEF TaskIsOwned
    <3>4. QED
      BY <2>1, <3>3, Zenon DEF TaskIsOwned, Live, Cancelled
  <2>9. WorkerInv(b)'
    <3>1. SUFFICES ASSUME rec.name = b PROVE LaunchIsFirst(b)' /\ DeletionIsKnown(b)'
      BY <2>1, Zenon DEF WorkerInv
    <3>2. LaunchIsFirst(b) /\ DeletionIsKnown(b)
      BY <1>0, <3>1, Zenon DEF WorkerInv
    <3>3. rec.pc \notin {"hazelcast", "notStarted"}
      BY <2>1, <3>2 DEF LaunchIsFirst
    <3>4. LaunchIsFirst(b)'
      BY <2>1, <2>6, <3>2, <3>3, Zenon DEF LaunchIsFirst
    <3>5. created[b] \in Nat
      BY <2>1
    <3>6. \A k \in 1..created[b] : k # created[b] + 1 /\ k \in 1..(created[b] + 1)
      BY <3>5
    <3>7. DeletionIsKnown(b)'
      BY <2>1, <2>6, <3>2, <3>6, Zenon DEF DeletionIsKnown
    <3>8. QED
      BY <3>4, <3>7
  <2>10. QED
    BY <2>2, <2>4, <2>5, <2>7, <2>8, <2>9, Zenon DEF ObjectInv
<1>2. CASE Edit(b)
  <2>1. /\ UNCHANGED <<cache, created, rec, cancelMap, backup, cancelled, launches, task>>
        /\ \A c \in Backups \ {b} : api'[c] = api[c]
        /\ api'[b].uid = api[b].uid /\ api'[b].fin = api[b].fin
        /\ api'[b].deleting = api[b].deleting /\ api'[b].state = api[b].state
    BY <1>0, <1>2, Zenon DEF Edit, mem, run, TypeOK, Objects
  <2>2. ASSUME NEW c \in Backups, c # b PROVE ObjectInv(c)' /\ WorkerInv(c)'
    <3>1. Same(c)
      BY <2>1, <2>2 DEF Same, Cancelled, Live
    <3>2. QED
      BY <2>1, <3>1, ObjectFrame, WorkerFrame, Zenon DEF Ends
  <2>3. LaunchedOnce(b)' /\ CacheIsBehind(b)' /\ LaunchIsRemembered(b)'
    BY <1>0, <2>1, Zenon DEF ObjectInv, LaunchedOnce, CacheIsBehind, LaunchIsRemembered,
       Launched
  <2>4. TaskIsOwned(b)'
    BY <1>0, <2>1, Zenon DEF ObjectInv, TaskIsOwned, Cancelled, Live
  <2>5. WorkerInv(b)'
    BY <1>0, <2>1, Zenon DEF WorkerInv, LaunchIsFirst, DeletionIsKnown, Launched
  <2>6. QED
    BY <2>2, <2>3, <2>4, <2>5 DEF ObjectInv
<1>3. CASE Delete(b)
  <2>1. /\ UNCHANGED <<cache, created, rec, cancelMap, backup, cancelled, launches, task>>
        /\ \A c \in Backups \ {b} : api'[c] = api[c]
        /\ \/ /\ api[b].fin /\ api'[b].uid = api[b].uid /\ api'[b].fin
              /\ api'[b].deleting /\ api'[b].state = api[b].state
           \/ ~api[b].fin /\ api'[b].uid = 0 /\ ~api'[b].fin
    BY <1>0, <1>3, Zenon DEF Delete, mem, run, TypeOK, Objects, Gone, Object
  <2>2. ASSUME NEW c \in Backups, c # b PROVE ObjectInv(c)' /\ WorkerInv(c)'
    <3>1. Same(c)
      BY <2>1, <2>2 DEF Same, Cancelled, Live
    <3>2. QED
      BY <2>1, <3>1, ObjectFrame, WorkerFrame, Zenon DEF Ends
  <2>3. LaunchedOnce(b)' /\ CacheIsBehind(b)' /\ LaunchIsRemembered(b)'
    BY <1>0, <2>1, Zenon DEF ObjectInv, LaunchedOnce, CacheIsBehind, LaunchIsRemembered,
       Launched
  <2>4. TaskIsOwned(b)'
    BY <1>0, <2>1, Zenon DEF ObjectInv, TaskIsOwned, Cancelled, Live
  <2>5. WorkerInv(b)'
    <3>1. SUFFICES ASSUME rec.name = b PROVE LaunchIsFirst(b)' /\ DeletionIsKnown(b)'
      BY <2>1, Zenon DEF WorkerInv
    <3>2. LaunchIsFirst(b) /\ DeletionIsKnown(b)
      BY <1>0, <3>1, Zenon DEF WorkerInv
    <3>3. /\ Launched(b, cache[b])' = Launched(b, cache[b])
          /\ Launched(b, rec.hb)' = Launched(b, rec.hb)
      BY <2>1 DEF Launched
    <3>4. Launched(b, api[b])' => api'[b].deleting
      BY <2>1, Zenon DEF Launched
    <3>5. LaunchIsFirst(b)'
      BY <2>1, <3>2, <3>3, Zenon DEF LaunchIsFirst
    <3>6. DeletionIsKnown(b)'
      <4>1. SUFFICES ASSUME rec.pc = "delete" PROVE DeletionIsKnown(b)'
        BY <2>1, Zenon DEF DeletionIsKnown
      <4>2. rec.hb.uid # 0
        BY <1>0, <3>2, <4>1 DEF DeletionIsKnown, TypeOK
      <4>3. api'[b].uid = rec.hb.uid => api'[b].deleting
        BY <2>1, <4>2, Zenon
      <4>4. QED
        BY <2>1, <3>2, <3>3, <3>4, <4>1, <4>3, Zenon DEF DeletionIsKnown
    <3>7. QED
      BY <3>5, <3>6
  <2>6. QED
    BY <2>2, <2>3, <2>4, <2>5 DEF ObjectInv
<1>4. CASE Reference(b)
  BY <1>4, Quiet, Zenon DEF Reference, kube, mem, run, Ends, Live
<1>5. CASE CacheSync(b)
  <2>1. /\ UNCHANGED <<api, created, rec, cancelMap, backup, cancelled, launches, task>>
        /\ \A c \in Backups \ {b} : cache'[c] = cache[c]
        /\ cache'[b] = api[b]
    BY <1>5 DEF CacheSync, mem, run, TypeOK
  <2>2. ASSUME NEW c \in Backups, c # b PROVE ObjectInv(c)' /\ WorkerInv(c)'
    <3>1. Same(c)
      BY <2>1, <2>2, Zenon DEF Same, Cancelled, Live
    <3>2. QED
      BY <2>1, <3>1, ObjectFrame, WorkerFrame, Zenon DEF Ends
  <2>3. CacheIsBehind(b)'
    <3>1. CacheIsBehind(b) /\ created[b] \in Nat
      BY <1>0, UidTypes, Zenon DEF ObjectInv
    <3>2. api[b].uid <= created[b]
      <4>1. api[b].uid \in {0, created[b]}
        BY <3>1 DEF CacheIsBehind
      <4>2. QED
        BY <3>1, <4>1, UidBound, Zenon
    <3>3. QED
      BY <2>1, <3>1, <3>2, Zenon DEF CacheIsBehind
  <2>4. LaunchedOnce(b)' /\ LaunchIsRemembered(b)'
    BY <1>0, <2>1, Zenon DEF ObjectInv, LaunchedOnce, LaunchIsRemembered, Launched
  <2>5. TaskIsOwned(b)'
    BY <1>0, <2>1 DEF ObjectInv, TaskIsOwned, Cancelled, Live
  <2>6. WorkerInv(b)'
    BY <1>0, <2>1, Zenon DEF WorkerInv, LaunchIsFirst, DeletionIsKnown, Launched
  <2>7. QED
    BY <2>2, <2>3, <2>4, <2>5, <2>6, Zenon DEF ObjectInv
<1>6. CASE Restart
  <2>1. /\ UNCHANGED <<api, created, launches>> /\ cache' = api /\ rec'.pc = "idle"
        /\ \A c \in Backups, u \in Uids : task'[c][u] = "none"
    BY <1>6, Values DEF Restart
  <2>2. ASSUME NEW c \in Backups PROVE ObjectInv(c)' /\ WorkerInv(c)'
    <3>1. ObjectInv(c) /\ created[c] \in Nat
      BY DEF TypeOK
    <3>2. LaunchedOnce(c)' /\ LaunchIsRemembered(c)' /\ WorkerInv(c)'
      BY <2>1, <3>1, Zenon DEF ObjectInv, LaunchedOnce, LaunchIsRemembered, Launched,
         WorkerInv, LaunchIsFirst, DeletionIsKnown
    <3>3. CacheIsBehind(c) /\ created[c] \in Nat
      BY <3>1, UidTypes, Zenon DEF ObjectInv
    <3>4. CacheIsBehind(c)'
      <4>0. api[c].uid \in {0, created[c]}
        BY <3>3, Zenon DEF CacheIsBehind
      <4>1. api[c].uid <= created[c]
        BY <3>3, <4>0, UidBound, Zenon
      <4>2. QED
        BY <2>1, <3>3, <4>1, Zenon DEF CacheIsBehind
    <3>5. TaskIsOwned(c)'
      BY <2>1, Zenon DEF TaskIsOwned, Live
    <3>6. QED
      BY <3>2, <3>4, <3>5 DEF ObjectInv
  <2>3. QED
    BY <2>2
<1>7. QED
  BY <1>1, <1>2, <1>3, <1>4, <1>5, <1>6 DEF Users

\* Nothing was created, launched or is running at first.
LEMMA BaseInit == Init => Base
<1> SUFFICES ASSUME Init PROVE Base
  OBVIOUS
<1>1. TypeOK
  BY InitType
<1>2. ASSUME NEW b \in Backups PROVE ObjectInv(b) /\ WorkerInv(b)
  <2>1. /\ api[b].uid = 0 /\ api[b].fin = FALSE /\ api[b].deleting = FALSE
        /\ cache[b] = api[b] /\ created[b] = 0 /\ rec.pc = "idle"
        /\ \A u \in Uids : launches[b][u] = 0 /\ task[b][u] = "none"
    BY Values, Zenon DEF Init, Gone, Object
  <2>2. LaunchedOnce(b)
    <3>1. ASSUME NEW u \in Uids
          PROVE  launches[b][u] <= 1 /\ launches[b][u] = 0
      <4>1. launches[b][u] = 0
        BY <2>1, Zenon
      <4>2. QED
        BY <4>1
    <3>2. QED
      BY <3>1 DEF LaunchedOnce
  <2>3. CacheIsBehind(b)
    <3>1. /\ cache[b].uid = 0 /\ cache[b].fin = FALSE /\ cache[b].deleting = FALSE
          /\ api[b].uid = 0 /\ api[b].fin = FALSE /\ created[b] = 0
      BY <2>1
    <3>2. cache[b].uid <= created[b]
      BY <3>1
    <3>3. QED
      BY <3>1, <3>2 DEF CacheIsBehind
  <2>4. LaunchIsRemembered(b)
    BY <2>1 DEF LaunchIsRemembered, Launched
  <2>5. TaskIsOwned(b)
    BY <2>1, Zenon DEF TaskIsOwned, Live
  <2>6. WorkerInv(b)
    BY <2>1 DEF WorkerInv, LaunchIsFirst, DeletionIsKnown
  <2>7. QED
    BY <2>2, <2>3, <2>4, <2>5, <2>6 DEF ObjectInv
<1>3. QED
  BY <1>1, <1>2 DEF Base

\* Every step keeps this part of the invariant.
LEMMA BaseStep == Base /\ [Next]_vars => Base'
<1> SUFFICES ASSUME Base, [Next]_vars PROVE Base'
  OBVIOUS
<1>1. TypeOK /\ TypeOK' /\ \A b \in Backups : ObjectInv(b) /\ WorkerInv(b)
  BY TypeStep DEF Base
<1> SUFFICES \A c \in Backups : ObjectInv(c)' /\ WorkerInv(c)'
  BY <1>1 DEF Base
<1>2. PICK a \in Backups : TRUE
  BY ConstantsAssumption
<1>3. ASSUME NEW b \in Backups,
             Users(b) \/ CacheSync(b) \/ Reconcile(b) \/ Worker(b)
      PROVE  \A c \in Backups : ObjectInv(c)' /\ WorkerInv(c)'
  BY <1>1, <1>3, EnvironmentInv, ReconcileInv, WorkerStepInv
<1>4. CASE Restart
  BY <1>1, <1>2, <1>4, EnvironmentInv
<1>5. ASSUME NEW b \in Backups, NEW u \in Uids, Task(b, u) \/ TaskPanic(b, u)
      PROVE  \A c \in Backups : ObjectInv(c)' /\ WorkerInv(c)'
  BY <1>1, <1>4, <1>5, TaskStepInv, Zenon DEF TaskPanic
<1>6. CASE \/ \E p \in HzPhases : HazelcastChange(p)
           \/ HazelcastRegister \/ HazelcastDisconnect \/ UNCHANGED vars
  <2>1. UNCHANGED <<api, cache, created, rec, cancelMap, backup, cancelled, launches,
                    task>>
    BY <1>6, Zenon DEF HazelcastChange, HazelcastRegister, HazelcastDisconnect, vars, kube,
       mem, run
  <2>2. QED
    BY <1>1, <1>2, <2>1, Quiet DEF Ends, Live
<1>7. QED
  BY <1>3, <1>4, <1>5, <1>6 DEF Next

---------------------------------------------------------------------------
(* The outcome of a backup.                                                *)

\* How a step may change the state that object c reports: not at all, ...
Kept(c) ==
    /\ api'[c].uid = api[c].uid /\ api'[c].state = api[c].state
    /\ api[c].deleting => api'[c].deleting

\* ... because the object comes or goes, ...
Fresh(c) == api'[c].uid # api[c].uid /\ api'[c].state = ""

Written(c) ==
    /\ api[c].uid # 0 /\ api'[c].uid = api[c].uid
    /\ api'[c].deleting = api[c].deleting

\* ... by the worker, ...
ByWorker(c) ==
    /\ Written(c) /\ rec.name = c
    /\ \/ rec.pc = "failure" /\ api'[c].state = "Failure"
       \/ rec.pc \in {"hazelcast", "notStarted"} /\ api'[c].state \notin Finished

\* ... or by the goroutine of the object.
ByTask(c, u) ==
    /\ Written(c) /\ Live(c, u) /\ ~Cancelled(c, u)
    /\ api'[c].state \in Finished => ~Live(c, u)'
    /\ api'[c].state = "Success" => task[c][u] = "success"

Reports(c) ==
    Kept(c) \/ Fresh(c) \/ ByWorker(c) \/ \E u \in Uids : ByTask(c, u)

\* An object that is the same reports the same.
LEMMA SameReport ==
    ASSUME NEW c \in Backups, api'[c] = api[c] PROVE Reports(c)
BY DEF Reports, Kept

\* What updateStatus(s) does to the object and to the others.
LEMMA StateWrittenTo ==
    ASSUME TypeOK, NEW b \in Backups, NEW s \in States, WriteState(b, s)
    PROVE  /\ Written(b) /\ api'[b].state = s
           /\ \A c \in Backups \ {b} : api'[c] = api[c]
<1>1. /\ api[b] \in Objects /\ api' = [api EXCEPT ![b] = [api[b] EXCEPT !.state = s]]
      /\ api[b].uid # 0
  BY DEF WriteState, CanRetryWrite, TypeOK
<1>2. api'[b] = [api[b] EXCEPT !.state = s] /\ \A c \in Backups \ {b} : api'[c] = api[c]
  BY <1>1 DEF TypeOK
<1>3. QED
  BY <1>1, <1>2 DEF Written, Objects

\* The worker changes the state of the object it handles only as it may.
LEMMA WorkerReports ==
    ASSUME Base, NEW b \in Backups, Worker(b)
    PROVE  \A c \in Backups : Reports(c)
<1>0. TypeOK /\ WorkerInv(b) /\ api[b] \in Objects
  BY DEF Base, TypeOK
<1>1. CASE UNCHANGED api
  BY <1>1, SameReport
<1>2. ASSUME NEW s \in States, WriteState(b, s), rec.name = b,
             \/ rec.pc = "failure" /\ s = "Failure"
             \/ rec.pc \in {"hazelcast", "notStarted"} /\ s \notin Finished
      PROVE  \A c \in Backups : Reports(c)
  <2>1. ByWorker(b)
    BY <1>0, <1>2, StateWrittenTo DEF ByWorker
  <2>2. QED
    BY <1>0, <1>2, <2>1, StateWrittenTo, SameReport, Zenon DEF Reports
<1>3. ASSUME NEW o, api' = [api EXCEPT ![b] = o],
             \/ o.uid = api[b].uid /\ o.state = api[b].state /\ o.deleting = api[b].deleting
             \/ o.uid # api[b].uid /\ o.state = ""
      PROVE  \A c \in Backups : Reports(c)
  <2>1. api'[b] = o /\ \A c \in Backups \ {b} : api'[c] = api[c]
    BY <1>0, <1>3, Zenon DEF TypeOK
  <2>2. Kept(b) \/ Fresh(b)
    BY <1>3, <2>1, Zenon DEF Kept, Fresh
  <2>3. QED
    BY <2>1, <2>2, SameReport, Zenon DEF Reports
<1>4. CASE AddFinalizer(b)
  <2>1. CASE /\ rec.hb = api[b]
             /\ api' = [api EXCEPT ![b] = [api[b] EXCEPT !.fin = TRUE]]
    <3> DEFINE o == [api[b] EXCEPT !.fin = TRUE]
    <3>1. o.uid = api[b].uid /\ o.state = api[b].state /\ o.deleting = api[b].deleting
      BY <1>0 DEF Objects
    <3> HIDE DEF o
    <3>2. QED
      BY <1>3, <2>1, <3>1, Zenon DEF o
  <2>2. QED
    BY <1>1, <1>4, <2>1 DEF AddFinalizer, Conflict
<1>5. CASE ExecuteFinalizer(b)
  <2>1. CASE rec.hb = api[b] /\ api' = [api EXCEPT ![b] = Gone]
    <3>1. rec.hb.uid \in 1..created[b] /\ created[b] \in Nat
      BY <1>0, <1>5, UidTypes, Zenon DEF ExecuteFinalizer, At, WorkerInv, DeletionIsKnown
    <3>2. api[b].uid # 0
      BY <2>1, <3>1
    <3>3. Gone.uid = 0 /\ Gone.state = ""
      BY DEF Gone, Object
    <3>4. QED
      BY <1>3, <2>1, <3>2, <3>3, Zenon
  <2>2. QED
    BY <1>1, <1>5, <2>1 DEF ExecuteFinalizer, Conflict
<1>6. CASE ReportFailure(b)
  BY <1>1, <1>2, <1>6, Zenon DEF ReportFailure, At, UpdateStatusOk, UpdateStatusErr,
     States, Finished
<1>7. CASE HazelcastNotReady(b)
  BY <1>1, <1>2, <1>7, Zenon
  DEF HazelcastNotReady, At, UpdateStatusOk, UpdateStatusErr,
     States, Finished
<1>8. CASE SaveSpec(b)
  <2>1. CASE api' = [api EXCEPT ![b] = [api[b] EXCEPT !.ann = api[b].spec]]
    <3> DEFINE o == [api[b] EXCEPT !.ann = api[b].spec]
    <3>1. o.uid = api[b].uid /\ o.state = api[b].state /\ o.deleting = api[b].deleting
      BY <1>0 DEF Objects
    <3> HIDE DEF o
    <3>2. QED
      BY <1>3, <2>1, <3>1, Zenon DEF o
  <2>2. QED
    BY <1>0, <1>1, <1>8, <2>1 DEF SaveSpec, UpdateStatusErr, TypeOK
<1>9. CASE Launch(b)
  BY <1>1, <1>2, <1>9, Zenon
  DEF Launch, At, UpdateStatusOk, UpdateStatusErr, States, Running, Finished
<1>10. QED
  BY <1>1, <1>4, <1>5, <1>6, <1>7, <1>8, <1>9, Zenon
  DEF Worker, RefuseDelete, NoPersistence, kube

\* A goroutine changes the state of its own object only, and its last step
\* reports the outcome.
LEMMA TaskReports ==
    ASSUME Base, NEW b \in Backups, NEW u \in Uids, Task(b, u)
    PROVE  \A c \in Backups : Reports(c)
<1>0. TypeOK
  BY DEF Base
<1>1. CASE UNCHANGED api
  BY <1>1, SameReport
<1>2. ASSUME NEW s \in States, WriteState(b, s), Live(b, u), ~Cancelled(b, u),
             s \in Finished => ~Live(b, u)',
             s = "Success" => task[b][u] = "success"
      PROVE  \A c \in Backups : Reports(c)
  <2>1. ByTask(b, u)
    BY <1>0, <1>2, StateWrittenTo, Zenon DEF ByTask
  <2>2. QED
    BY <1>0, <1>2, <2>1, StateWrittenTo, SameReport, Zenon DEF Reports
<1>3. CASE TaskInProgress(b, u)
  BY <1>1, <1>2, <1>3, Zenon DEF TaskInProgress, TaskStatus, TaskStatusErr, UpdateStatusOk,
     UpdateStatusErr, Live, States, Running, Finished
<1>4. CASE TaskFinish(b, u)
  <2>1. Live(b, u) /\ ~Live(b, u)'
    BY <1>0, <1>4 DEF TaskFinish, Step, Live, TypeOK
  <2>2. \/ UNCHANGED api
        \/ /\ ~Cancelled(b, u)
           /\ \/ task[b][u] = "success" /\ WriteState(b, "Success")
              \/ WriteState(b, "Failure")
    BY <1>4, Zenon DEF TaskFinish, TaskStatus, TaskStatusErr, UpdateStatusOk, UpdateStatusErr
  <2>3. QED
    BY <1>1, <1>2, <2>1, <2>2, Zenon DEF States, Finished
<1>5. QED
  BY <1>1, <1>3, <1>4, Zenon DEF Task, TaskPrepare, TaskPassive, TaskTrigger, TaskActivate,
     TaskWait, TaskTransfer, kube

\* Users create and delete objects and edit their specs.
LEMMA UserReports ==
    ASSUME Base, NEW b \in Backups, Users(b)
    PROVE  \A c \in Backups : Reports(c)
<1>0. TypeOK /\ api[b] \in Objects /\ created[b] \in Nat
  BY UidTypes DEF Base, TypeOK
<1>1. CASE UNCHANGED api
  BY <1>1, SameReport, Zenon
<1>2. ASSUME \A c \in Backups \ {b} : api'[c] = api[c], Kept(b) \/ Fresh(b)
      PROVE  \A c \in Backups : Reports(c)
  BY <1>2, SameReport DEF Reports
<1>3. CASE Create(b)
  <2>1. /\ \A c \in Backups \ {b} : api'[c] = api[c]
        /\ api'[b] = Object(created[b] + 1) /\ api[b].uid = 0
    BY <1>0, <1>3 DEF Create, TypeOK
  <2>2. /\ Object(created[b] + 1).uid = created[b] + 1
        /\ Object(created[b] + 1).state = ""
    BY DEF Object
  <2>3. created[b] + 1 # 0
    BY <1>0, Counts, Zenon
  <2>4. QED
    BY <1>2, <2>1, <2>2, <2>3, Zenon DEF Fresh
<1>4. CASE Edit(b)
  <2>1. /\ \A c \in Backups \ {b} : api'[c] = api[c]
        /\ api'[b].uid = api[b].uid /\ api'[b].state = api[b].state
        /\ api'[b].deleting = api[b].deleting
    BY <1>0, <1>4 DEF Edit, TypeOK, Objects
  <2>2. QED
    BY <1>2, <2>1 DEF Kept
<1>5. CASE Delete(b)
  <2>1. /\ \A c \in Backups \ {b} : api'[c] = api[c]
        /\ \/ /\ api'[b].uid = api[b].uid /\ api'[b].state = api[b].state
              /\ api'[b].deleting
           \/ api[b].uid # 0 /\ api'[b].uid = 0 /\ api'[b].state = ""
    BY <1>0, <1>5, Zenon DEF Delete, TypeOK, Objects, Gone, Object
  <2>2. QED
    BY <1>2, <2>1, Zenon DEF Kept, Fresh
<1>6. QED
  BY <1>1, <1>3, <1>4, <1>5, Zenon DEF Users, Reference, kube

\* Every step changes the states that the objects report only as it may.
LEMMA StepReports ==
    ASSUME Base, [Next]_vars PROVE \A c \in Backups : Reports(c)
<1>1. CASE UNCHANGED api
  BY <1>1, SameReport, Zenon
<1>2. QED
  BY <1>1, WorkerReports, TaskReports, UserReports, Zenon DEF Next, vars, kube, CacheSync,
     Reconcile, HazelcastChange, HazelcastRegister, HazelcastDisconnect, TaskPanic, Restart

\* The goroutines: one that runs and is not cancelled did so before the step,
\* or the worker has just launched it and reported NotStarted.
Starts(c, u) ==
    /\ rec.name = c /\ rec.pc = "notStarted" /\ api'[c].state = "NotStarted"
    /\ launches'[c][u] > 0 /\ task'[c][u] = "inProgress"

\* The history: goroutines are counted and backups are kept.
Runs(c, u) ==
    /\ <<c, u>> \in backedUp => <<c, u>> \in backedUp'
    /\ task'[c][u] = "success" => task[c][u] = "success" \/ <<c, u>> \in backedUp'
    /\ Live(c, u)' =>
           \/ /\ Live(c, u) /\ launches'[c][u] >= launches[c][u]
              /\ Cancelled(c, u) => Cancelled(c, u)'
           \/ Starts(c, u)

\* The worker starts a goroutine only together with NotStarted (Launch).
LEMMA LaunchRuns ==
    ASSUME Base, NEW b \in Backups, Launch(b)
    PROVE  \A c \in Backups, u \in Uids : Runs(c, u)
<1>0. /\ TypeOK /\ UNCHANGED <<cancelled, backedUp>>
      /\ \A c \in Backups, u \in Uids : launches[c][u] \in Nat
  BY Zenon DEF Base, TypeOK, Launch
<1>1. CASE UNCHANGED <<task, launches>>
  BY <1>0, <1>1, Counts, Zenon DEF Runs, Live, Cancelled
<1>2. CASE /\ WriteState(b, "NotStarted")
           /\ task' = [task EXCEPT ![b] = [@ EXCEPT ![rec.hb.uid] = "inProgress"]]
           /\ launches' = [launches EXCEPT ![b] =
                             [@ EXCEPT ![rec.hb.uid] = launches[b][rec.hb.uid] + 1]]
  <2> SUFFICES ASSUME NEW c \in Backups, NEW u \in Uids PROVE Runs(c, u)
    OBVIOUS
  <2>1. CASE c = b /\ u = rec.hb.uid
    <3>1. task'[c][u] = "inProgress" /\ launches'[c][u] = launches[c][u] + 1
      BY <1>0, <1>2, <2>1 DEF TypeOK
    <3>2. launches[c][u] \in Nat
      BY <1>0
    <3>3. launches'[c][u] > 0
      BY <3>1, <3>2, Counts, Zenon
    <3>4. api'[c].state = "NotStarted"
      BY <1>0, <1>2, <2>1, StateWrittenTo, Zenon DEF States, Running
    <3>5. Starts(c, u)
      BY <2>1, <3>1, <3>3, <3>4 DEF Launch, At, Starts
    <3>6. QED
      BY <1>0, <3>1, <3>5, Zenon DEF Runs
  <2>2. CASE ~(c = b /\ u = rec.hb.uid)
    <3>1. task'[c][u] = task[c][u] /\ launches'[c][u] = launches[c][u]
      BY <1>0, <1>2, <2>2 DEF TypeOK
    <3>2. launches'[c][u] >= launches[c][u]
      BY <1>0, <3>1, Counts, Zenon
    <3>3. QED
      BY <1>0, <3>1, <3>2, Zenon DEF Runs, Live, Cancelled
  <2>3. QED
    BY <2>1, <2>2
<1>3. QED
  BY <1>1, <1>2 DEF Launch, UpdateStatusOk

\* What a step of a goroutine leaves alone, and that it counts its faults.
LEMMA TaskLeaves ==
    ASSUME NEW b \in Backups, NEW u \in Uids, Task(b, u)
    PROVE  /\ UNCHANGED <<rec, cancelled, launches, crashes>>
           /\ UNCHANGED faults \/ faults' = faults + 1
<1>1. UNCHANGED <<rec, cancelled, launches>>
  BY Zenon DEF Task, TaskInProgress, TaskPrepare, TaskPassive, TaskTrigger, TaskActivate,
     TaskWait, TaskTransfer, TaskFinish, mem
<1>2. UNCHANGED crashes
  BY Zenon DEF Task, TaskInProgress, TaskPrepare, TaskPassive, TaskTrigger, TaskActivate,
     TaskWait, TaskTransfer, TaskFinish, count
<1>3. NoFault \/ Fault
  BY Zenon DEF Task, TaskInProgress, TaskPrepare, TaskPassive, TaskTrigger, TaskActivate,
     TaskWait, TaskTransfer, TaskFinish, TaskStatus, TaskStatusErr, UpdateStatusOk,
     UpdateStatusErr, count, NoFault
<1>4. QED
  BY <1>1, <1>2, <1>3, Zenon DEF NoFault, Fault

\* A goroutine goes on by itself, and reports success for a backup it has seen.
LEMMA TaskRuns ==
    ASSUME Base, NEW b \in Backups, NEW v \in Uids, Task(b, v)
    PROVE  \A c \in Backups, u \in Uids : Runs(c, u)
<1> SUFFICES ASSUME NEW c \in Backups, NEW u \in Uids PROVE Runs(c, u)
  OBVIOUS
<1>0. /\ TypeOK /\ UNCHANGED <<cancelled, launches>>
      /\ launches[c][u] \in Nat
  <2>1. TypeOK
    BY DEF Base
  <2>2. launches[c][u] \in Nat
    BY <2>1 DEF TypeOK
  <2>3. QED
    BY <2>1, <2>2, TaskLeaves, Zenon
<1>1. /\ Live(b, v)
      /\ \E pc \in TaskPCs :
             /\ Step(b, v, pc)
             /\ \/ pc # "success" /\ backedUp' = backedUp
                \/ backedUp' = backedUp \cup {<<b, v>>}
  BY Zenon DEF Task, TaskInProgress, TaskPrepare, TaskPassive, TaskTrigger, TaskActivate,
     TaskWait, TaskTransfer, TaskFinish, Live, TaskPCs
<1>2. PICK pc \in TaskPCs :
          /\ Step(b, v, pc)
          /\ \/ pc # "success" /\ backedUp' = backedUp
             \/ backedUp' = backedUp \cup {<<b, v>>}
  BY <1>1
<1>3. launches'[c][u] >= launches[c][u]
  BY <1>0, Counts, Zenon
<1>4. CASE c = b /\ u = v
  <2>1. task'[c][u] = pc
    BY <1>0, <1>2, <1>4 DEF Step, TypeOK
  <2>2. QED
    BY <1>0, <1>1, <1>2, <1>3, <1>4, <2>1, Zenon DEF Runs, Cancelled
<1>5. CASE ~(c = b /\ u = v)
  <2>1. task'[c][u] = task[c][u]
    BY <1>0, <1>2, <1>5 DEF Step, TypeOK
  <2>2. QED
    BY <1>0, <1>2, <1>3, <2>1, Zenon DEF Runs, Cancelled, Live
<1>6. QED
  BY <1>4, <1>5

\* Every step changes the goroutines only as it may.
LEMMA StepRuns ==
    ASSUME Base, [Next]_vars PROVE \A c \in Backups, u \in Uids : Runs(c, u)
<1>0. TypeOK /\ \A c \in Backups, u \in Uids : launches[c][u] \in Nat
  BY DEF Base, TypeOK
<1>1. CASE UNCHANGED <<task, launches, backedUp>> /\ cancelled \subseteq cancelled'
  <2> SUFFICES ASSUME NEW c \in Backups, NEW u \in Uids PROVE Runs(c, u)
    OBVIOUS
  <2>1. launches'[c][u] >= launches[c][u]
    BY <1>0, <1>1, Counts, Zenon
  <2>2. QED
    BY <1>1, <2>1 DEF Runs, Live, Cancelled
<1>2. CASE Restart
  BY <1>2 DEF Restart, Runs, Live
<1>3. ASSUME NEW b \in Backups, Worker(b)
      PROVE  \A c \in Backups, u \in Uids : Runs(c, u)
  BY <1>1, <1>3, LaunchRuns DEF Worker, AddFinalizer, RefuseDelete, ExecuteFinalizer,
     CancelContext, ReportFailure, HazelcastNotReady, NoPersistence, SaveSpec, run, mem
<1>4. QED
  BY <1>1, <1>2, <1>3, TaskRuns, Zenon DEF Next, vars, run, mem, Users, Create, Edit, Delete,
     Reference, CacheSync, Reconcile, HazelcastChange, HazelcastRegister,
     HazelcastDisconnect, TaskPanic

\* A worker that may have to report a failure stays where it is, comes from
\* AddFinalizer, or knows that the object was not launched or is deleted.
LEMMA StepBeforeFailure ==
    ASSUME Base, [Next]_vars, NEW c \in Backups,
           rec'.name = c, rec'.pc \in {"finalizer", "failure"}
    PROVE  \/ rec' = rec /\ launches' = launches
           \/ /\ UNCHANGED <<api, launches>>
              /\ \/ rec.name = c /\ rec.pc = "finalizer"
                 \/ Launched(c, api[c]) => api[c].deleting
<1>0. /\ TypeOK /\ Idle.pc = "idle"
      /\ \A b \in Backups : ObjectInv(b) /\ WorkerInv(b)
  BY Values, Zenon DEF Base
<1>1. CASE UNCHANGED <<rec, launches>>
  BY <1>1
<1>2. CASE rec' = Idle
  BY <1>0, <1>2, Zenon
<1>3. ASSUME NEW b \in Backups, Reconcile(b)
      PROVE  UNCHANGED <<api, launches>> /\ (Launched(c, api[c]) => api[c].deleting)
  <2>1. /\ rec'.name = b /\ UNCHANGED <<api, launches>>
        /\ rec'.pc = IF ~cache[b].fin /\ ~cache[b].deleting THEN "finalizer"
                     ELSE AfterFinalizer(b, cache[b])
    BY <1>3, Zenon DEF Reconcile, Goto, kube, run
  <2>2. c = b /\ ~cache[b].fin
    BY <2>1 DEF AfterFinalizer
  <2>3. ObjectInv(b)
    BY <1>0, Zenon
  <2>4. QED
    BY <2>1, <2>2, <2>3, Zenon DEF ObjectInv, LaunchIsRemembered, Launched
<1>4. ASSUME NEW b \in Backups, Worker(b), rec' # Idle
      PROVE  /\ UNCHANGED <<api, launches>>
             /\ \/ rec.name = c /\ rec.pc = "finalizer"
                \/ Launched(c, api[c]) => api[c].deleting
  <2>1. /\ rec.name = b /\ WorkerInv(b)
    BY <1>0, <1>4 DEF Worker, AddFinalizer, RefuseDelete, ExecuteFinalizer, ReportFailure,
       HazelcastNotReady, NoPersistence, SaveSpec, Launch, At
  <2>2. CASE AddFinalizer(b)
    <3>1. CASE Goto(AfterFinalizer(b, [rec.hb EXCEPT !.fin = TRUE]), b,
                    [rec.hb EXCEPT !.fin = TRUE])
      BY <1>0, <3>1 DEF Goto, AfterFinalizer
    <3>2. CASE UNCHANGED api /\ Goto("failure", b, rec.hb)
      BY <2>1, <2>2, <3>2 DEF AddFinalizer, At, Goto, run
    <3>3. QED
      BY <2>2, <3>1, <3>2 DEF AddFinalizer
  <2>3. CASE RefuseDelete(b)
    BY <2>1, <2>3, Zenon DEF RefuseDelete, At, Goto, kube, run, WorkerInv, DeletionIsKnown
  <2>4. CASE ExecuteFinalizer(b)
    <3>1. UNCHANGED <<api, launches>> /\ Goto("failure", b, rec.hb)
      BY <1>4, <2>4, Zenon DEF ExecuteFinalizer, run
    <3>2. c = b
      BY <3>1, Zenon DEF Goto
    <3>3. QED
      BY <2>1, <2>4, <3>1, <3>2, Zenon DEF ExecuteFinalizer, At, WorkerInv, DeletionIsKnown
  <2>5. CASE NoPersistence(b)
    BY <2>1, <2>5, Zenon DEF NoPersistence, At, Goto, kube, run, WorkerInv,
       LaunchIsFirst, Launched
  <2>6. CASE SaveSpec(b)
    BY <1>4, <2>6 DEF SaveSpec, Goto
  <2>7. QED
    BY <1>4, <2>2, <2>3, <2>4, <2>5, <2>6, Zenon DEF Worker, ReportFailure,
       HazelcastNotReady, Launch
<1>5. ASSUME NEW b \in Backups, NEW u \in Uids, Task(b, u)
      PROVE  UNCHANGED <<rec, launches>>
  BY <1>5, TaskLeaves, Zenon
<1>6. CASE \/ \E b \in Backups : Users(b) \/ CacheSync(b)
           \/ \E p \in HzPhases : HazelcastChange(p)
           \/ HazelcastRegister \/ HazelcastDisconnect \/ UNCHANGED vars
  <2>1. UNCHANGED <<rec, launches>>
    BY <1>6, Zenon DEF vars, run, Users, Create, Edit, Delete, Reference, CacheSync,
       HazelcastChange, HazelcastRegister, HazelcastDisconnect
  <2>2. QED
    BY <1>1, <2>1
<1>7. CASE Restart
  BY <1>2, <1>7 DEF Restart
<1>8. QED
  BY <1>1, <1>2, <1>3, <1>4, <1>5, <1>6, <1>7, Zenon DEF Next, TaskPanic

\* Every step keeps the outcome where it belongs.
LEMMA OutcomeStep ==
    ASSUME Inv, [Next]_vars, NEW c \in Backups
    PROVE  OutcomeInv(c)'
<1>0. /\ Base /\ ObjectInv(c) /\ WorkerInv(c) /\ OutcomeInv(c)
      /\ ObjectInv(c)' /\ Reports(c) /\ \A u \in Uids : Runs(c, u)
  <2>1. Base
    BY DEF Inv, Base
  <2>2. Base'
    BY <2>1, BaseStep
  <2>3. Reports(c) /\ \A u \in Uids : Runs(c, u)
    BY <2>1, StepReports, StepRuns
  <2>4. QED
    BY <2>1, <2>2, <2>3 DEF Inv, Base
<1>1. ASSUME NEW u \in Uids, Live(c, u), ~Cancelled(c, u)
      PROVE  api[c].uid = u /\ Launched(c, api[c])
  <2>1. api[c].uid = u /\ u # 0
    BY <1>0, <1>1, UidPositive, Zenon DEF ObjectInv, TaskIsOwned
  <2>2. QED
    BY <1>0, <1>1, <2>1, Zenon DEF OutcomeInv, Launched
<1>2. (api[c].uid = 0 => api[c].state = "")'
  BY <1>0, Zenon DEF Reports, OutcomeInv, Kept, Fresh, ByWorker, ByTask, Written
<1>3. (api[c].state = "Success" => <<c, api[c].uid>> \in backedUp)'
  <2> SUFFICES ASSUME api'[c].state = "Success" PROVE <<c, api'[c].uid>> \in backedUp'
    OBVIOUS
  <2>1. CASE Kept(c)
    <3>1. <<c, api[c].uid>> \in backedUp /\ api'[c].uid = api[c].uid
      BY <1>0, <2>1, Zenon DEF Kept, OutcomeInv
    <3>2. api[c].uid \in Uids
      BY <1>0, <3>1, Zenon DEF Base, TypeOK
    <3>3. QED
      BY <1>0, <3>1, <3>2, Zenon DEF Runs
  <2>2. ASSUME NEW u \in Uids, ByTask(c, u) PROVE <<c, api'[c].uid>> \in backedUp'
    <3>1. api'[c].uid = u /\ task[c][u] = "success"
      BY <1>1, <2>2, Zenon DEF ByTask, Written
    <3>2. QED
      BY <1>0, <3>1, Zenon DEF OutcomeInv, Runs
  <2>3. QED
    BY <1>0, <2>1, <2>2, Zenon DEF Reports, Fresh, ByWorker, Finished
<1>4. ASSUME NEW u \in Uids
      PROVE  (task[c][u] = "success" => <<c, u>> \in backedUp)'
  BY <1>0, Zenon DEF OutcomeInv, Runs
<1>5. ASSUME NEW u \in Uids PROVE (Live(c, u) => launches[c][u] > 0)'
  <2>1. CASE Starts(c, u)
    BY <2>1 DEF Starts
  <2>2. CASE Live(c, u) /\ launches'[c][u] >= launches[c][u]
    <3>1. launches[c][u] \in Nat /\ launches'[c][u] \in Nat
      <4>1. TypeOK /\ TypeOK'
        BY <1>0, TypeStep DEF Base
      <4>2. QED
        BY <4>1 DEF TypeOK
    <3>2. launches[c][u] > 0
      BY <1>0, <2>2, Zenon DEF OutcomeInv
    <3>3. launches'[c][u] > 0
      BY <2>2, <3>1, <3>2
    <3>4. QED
      BY <3>3, Zenon
  <2>3. QED
    BY <1>0, <2>1, <2>2, Zenon DEF Runs
<1>6. ASSUME NEW u \in Uids, Live(c, u)', ~Cancelled(c, u)', ~api'[c].deleting
      PROVE  api'[c].state \notin Finished
  <2>1. CASE Starts(c, u)
    BY <2>1, Zenon DEF Starts, Finished
  <2>2. CASE Live(c, u) /\ ~Cancelled(c, u)
    <3>1. api[c].uid = u /\ Launched(c, api[c])
      BY <1>1, <2>2
    <3>2. CASE Kept(c)
      BY <1>0, <1>6, <2>2, <3>2, Zenon DEF Kept, OutcomeInv
    <3>3. CASE Fresh(c)
      BY <3>3, Zenon DEF Fresh, Finished
    <3>4. CASE ByWorker(c)
      BY <1>0, <1>6, <3>1, <3>4, Zenon DEF ByWorker, Written, OutcomeInv
    <3>5. ASSUME NEW v \in Uids, ByTask(c, v) PROVE api'[c].state \notin Finished
      BY <1>1, <1>6, <3>1, <3>5, Zenon DEF ByTask
    <3>6. QED
      BY <1>0, <3>2, <3>3, <3>4, <3>5, Zenon DEF Reports
  <2>3. QED
    BY <1>0, <1>6, <2>1, <2>2, Zenon DEF Runs
<1>7. ASSUME rec'.name = c, rec'.pc \in {"finalizer", "failure"}, Launched(c, api[c])'
      PROVE  api'[c].deleting
  <2>1. CASE rec' = rec /\ launches' = launches
    <3>1. CASE Fresh(c)
      BY <1>0, <1>7, <3>1, Zenon DEF Fresh, ObjectInv, LaunchIsRemembered, Running, Finished
    <3>2. CASE ~Fresh(c)
      <4>1. api'[c].uid = api[c].uid /\ (api[c].deleting => api'[c].deleting)
        BY <1>0, <3>2, Zenon DEF Reports, Kept, ByWorker, ByTask, Written
      <4>2. QED
        BY <1>0, <1>7, <2>1, <4>1, Zenon DEF OutcomeInv, Launched
    <3>3. QED
      BY <3>1, <3>2
  <2>2. CASE /\ UNCHANGED <<api, launches>>
             /\ \/ rec.name = c /\ rec.pc = "finalizer"
                \/ Launched(c, api[c]) => api[c].deleting
    BY <1>0, <1>7, <2>2, Zenon DEF OutcomeInv, Launched
  <2>3. QED
    BY <1>0, <1>7, <2>1, <2>2, StepBeforeFailure, Zenon
<1>8. QED
  BY <1>2, <1>3, <1>4, <1>5, <1>6, <1>7, Zenon DEF OutcomeInv

\* Nothing is reported at first.
LEMMA InitInv == Init => Inv
<1> SUFFICES ASSUME Init PROVE Inv
  OBVIOUS
<1>1. Base
  BY BaseInit
<1>2. ASSUME NEW b \in Backups PROVE OutcomeInv(b)
  <2>1. /\ api[b].uid = 0 /\ api[b].state = "" /\ rec.pc = "idle"
        /\ \A u \in Uids : task[b][u] = "none"
    BY Values, Zenon DEF Init, Gone, Object
  <2>2. QED
    BY <2>1, Zenon DEF OutcomeInv, Live
<1>3. QED
  BY <1>1, <1>2 DEF Inv, Base

\* Every step keeps the invariant.
LEMMA InvStep == Inv /\ [Next]_vars => Inv'
<1> SUFFICES ASSUME Inv, [Next]_vars PROVE Inv'
  OBVIOUS
<1>1. Base'
  BY BaseStep DEF Inv, Base
<1>2. \A c \in Backups : OutcomeInv(c)'
  BY OutcomeStep
<1>3. QED
  BY <1>1, <1>2 DEF Inv, Base

\* The inductive invariant holds in every reachable state.
THEOREM Invariance == Spec => []Inv
BY InitInv, InvStep, PTL DEF Spec

\* A HotBackup resource is backed up at most once: Reconcile never launches
\* a second goroutine for one object, for any number of resources, edits,
\* failed calls and restarts.
THEOREM BackupOnce == Spec => []AtMostOneBackup
<1>1. Inv => AtMostOneBackup
  BY DEF Inv, ObjectInv, LaunchedOnce, AtMostOneBackup
<1>2. QED
  BY <1>1, Invariance, PTL

\* A goroutine that was not cancelled works for the object that exists: the
\* finalizer of a HotBackup cancels its goroutine before the name is free.
THEOREM NoOrphan == Spec => []WorksForExistingObject
<1>1. Inv => WorksForExistingObject
  BY DEF Inv, ObjectInv, TaskIsOwned, WorksForExistingObject
<1>2. QED
  BY <1>1, Invariance, PTL

\* Success is the outcome of the object's own backup: it is reported by the
\* goroutine of that object, after every member finished.
THEOREM BackedUp == Spec => []SuccessIsBackedUp
<1>1. Inv => SuccessIsBackedUp
  BY Zenon DEF Inv, OutcomeInv, SuccessIsBackedUp
<1>2. QED
  BY <1>1, Invariance, PTL

\* The outcome of a backup that was started is final until the object is
\* deleted: neither a reconciliation with a stale copy nor a late goroutine
\* changes the state again.
THEOREM OutcomeFinal == Spec => OutcomeIsFinal
<1> DEFINE Final(b) ==
             /\ api[b].state \in Finished /\ ~api[b].deleting
             /\ launches[b][api[b].uid] > 0
             /\ api'[b].uid = api[b].uid
             => api'[b].state = api[b].state
<1>1. ASSUME Inv, [Next]_vars, NEW b \in Backups PROVE Final(b)
  <2> SUFFICES ASSUME api[b].state \in Finished, ~api[b].deleting,
                      launches[b][api[b].uid] > 0, api'[b].uid = api[b].uid
               PROVE  api'[b].state = api[b].state
    BY Zenon
  <2>0. Base /\ ObjectInv(b) /\ WorkerInv(b) /\ OutcomeInv(b)
    BY <1>1 DEF Inv, Base
  <2>1. Launched(b, api[b])
    BY <2>0, Zenon DEF OutcomeInv, Launched, Finished
  <2>2. Reports(b)
    BY <1>1, <2>0, StepReports
  <2>3. ~ByWorker(b)
    BY <2>0, <2>1, Zenon DEF ByWorker, Written, OutcomeInv, WorkerInv, LaunchIsFirst, Launched
  <2>4. ASSUME NEW u \in Uids PROVE ~ByTask(b, u)
    BY <2>0, Zenon DEF ByTask, OutcomeInv
  <2>5. QED
    BY <2>2, <2>3, <2>4, Zenon DEF Reports, Kept, Fresh
<1>2. Inv /\ [Next]_vars => [\A b \in Backups : Final(b)]_vars
  BY <1>1
<1>3. QED
  BY <1>2, Invariance, PTL DEF Spec, OutcomeIsFinal

---------------------------------------------------------------------------
(* The state of the cluster.                                               *)

\* Every step of a goroutine leaves an explanation, or an active cluster.
LEMMA TaskExplained ==
    ASSUME TypeOK, PassiveIsExplained, NEW b \in Backups, NEW u \in Uids, Task(b, u)
    PROVE  PassiveIsExplained'
<1>0. /\ UNCHANGED <<cancelled, crashes>> /\ faults \in Nat
      /\ UNCHANGED faults \/ faults' = faults + 1
  <2>1. faults \in Nat
    BY ConstantsAssumption DEF TypeOK
  <2>2. QED
    BY <2>1, TaskLeaves, Zenon
<1>1. CASE faults' = faults + 1
  <2>1. faults' > 0
    BY <1>0, <1>1, Counts, Zenon
  <2>2. QED
    BY <2>1 DEF PassiveIsExplained
<1>2. ASSUME NEW pc \in TaskPCs, Step(b, u, pc)
      PROVE  /\ InStart(b, u)' = (pc \in {"trigger", "activate", "abort"})
             /\ \A c \in Backups, v \in Uids :
                    ~(c = b /\ v = u) => InStart(c, v)' = InStart(c, v)
  BY <1>2 DEF Step, InStart, TypeOK
<1>3. ASSUME UNCHANGED <<clusterState, faults>>,
             NEW pc \in TaskPCs, Step(b, u, pc),
             InStart(b, u) => pc \in {"trigger", "activate", "abort"} \/ cancelled # {}
      PROVE  PassiveIsExplained'
  BY <1>0, <1>2, <1>3, Zenon DEF PassiveIsExplained
<1>4. CASE TaskPassive(b, u) /\ UNCHANGED faults
  <2>1. CASE UNCHANGED clusterState /\ Step(b, u, "fail") /\ cancelled # {}
    BY <1>3, <1>4, <2>1 DEF TaskPCs
  <2>2. CASE Step(b, u, "trigger")
    BY <1>2, <2>2, Zenon DEF PassiveIsExplained, TaskPCs
  <2>3. QED
    BY <1>0, <1>4, <2>1, <2>2, Counts, Zenon DEF TaskPassive, NoFault, Fault, Cancelled
<1>5. CASE TaskTrigger(b, u) /\ UNCHANGED faults
  BY <1>3, <1>5 DEF TaskTrigger, TaskPCs
<1>6. CASE TaskActivate(b, u) /\ UNCHANGED faults
  <2>1. CASE clusterState' = "ACTIVE"
    BY <2>1 DEF PassiveIsExplained
  <2>2. CASE UNCHANGED clusterState /\ Cancelled(b, u)
    BY <1>3, <1>6, <2>2, Zenon DEF TaskActivate, TaskPCs, Cancelled
  <2>3. QED
    BY <1>0, <1>6, <2>1, <2>2, Counts, Zenon DEF TaskActivate, NoFault, Fault
<1>7. CASE /\ UNCHANGED <<clusterState, faults>> /\ ~InStart(b, u)
           /\ \E pc \in TaskPCs : Step(b, u, pc)
  BY <1>3, <1>7, Zenon
<1>8. QED
  BY <1>0, <1>1, <1>4, <1>5, <1>6, <1>7, Zenon DEF Task, TaskInProgress, TaskPrepare, TaskWait,
     TaskTransfer, TaskFinish, InStart, TaskPCs

\* A launch replaces no goroutine: none was started for that object.
LEMMA LaunchReplacesNone ==
    ASSUME Inv, NEW b \in Backups, Launch(b)
    PROVE  \A c \in Backups, u \in Uids :
               /\ Live(c, u) => task'[c][u] = task[c][u]
               /\ task'[c][u] \in {task[c][u], "inProgress"}
<1>0. TypeOK /\ WorkerInv(b) /\ OutcomeInv(b)
  BY Zenon DEF Inv
<1>1. rec.hb.uid # 0 /\ ~Launched(b, rec.hb)
  BY <1>0 DEF Launch, At, WorkerInv, LaunchIsFirst
<1>2. rec.hb.uid \in Uids => ~Live(b, rec.hb.uid)
  BY <1>0, <1>1, Zenon DEF OutcomeInv, Launched
<1>3. CASE UNCHANGED task
  BY <1>3, Zenon
<1>4. CASE task' = [task EXCEPT ![b] = [@ EXCEPT ![rec.hb.uid] = "inProgress"]]
  <2> SUFFICES ASSUME NEW c \in Backups, NEW u \in Uids
               PROVE  /\ Live(c, u) => task'[c][u] = task[c][u]
                      /\ task'[c][u] \in {task[c][u], "inProgress"}
    BY Zenon
  <2>1. CASE c = b /\ u = rec.hb.uid
    BY <1>0, <1>2, <1>4, <2>1, Zenon DEF TypeOK
  <2>2. CASE ~(c = b /\ u = rec.hb.uid)
    BY <1>0, <1>4, <2>2 DEF TypeOK
  <2>3. QED
    BY <2>1, <2>2, Zenon
<1>5. QED
  BY <1>3, <1>4 DEF Launch

\* What the steps of the worker leave alone or only count up.
LEMMA WorkerLeaves ==
    ASSUME NEW b \in Backups, Worker(b)
    PROVE  /\ UNCHANGED <<clusterState, crashes>> /\ cancelled \subseteq cancelled'
           /\ UNCHANGED faults \/ faults' = faults + 1
           /\ UNCHANGED task \/ Launch(b)
<1>1. UNCHANGED <<clusterState, crashes>>
  BY DEF Worker, AddFinalizer, RefuseDelete, ExecuteFinalizer, ReportFailure,
     HazelcastNotReady, NoPersistence, SaveSpec, Launch, count
<1>2. cancelled \subseteq cancelled'
  BY DEF Worker, AddFinalizer, RefuseDelete, ExecuteFinalizer, CancelContext, ReportFailure,
     HazelcastNotReady, NoPersistence, SaveSpec, Launch, mem
<1>3. UNCHANGED faults \/ faults' = faults + 1
  BY DEF Worker, AddFinalizer, RefuseDelete, ExecuteFinalizer, ReportFailure,
     HazelcastNotReady, NoPersistence, SaveSpec, Launch, count, UpdateStatusOk,
     UpdateStatusErr, NoFault, Fault
<1>4. UNCHANGED task \/ Launch(b)
  BY DEF Worker, AddFinalizer, RefuseDelete, ExecuteFinalizer, ReportFailure,
     HazelcastNotReady, NoPersistence, SaveSpec, run
<1>5. QED
  BY <1>1, <1>2, <1>3, <1>4

\* What the steps of users, the informer, the worker that takes a request and
\* Hazelcast leave alone.
LEMMA OthersLeave ==
    ASSUME \/ \E b \in Backups : Users(b) \/ CacheSync(b) \/ Reconcile(b)
           \/ \E p \in HzPhases : HazelcastChange(p)
           \/ HazelcastRegister \/ HazelcastDisconnect \/ UNCHANGED vars
    PROVE  UNCHANGED <<clusterState, cancelled, task, faults, crashes>>
BY Zenon DEF vars, run, mem, count, Users, Create, Edit, Delete, Reference, CacheSync, Reconcile,
   HazelcastChange, HazelcastRegister, HazelcastDisconnect

\* Every step leaves an explanation, or an active cluster.
LEMMA StepExplained == Inv /\ PassiveIsExplained /\ [Next]_vars => PassiveIsExplained'
<1> SUFFICES ASSUME Inv, PassiveIsExplained, [Next]_vars PROVE PassiveIsExplained'
  BY Zenon
<1>0. TypeOK /\ faults \in Nat /\ crashes \in Nat
  BY ConstantsAssumption DEF Inv, TypeOK
<1>1. ASSUME UNCHANGED <<clusterState, crashes>>, cancelled \subseteq cancelled',
             UNCHANGED faults \/ faults' = faults + 1,
             \A c \in Backups, u \in Uids : InStart(c, u) => InStart(c, u)'
      PROVE  PassiveIsExplained'
  <2>1. faults > 0 => faults' > 0
    BY <1>0, <1>1
  <2>2. QED
    BY <1>1, <2>1 DEF PassiveIsExplained
<1>2. CASE Restart
  <2>1. crashes' > 0
    BY <1>0, <1>2 DEF Restart
  <2>2. QED
    BY <2>1, Zenon DEF PassiveIsExplained
<1>3. ASSUME NEW b \in Backups, Worker(b) PROVE PassiveIsExplained'
  <2>1. \A c \in Backups, u \in Uids : InStart(c, u) => InStart(c, u)'
    BY <1>3, WorkerLeaves, LaunchReplacesNone, Zenon DEF InStart, Live
  <2>2. QED
    BY <1>1, <1>3, <2>1, WorkerLeaves, Zenon
<1>4. CASE \/ \E b \in Backups : Users(b) \/ CacheSync(b) \/ Reconcile(b)
           \/ \E p \in HzPhases : HazelcastChange(p)
           \/ HazelcastRegister \/ HazelcastDisconnect \/ UNCHANGED vars
  <2>1. UNCHANGED <<clusterState, cancelled, task, faults, crashes>>
    BY <1>4, OthersLeave
  <2>2. QED
    BY <1>1, <2>1 DEF InStart
<1>5. QED
  BY <1>0, <1>2, <1>3, <1>4, TaskExplained, Zenon DEF Next, TaskPanic

\* The cluster stays PASSIVE after ClusterBackup.Start only because a backup
\* was cancelled, a call failed or the operator restarted.
THEOREM Explanation == Spec => []PassiveIsExplained
<1>1. Init => PassiveIsExplained
  BY Zenon DEF Init, PassiveIsExplained
<1>2. QED
  BY <1>1, StepExplained, Invariance, PTL DEF Spec

\* Of the goroutines of one name at most one is not cancelled.
LEMMA OneUncancelled ==
    ASSUME Inv, NEW b \in Backups, NEW u \in Uids, NEW v \in Uids,
           Live(b, u), ~Cancelled(b, u), Live(b, v), ~Cancelled(b, v)
    PROVE  u = v
<1>1. TaskIsOwned(b)
  BY Zenon DEF Inv, ObjectInv
<1>2. QED
  BY <1>1 DEF TaskIsOwned

\* With a single HotBackup only the goroutine that switched the cluster to
\* PASSIVE can switch it back before the backup is triggered.
LEMMA StepTriggered ==
    Inv /\ PassiveWhenTriggered /\ [Next]_vars => PassiveWhenTriggered'
<1> SUFFICES ASSUME Inv, PassiveWhenTriggered, [Next]_vars,
                    \A b, c \in Backups : b = c,
                    NEW b \in Backups, NEW u \in Uids,
                    task'[b][u] = "trigger", ~Cancelled(b, u)'
             PROVE  clusterState' = "PASSIVE"
  BY Zenon DEF PassiveWhenTriggered
<1>0. TypeOK
  BY DEF Inv
<1>1. ASSUME UNCHANGED clusterState, cancelled \subseteq cancelled',
             task'[b][u] = task[b][u]
      PROVE  clusterState' = "PASSIVE"
  BY <1>1 DEF PassiveWhenTriggered, Cancelled
<1>2. CASE Restart
  BY <1>2, Zenon DEF Restart
<1>3. ASSUME NEW c \in Backups, Worker(c) PROVE clusterState' = "PASSIVE"
  <2>1. task'[b][u] = task[b][u]
    BY <1>3, WorkerLeaves, LaunchReplacesNone, Zenon
  <2>2. QED
    BY <1>1, <1>3, <2>1, WorkerLeaves
<1>4. CASE \/ \E c \in Backups : Users(c) \/ CacheSync(c) \/ Reconcile(c)
           \/ \E p \in HzPhases : HazelcastChange(p)
           \/ HazelcastRegister \/ HazelcastDisconnect \/ UNCHANGED vars
  <2>1. UNCHANGED <<clusterState, cancelled, task, faults, crashes>>
    BY <1>4, OthersLeave, Zenon
  <2>2. QED
    BY <1>1, <2>1, Zenon
<1>5. ASSUME NEW c \in Backups, NEW v \in Uids, Task(c, v) PROVE clusterState' = "PASSIVE"
  <2>1. c = b /\ UNCHANGED cancelled
    BY <1>5, Zenon DEF Task, TaskInProgress, TaskPrepare, TaskPassive, TaskTrigger, TaskActivate,
       TaskWait, TaskTransfer, TaskFinish, mem
  <2>2. CASE v = u
    <3>1. \A pc \in TaskPCs : Step(b, u, pc) => pc = "trigger"
      BY <1>0 DEF Step, TypeOK
    <3>2. QED
      BY <1>5, <2>1, <2>2, <3>1, Zenon DEF Task, TaskInProgress, TaskPrepare, TaskPassive,
         TaskTrigger, TaskActivate, TaskWait, TaskTransfer, TaskFinish, TaskPCs
  <2>3. CASE v # u
    <3>1. \A pc \in TaskPCs : Step(b, v, pc) => task'[b][u] = task[b][u]
      BY <1>0, <2>3 DEF Step, TypeOK
    <3>2. task'[b][u] = task[b][u]
      BY <1>5, <2>1, <3>1, Zenon DEF Task, TaskInProgress, TaskPrepare, TaskPassive,
         TaskTrigger, TaskActivate, TaskWait, TaskTransfer, TaskFinish, TaskPCs
    <3>3. ~(TaskActivate(b, v) /\ ~Cancelled(b, v))
      BY <2>1, <2>3, <3>2, OneUncancelled, Zenon DEF TaskActivate, Live, Cancelled
    <3>4. clusterState' \in {clusterState, "PASSIVE"}
      BY <1>5, <2>1, <3>3, Zenon DEF Task, TaskInProgress, TaskPrepare, TaskPassive,
         TaskTrigger, TaskActivate, TaskWait, TaskTransfer, TaskFinish
    <3>5. QED
      BY <1>1, <2>1, <3>2, <3>4, Zenon
  <2>4. QED
    BY <2>2, <2>3
<1>6. QED
  BY <1>2, <1>3, <1>4, <1>5, Zenon DEF Next, TaskPanic

\* A backup is triggered on a PASSIVE cluster, whatever goroutines of deleted
\* objects of that name are still in ClusterBackup.Start.
THEOREM Triggered == Spec => []PassiveWhenTriggered
<1>1. Init => PassiveWhenTriggered
  BY DEF Init, PassiveWhenTriggered
<1>2. QED
  BY <1>1, StepTriggered, Invariance, PTL DEF Spec
===========================================================================
