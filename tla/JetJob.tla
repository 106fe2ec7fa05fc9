------------------------------- MODULE JetJob -------------------------------
(***************************************************************************)
(* The JetJob controller: it submits a job to the members from a goroutine *)
(* of its own, changes the state of the job as the spec says, and cancels  *)
(* it when the object is deleted.  What becomes of the job is learnt by a  *)
(* status checker that polls the members as long as it knows a job.        *)
(***************************************************************************)
EXTENDS Naturals, Sequences, FiniteSets

CONSTANTS
    MaxEvents,     \* how many edits, deletions, failed calls and restarts, together
    MaxRuns,       \* how many runs of the job the members start
    MaxCalls,      \* how many goroutines submit at the same time
    UserStates,    \* the states the user wants the job in
    HzCourse       \* the states the Hazelcast resource goes through

VARIABLES
    job,           \* the object at the API server
    cache,         \* the informer cache of it
    queued,        \* whether the object is in the work queue
    hz,            \* the Hazelcast resource
    runs,          \* the status of each run at the members
    calls,         \* the goroutines that submit: how many send, how many report
    checker,       \* the status checker: whether the job is stored there (and
                   \* was submitted since), whether checkInProgress is set
    todo,          \* its goroutine: the summaries it still has to look at
    rec,           \* the worker: its step and its copy of the object
    mixed,         \* whether the annotation was once not what had been applied
    edits, mishaps \* how many changes by the user, and mishaps, so far

kube   == <<job, cache, queued>>
inside == <<calls, checker, todo>>
vars   == <<kube, hz, runs, inside, rec, mixed, edits, mishaps>>

----------------------------------------------------------------------------
(* The object and the job.                                                 *)

\* jobStatusPhase: what the members report as 0 .. 7.
JobStatusPhase(s) ==
    <<"NotRunning", "Starting", "Running", "Suspended", "SuspendedExportingSnapshot",
      "Completing", "ExecutionFailed", "Completed">>[s + 1]

Running   == 2
Suspended == 3
Failed    == 6
Completed == 7

IsRunning(p)   == p \in {"Running", "Starting"}
IsFinished(p)  == p \in {"ExecutionFailed", "Completed"}
IsSuspended(p) == p \in {"Suspended", "SuspendedExportingSnapshot"}

\* A spec is the state that the user wants and, as jar, the fields that may
\* not be updated.
None == [state |-> "none", jar |-> 0]

New == [live |-> TRUE, deleting |-> FALSE, fin |-> FALSE,
        spec |-> [state |-> "Running", jar |-> 0], ann |-> None,
        phase |-> "", id |-> 0]

\* What is gone keeps its last status here, for the properties.
Gone(j) == [j EXCEPT !.live = FALSE]

Idle == [pc |-> "idle", job |-> Gone(New)]

Init ==
    /\ job = New /\ cache = Gone(New) /\ queued = FALSE
    /\ hz = Head(HzCourse)
    /\ runs = <<>>
    /\ calls = [send |-> 0, report |-> 0]
    /\ checker = [job |-> "none", on |-> FALSE] /\ todo = {}
    /\ rec = Idle /\ mixed = FALSE
    /\ edits = 0 /\ mishaps = 0

\* A change of the state, the deletion and a mishap are one event each; a change
\* of the JAR takes all there may be.
Event(n) == edits + mishaps + n <= MaxEvents
Fault    == Event(1) /\ mishaps' = mishaps + 1
NoFault  == UNCHANGED mishaps

Active == {i \in DOMAIN runs : runs[i] \in {Running, Suspended}}

----------------------------------------------------------------------------
(* The user, the caches, the cluster and the restarts.                     *)

\* validateJetStateChange, in the webhook: by the status the job has then.
StateChangeAllowed(new) ==
    \/ new = job.spec.state \/ job.phase = ""
    \/ /\ ~IsFinished(job.phase) /\ job.phase # "Completing"
       /\ job.phase = "Running" \/ new = "Running"

Edit ==
    /\ job.live
    /\ \/ \E s \in UserStates \ {job.spec.state} :
             /\ Event(1) /\ edits' = edits + 1
             /\ StateChangeAllowed(s)
             /\ job' = [job EXCEPT !.spec.state = s]
       \/ /\ Event(MaxEvents) /\ edits' = MaxEvents
          /\ job' = [job EXCEPT !.spec.jar = 1]
    /\ UNCHANGED <<cache, queued, hz, runs, inside, rec, mixed, mishaps>>

Delete ==
    /\ job.live /\ ~job.deleting
    /\ Event(1) /\ edits' = edits + 1
    /\ job' = IF job.fin THEN [job EXCEPT !.deleting = TRUE] ELSE Gone(job)
    /\ UNCHANGED <<cache, queued, hz, runs, inside, rec, mixed, mishaps>>

SyncCache ==
    /\ cache # job
    /\ cache' = job /\ queued' = TRUE
    /\ UNCHANGED <<job, hz, runs, inside, rec, mixed, edits, mishaps>>

Restart ==
    /\ Fault
    /\ cache' = job /\ queued' = TRUE
    /\ calls' = [send |-> 0, report |-> 0]
    /\ checker' = [job |-> "none", on |-> FALSE] /\ todo' = {}
    /\ rec' = Idle
    /\ UNCHANGED <<job, hz, runs, mixed, edits>>

\* "notready" stands for a cluster that is not Running or without Jet.
HazelcastChange ==
    /\ \E k \in 1 .. Len(HzCourse) - 1 : hz = HzCourse[k] /\ hz' = HzCourse[k + 1]
    /\ UNCHANGED <<kube, runs, inside, rec, mixed, edits, mishaps>>

\* A run of the job ends by itself; Completed stands for ExecutionFailed too.
Finish(i) ==
    /\ runs[i] = Running
    /\ runs' = [runs EXCEPT ![i] = Completed]
    /\ UNCHANGED <<kube, hz, inside, rec, mixed, edits, mishaps>>

----------------------------------------------------------------------------
(* What the members make of a request.  An error leaves them as they are.  *)

Known(i) == i \in DOMAIN runs

\* UpdateJobState with jetJobTerminateMode of the state.
Terminates(i, state) ==
    /\ Known(i)
    /\ \/ state \in {"Suspended", "Restarted"} /\ runs[i] = Running
       \/ state = "Canceled" /\ runs[i] \in {Running, Suspended}

Terminated(state) == CASE state = "Suspended" -> Suspended
                       [] state = "Restarted" -> Running
                       [] state = "Canceled"  -> Failed

----------------------------------------------------------------------------
(* Writes of the object.                                                   *)

\* removeJobFromChecker.
Without(c) == [c EXCEPT !.job = "none"]

To(pc) == [rec EXCEPT !.pc = pc]

Keep == UNCHANGED <<cache, hz, edits>>

----------------------------------------------------------------------------
(* Reconcile.                                                              *)

\* ValidateJetJobUpdateSpec.
Invalid(j) == j.ann # None /\ j.spec.jar # j.ann.jar

\* The job runs, is finished, or the spec is the one last applied.
NothingToDo(j) ==
    \/ IsRunning(j.phase) /\ j.spec.state = "Running"
    \/ IsFinished(j.phase)
    \/ j.ann = j.spec

\* What is to be done with the copy j that has its finalizer; applyJetJob
\* changes the state, resumes the job or submits it.
Setup(j) ==
    CASE NothingToDo(j) -> "idle"
      [] ~NothingToDo(j) /\ (Invalid(j) \/ hz \in {"notready", "deleting"}) -> "failed"
      [] ~NothingToDo(j) /\ ~Invalid(j) /\ hz \in {"missing", "gone"} -> "notrunning"
      [] ~NothingToDo(j) /\ ~Invalid(j) /\ hz = "up" ->
            CASE j.spec.state # "Running" -> "change"
              [] j.spec.state = "Running" /\ IsSuspended(j.phase) -> "resume"
              [] OTHER -> "submit"

\* Fault: a job to be submitted is not stored.
RegisteredNever(j, pc) == IF pc = "idle" /\ IsFinished(j.phase) THEN Without(checker) ELSE checker

\* A finished job is taken from the checker, one to be submitted is stored.
Registered(j, pc) ==
    CASE pc = "idle" /\ IsFinished(j.phase) -> Without(checker)
      [] pc = "submit" /\ checker.job = "none" -> [checker EXCEPT !.job = "stored"]
      [] OTHER -> checker

\* Of the copy only the spec and the id are used from here on.
GoOn(j) ==
    /\ rec' = [pc  |-> Setup(j),
               job |-> IF Setup(j) \in {"change", "resume", "submit"}
                       THEN [Idle.job EXCEPT !.spec = j.spec, !.id = j.id] ELSE Idle.job]
    /\ checker' = Registered(j, Setup(j))
    /\ UNCHANGED <<calls, todo>>

Reconcile ==
    /\ rec.pc = "idle" /\ queued
    /\ queued' = FALSE
    /\ IF cache.live /\ ~cache.deleting /\ cache.fin THEN GoOn(cache)
       ELSE /\ rec' = IF ~cache.live THEN Idle
                      ELSE [pc |-> IF cache.deleting THEN "stop" ELSE "finalizer", job |-> cache]
            /\ UNCHANGED inside
    /\ UNCHANGED <<job, runs, mixed, mishaps>> /\ Keep

AddFinalizer ==
    /\ rec.pc = "finalizer"
    /\ \/ /\ rec.job = job /\ NoFault
          /\ job' = [job EXCEPT !.fin = TRUE]
          /\ GoOn(job')
       \/ /\ (rec.job # job /\ NoFault) \/ Fault
          /\ rec' = [Idle EXCEPT !.pc = "failed"]
          /\ UNCHANGED <<job, inside>>
    /\ UNCHANGED <<queued, runs, mixed>> /\ Keep

\* updateStatus reads the object again, from the cache, and gives up when it
\* keeps meeting conflicts.  Failed and NotRunning queue the object again.
UpdateStatus ==
    /\ rec.pc \in {"failed", "notrunning"}
    /\ \/ /\ cache = job /\ job.live
          /\ job' = [job EXCEPT !.phase = IF rec.pc = "failed" THEN "Failed" ELSE "NotRunning"]
       \/ (cache # job \/ ~job.live) /\ UNCHANGED job
    /\ rec' = Idle /\ queued' = TRUE
    /\ UNCHANGED <<runs, inside, mixed, mishaps>> /\ Keep

\* Another JetJob has the job name (ValidateExistingJobName), the client
\* cannot be made, the snapshot to start from is missing or not exported, or
\* the JAR cannot be downloaded.
ApplyFailed ==
    /\ rec.pc \in {"change", "resume", "submit"} /\ Fault
    /\ rec' = [Idle EXCEPT !.pc = "failed"]
    /\ UNCHANGED <<job, queued, runs, inside, mixed>> /\ Keep

\* changeJobState and ResumeJob: an error is handed on without a status.
Change(pc, can, status) ==
    LET i == rec.job.id
    IN /\ rec.pc = pc
       /\ \/ /\ can /\ NoFault
             /\ runs' = [runs EXCEPT ![i] = status]
             /\ rec' = To("annotate") /\ UNCHANGED queued
          \/ /\ (~can /\ NoFault) \/ Fault
             /\ rec' = Idle /\ queued' = TRUE /\ UNCHANGED runs
       /\ UNCHANGED <<job, inside, mixed>> /\ Keep

ChangeJobState ==
    /\ rec.pc = "change"
    /\ Change("change", Terminates(rec.job.id, rec.job.spec.state),
              Terminated(rec.job.spec.state))

ResumeJob ==
    /\ rec.pc = "resume"
    /\ Change("resume", Known(rec.job.id) /\ runs[rec.job.id] = Suspended, Running)

\* Fault: a job that was stored before does not start the goroutine.
RunCheckerOnce(c) == IF c.job = "submitted" THEN c ELSE [c EXCEPT !.on = TRUE]

\* runChecker starts the goroutine unless checkInProgress is set.
RunChecker(c) == [c EXCEPT !.on = TRUE]

\* The goroutine that runs the job starts, and the checker.
Submit ==
    /\ rec.pc = "submit" /\ calls.send + calls.report < MaxCalls
    /\ calls' = [calls EXCEPT !.send = @ + 1]
    /\ checker' = RunChecker([checker EXCEPT !.job = IF @ = "none" THEN "none" ELSE "submitted"])
    /\ UNCHANGED todo
    /\ rec' = To("starting")
    /\ UNCHANGED <<job, queued, runs, mixed, mishaps>> /\ Keep

WriteStarting ==
    /\ rec.pc = "starting"
    /\ \/ /\ cache = job /\ job.live /\ NoFault
          /\ job' = [job EXCEPT !.phase = "Starting"]
          /\ rec' = To("annotate") /\ UNCHANGED queued
       \/ /\ ((cache # job \/ ~job.live) /\ NoFault) \/ Fault
          /\ rec' = Idle /\ queued' = TRUE /\ UNCHANGED job
    /\ UNCHANGED <<runs, inside, mixed>> /\ Keep

\* updateLastSuccessfulConfiguration reads the object again and saves the
\* spec it has by now; an error is only logged.
UpdateLastSuccessful ==
    /\ rec.pc = "annotate"
    /\ \/ /\ cache = job /\ job.live /\ NoFault
          /\ job' = [job EXCEPT !.ann = job.spec]
          /\ mixed' = (mixed \/ job.spec # rec.job.spec)
       \/ /\ ((cache # job \/ ~job.live) /\ NoFault) \/ Fault
          /\ mixed' = (mixed \/ job.ann # rec.job.spec)
          /\ UNCHANGED job
    /\ rec' = Idle
    /\ UNCHANGED <<queued, runs, inside>> /\ Keep

----------------------------------------------------------------------------
(* executeFinalizer.                                                       *)

\* Fault: the job is left alone.
StopNothing(i) == runs

\* stopJetExecution with CancelForcefully, which a run that is over ignores.
Stop(i) == IF i \in Active THEN [runs EXCEPT ![i] = Failed] ELSE runs

StopJetExecution ==
    /\ rec.pc = "stop"
    /\ \/ /\ NoFault
          /\ runs' = IF hz \in {"gone", "deleting", "missing"} THEN runs ELSE Stop(rec.job.id)
          /\ rec' = To("remove")
       \/ /\ Fault
          /\ rec' = [Idle EXCEPT !.pc = "failed"] /\ UNCHANGED runs
    /\ UNCHANGED <<job, queued, inside, mixed>> /\ Keep

RemoveFinalizer ==
    /\ rec.pc = "remove"
    /\ checker' = Without(checker)
    /\ \/ /\ rec.job = job /\ NoFault
          /\ job' = Gone(job) /\ rec' = Idle
       \/ /\ (rec.job # job /\ NoFault) \/ Fault
          /\ rec' = [Idle EXCEPT !.pc = "failed"] /\ UNCHANGED job
    /\ UNCHANGED <<queued, runs, calls, todo, mixed>> /\ Keep

----------------------------------------------------------------------------
(* The goroutines that submit the job.                                     *)

\* RunJob: the members refuse a job with the name of one that is active.
RunJob ==
    /\ calls.send > 0
    /\ \/ /\ Active = {} /\ Len(runs) < MaxRuns /\ NoFault
          /\ runs' = Append(runs, Running)
          /\ calls' = [calls EXCEPT !.send = @ - 1]
          /\ UNCHANGED mixed
       \/ /\ ((Active # {} \/ Len(runs) = MaxRuns) /\ NoFault) \/ Fault
          /\ UNCHANGED runs
          /\ calls' = [send |-> calls.send - 1, report |-> calls.report + 1]
          /\ mixed' = TRUE
    /\ UNCHANGED <<kube, hz, checker, todo, rec, edits>>

ReportFailure ==
    /\ calls.report > 0
    /\ calls' = [calls EXCEPT !.report = @ - 1]
    /\ \/ cache = job /\ job.live /\ job' = [job EXCEPT !.phase = "Failed"]
       \/ (cache # job \/ ~job.live) /\ UNCHANGED job
    /\ UNCHANGED <<cache, queued, hz, runs, checker, todo, rec, mixed, edits, mishaps>>

----------------------------------------------------------------------------
(* The status checker.                                                     *)

\* Under the lock: the goroutine goes on while there are jobs.
StaysOn(c) == c.job # "none"

Tick ==
    /\ checker.on /\ todo = {}
    /\ IF StaysOn(checker)
       THEN /\ UNCHANGED checker
            /\ \/ NoFault /\ todo' = {[id |-> i, status |-> runs[i]] : i \in DOMAIN runs}
               \/ Fault /\ UNCHANGED todo
       ELSE checker' = [checker EXCEPT !.on = FALSE] /\ UNCHANGED <<todo, mishaps>>
    /\ UNCHANGED <<kube, hz, runs, calls, rec, mixed, edits>>

\* updateJob for one summary, if the job is still stored; a conflict is only
\* logged.
UpdateJob ==
    /\ \E s \in todo :
          /\ todo' = todo \ {s}
          /\ checker' = IF cache.live /\ IsFinished(cache.phase) THEN Without(checker) ELSE checker
          /\ job' = IF checker.job # "none" /\ cache.live /\ cache = job
                    THEN [job EXCEPT !.phase = JobStatusPhase(s.status), !.id = s.id]
                    ELSE job
    /\ UNCHANGED <<cache, queued, hz, runs, calls, rec, mixed, edits, mishaps>>

----------------------------------------------------------------------------
Worker ==
    \/ Reconcile \/ AddFinalizer \/ UpdateStatus \/ ApplyFailed
    \/ ChangeJobState \/ ResumeJob \/ Submit \/ WriteStarting
    \/ UpdateLastSuccessful \/ StopJetExecution \/ RemoveFinalizer

Ticker == Tick \/ UpdateJob

Goroutines == RunJob \/ ReportFailure

Next ==
    \/ Edit \/ Delete \/ SyncCache \/ Restart \/ HazelcastChange
    \/ \E i \in DOMAIN runs : Finish(i)
    \/ Worker \/ Ticker \/ Goroutines

Spec == Init /\ [][Next]_vars

\* The worker takes what is queued and goes on, the caches follow, and the
\* goroutines run; the cluster gets ready.
Comes == hz \in {"missing", "notready"} /\ HazelcastChange

FairSpec ==
    /\ Spec
    /\ WF_vars(Worker) /\ WF_vars(SyncCache)
    /\ WF_vars(Ticker) /\ WF_vars(Goroutines)
    /\ WF_vars(Comes)

----------------------------------------------------------------------------
(* What holds in every state: the types, and why the finalizer is never    *)
(* late.  Here GoneIsStopped and CheckerRuns are inductive.                *)

HzStates == {"missing", "notready", "up", "deleting", "gone"}
Statuses == {Running, Suspended, Failed, Completed}

\* The cluster of a job is created once, and does not come back after its
\* deletion.
Follows(h, next) ==
    /\ next = "missing" => h = "missing"
    /\ next \in {"notready", "up"} => h \in {"missing", "notready", "up"}

States  == {"none", "Running", "Suspended", "Canceled", "Restarted"}
Phases  == {"", "Failed"} \cup {JobStatusPhase(s) : s \in 0 .. 7}
Specs   == [state : States, jar : Nat]
Objects == [live : BOOLEAN, deleting : BOOLEAN, fin : BOOLEAN,
            spec : Specs, ann : Specs, phase : Phases, id : Nat]

\* The steps of applyJetJob: the job is changed or submitted, and what follows.
Applying == {"change", "resume", "submit", "starting", "annotate"}
Steps    == Applying \cup {"idle", "finalizer", "failed", "notrunning", "stop", "remove"}

TypeOK ==
    /\ job \in Objects /\ cache \in Objects /\ queued \in BOOLEAN
    /\ hz \in HzStates
    /\ runs \in Seq(Statuses)
    /\ calls \in [send : Nat, report : Nat]
    /\ checker \in [job : {"none", "stored", "submitted"}, on : BOOLEAN]
    /\ todo \subseteq [id : Nat, status : Statuses]
    /\ rec \in [pc : Steps, job : Objects]
    /\ mixed \in BOOLEAN
    /\ edits \in Nat /\ mishaps \in Nat

\* An id that anybody holds is of a run that was started.
IdInv ==
    /\ {job.id, cache.id, rec.job.id} \subseteq 0 .. Len(runs)
    /\ \A s \in todo : s.id \in 1 .. Len(runs)

\* The job is only submitted for an object with its finalizer, while the cluster
\* exists.
Begun == runs # <<>> \/ calls.send > 0 \/ rec.pc \in Applying

FinalizerInv ==
    /\ cache.fin => job.fin
    /\ Begun => job.fin /\ hz # "missing"

\* Before the finalizer is removed, the run that the copy names is over.
StoppedInv ==
    hz \in {"notready", "up"} =>
        /\ rec.pc = "remove" => rec.job.id \notin Active
        /\ ~job.live => job.id \notin Active

----------------------------------------------------------------------------
(* Properties.                                                             *)

\* An object that is gone has no run left, of those that its status named:
\* the finalizer is not removed with a copy older than the status
\* (executeFinalizer, stopJetExecution, updateJob).  A job that was submitted
\* and never polled is not cancelled, nor one whose cluster is deleted.
GoneIsStopped ==
    ~job.live /\ job.id # 0 /\ hz \in {"notready", "up"} => job.id \notin Active

\* A job that was submitted and is stored is polled: the goroutine ends only
\* under the lock (runChecker).
CheckerRuns == checker.job = "submitted" => checker.on

Inv == TypeOK /\ IdInv /\ FinalizerInv /\ StoppedInv /\ CheckerRuns

\* What a user wants of a job that is not over is done in the end, and a JetJob
\* that is deleted goes.
Obeyed ==
    \A i \in Active : /\ job.spec.state = "Running" => runs[i] # Suspended
                      /\ job.spec.state = "Suspended" => runs[i] # Running

\* Unless a call failed or the operator restarted, after which nobody polls, or
\* the annotation was saved for a spec that came later, or for a job that the
\* members refused, or was not saved (updateLastSuccessfulConfiguration).
ObeyedOrExcused ==
    \/ ~job.live
    \/ Obeyed /\ ~job.deleting
    \/ hz # "up" \/ Invalid(job) \/ mixed \/ mishaps # 0

============================================================================
