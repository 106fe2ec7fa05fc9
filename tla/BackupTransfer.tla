--------------------------- MODULE BackupTransfer ---------------------------
(***************************************************************************)
(* One run of startBackup from NewClusterBackup to its result: the group   *)
(* of goroutines that wait for the members' hot restart backups, then the  *)
(* group that locates the local backups or has the agents upload them, the *)
(* cleanup after an error and the deferred removal of the upload tasks.    *)
(*                                                                         *)
(* HotBackup models what surrounds this run (status, cancellation, cluster *)
(* state).  REST calls to an agent take no context: a cancelled context    *)
(* does not stop them.  Calls to a member do.                              *)
(***************************************************************************)
EXTENDS Naturals, FiniteSets

CONSTANTS
    Members,       \* the members of the Hazelcast cluster
    Kinds,         \* the values of isExternal: upload to a bucket, or stay local
    NoTaskLimit,   \* how many NO_TASK answers Wait accepts (10 in the code)
    MaxFaults      \* how many calls may fail

ASSUME ConstantsAssumption ==
    /\ IsFiniteSet(Members)
    /\ Kinds \subseteq BOOLEAN
    /\ NoTaskLimit \in Nat
    /\ MaxFaults \in Nat

VARIABLES
    external,      \* isExternal: the backup is uploaded to a bucket
    main,          \* where startBackup is
    members,       \* b.members: the members NewClusterBackup found
    gpc,           \* the goroutine of each member in the current group
    polls,         \* Wait: the NO_TASK answers so far (n)
    groupErr,      \* g.err is set, and groupCtx cancelled
    cancelled,     \* ctx is cancelled: the HotBackup is being deleted
    interrupts,    \* the interrupt calls cancelOnce let through
    uploads,       \* the slice of upload tasks to remove
    finished,      \* finishedUploads: the slice of uploads to clean up
    captured,      \* the slice header a goroutine read for its append
    uuids,         \* the members with an entry in backupUUIDs
    todo,          \* the uploads the cleanup or the removal has still to do
    outcome,       \* the state startBackup reports
    memberTask,    \* the BackupTaskState of each member
    agent,         \* the upload task at the agent of each member
    known,         \* the members whose uploadID the operator knows
    bucket,        \* the members whose backup lies in the bucket
    faults         \* how many calls failed so far

slices  == <<uploads, finished, captured>>
group   == <<gpc, groupErr>>
cluster == <<memberTask, agent, bucket>>
request == <<external, cancelled>>
vars    == <<request, main, members, group, polls, interrupts,
             slices, uuids, todo, outcome, cluster, known, faults>>

TaskStates == {"NO_TASK", "IN_PROGRESS", "SUCCESS", "FAILURE"}

AgentStates == {"NONE", "IN_PROGRESS", "SUCCESS", "FAILURE", "CANCELED"}

MainPCs == {"new", "start", "wait", "waited", "transfer", "cleanup", "remove",
            "done"}

GoPCs == {"idle", "poll", "sleep", "interrupt", "locate", "upload", "status",
          "pause", "cancel", "finRead", "finWrite", "appRead", "appWrite",
          "errRead", "errWrite", "ok", "failed"}

Init ==
    /\ external \in Kinds
    /\ main = "new" /\ members = {}
    /\ gpc = [m \in Members |-> "idle"]
    /\ polls = [m \in Members |-> 0]
    /\ groupErr = FALSE /\ cancelled = FALSE /\ interrupts = 0
    /\ uploads = {} /\ finished = {} /\ captured = [m \in Members |-> {}]
    /\ uuids = {} /\ todo = {} /\ outcome = ""
    /\ memberTask = [m \in Members |-> "NO_TASK"]
    /\ agent = [m \in Members |-> "NONE"]
    /\ known = {} /\ bucket = {} /\ faults = 0

Fault == faults < MaxFaults /\ faults' = faults + 1

NoFault == UNCHANGED faults

\* Fault: the goroutines wait with ctx in place of groupCtx.
GroupDoneByCtx == cancelled

\* groupCtx is done: ctx is, or a goroutine of the group returned an error.
GroupDone == cancelled \/ groupErr

----------------------------------------------------------------------------
(* The user, the members and the agents.                                   *)

\* executeFinalizer of the HotBackup calls the cancel function of ctx.
Cancel ==
    /\ ~cancelled /\ main # "done"
    /\ cancelled' = TRUE
    /\ UNCHANGED <<external, main, members, group, polls, interrupts, slices, uuids, todo,
                   outcome, cluster, known, faults>>

\* A member starts, finishes or fails its backup once it was triggered.
MemberStep(m) ==
    /\ main = "wait"
    /\ memberTask' \in {[memberTask EXCEPT ![m] = s] :
           s \in CASE memberTask[m] = "NO_TASK"     -> {"IN_PROGRESS"}
                   [] memberTask[m] = "IN_PROGRESS" -> {"SUCCESS", "FAILURE"}
                   [] OTHER                         -> {}}
    /\ UNCHANGED <<main, members, group, polls, request, interrupts, slices,
                   uuids, todo, outcome, agent, bucket, known, faults>>

\* An agent finishes or fails an upload it works on.
AgentStep(m) ==
    /\ agent[m] = "IN_PROGRESS"
    /\ \/ agent' = [agent EXCEPT ![m] = "SUCCESS"] /\ bucket' = bucket \cup {m}
       \/ agent' = [agent EXCEPT ![m] = "FAILURE"] /\ UNCHANGED bucket
    /\ UNCHANGED <<main, members, group, polls, request, interrupts, slices,
                   uuids, todo, outcome, memberTask, known, faults>>

----------------------------------------------------------------------------
(* startBackup.                                                            *)

\* NewClusterBackup: UpdateMembers leaves out the members it cannot ask.
NewClusterBackup ==
    /\ main = "new"
    /\ \/ members' = Members /\ NoFault
       \/ \E m \in Members : members' = Members \ {m} /\ Fault
    /\ main' = "start"
    /\ UNCHANGED <<group, polls, request, interrupts, slices, uuids, todo,
                   outcome, cluster, known>>

\* b.Start: the backup is triggered on the whole cluster, or it fails.
Start ==
    /\ main = "start"
    /\ \/ /\ ~cancelled /\ NoFault
          /\ main' = "wait"
          /\ gpc' = [m \in Members |-> IF m \in members THEN "poll" ELSE "idle"]
          /\ UNCHANGED outcome
       \/ /\ (cancelled /\ NoFault) \/ Fault
          /\ main' = "done" /\ outcome' = "Failure"
          /\ UNCHANGED gpc
    /\ UNCHANGED <<members, groupErr, polls, request, interrupts, slices, uuids,
                   todo, cluster, known>>

\* g.Wait() returns once every goroutine of the group has returned.
Joined == \A m \in members : gpc[m] \in {"ok", "failed"}

\* The first group has ended; after an error startBackup ends.
WaitedForMembers ==
    /\ main = "wait" /\ Joined
    /\ IF groupErr THEN main' = "done" /\ outcome' = "Failure"
                   ELSE main' = "waited" /\ UNCHANGED outcome
    /\ UNCHANGED <<members, group, polls, request, interrupts, slices, uuids,
                   todo, cluster, known, faults>>

\* mtlsClientRegistry.GetOrCreate, then the second group with a new error.
StartTransfer ==
    /\ main = "waited"
    /\ \/ /\ NoFault
          /\ main' = "transfer" /\ groupErr' = FALSE
          /\ gpc' = [m \in Members |-> IF m \in members THEN "locate" ELSE "idle"]
          /\ UNCHANGED outcome
       \/ /\ Fault
          /\ main' = "done" /\ outcome' = "Failure"
          /\ UNCHANGED group
    /\ UNCHANGED <<members, polls, request, interrupts, slices, uuids, todo,
                   cluster, known>>

\* Fault: a failed group is reported only if no upload finished.
TransferFailedQuietly == groupErr /\ finished = {}

\* g.Wait() of the second group returned an error.
TransferFailed == groupErr

\* The second group has ended: clean up after an error, then the result and
\* the deferred removal.
TransferEnded ==
    /\ main = "transfer" /\ Joined
    /\ IF TransferFailed
       THEN main' = "cleanup" /\ todo' = finished /\ UNCHANGED outcome
       ELSE main' = "remove" /\ todo' = uploads /\ outcome' = "Success"
    /\ UNCHANGED <<members, group, polls, request, interrupts, slices, uuids,
                   cluster, known, faults>>

\* One Cleanup call of the cleanup group; an error is logged.
Cleanup(m) ==
    /\ main = "cleanup" /\ m \in todo
    /\ \/ bucket' = bucket \ {m} /\ NoFault
       \/ UNCHANGED bucket /\ Fault
    /\ todo' = todo \ {m}
    /\ UNCHANGED <<main, members, group, polls, request, interrupts, slices,
                   uuids, outcome, memberTask, agent, known>>

CleanupEnded ==
    /\ main = "cleanup" /\ todo = {}
    /\ main' = "remove" /\ outcome' = "Failure" /\ todo' = uploads
    /\ UNCHANGED <<members, group, polls, request, interrupts, slices, uuids,
                   cluster, known, faults>>

\* The deferred Remove of an upload; an error, also for an upload that was
\* never started, is logged.
Remove(m) ==
    /\ main = "remove" /\ m \in todo
    /\ \/ /\ m \in known /\ NoFault
          /\ agent' = [agent EXCEPT ![m] = "NONE"]
       \/ UNCHANGED agent /\ m \notin known /\ NoFault
       \/ UNCHANGED agent /\ Fault
    /\ todo' = todo \ {m}
    /\ UNCHANGED <<main, members, group, polls, request, interrupts, slices,
                   uuids, outcome, memberTask, bucket, known>>

RemoveEnded ==
    /\ main = "remove" /\ todo = {}
    /\ main' = "done"
    /\ UNCHANGED <<members, group, polls, request, interrupts, slices, uuids,
                   todo, outcome, cluster, known, faults>>

----------------------------------------------------------------------------
(* MemberBackup.Wait, in the first group.                                  *)

Goto(m, pc) == gpc' = [gpc EXCEPT ![m] = pc]

\* The goroutine returns an error: errgroup keeps the first one and cancels
\* groupCtx.
Fail(m) == Goto(m, "failed") /\ groupErr' = TRUE

Continue(m, pc) == Goto(m, pc) /\ UNCHANGED groupErr

\* What Wait does with an answer; n counts NO_TASK and is tested before it
\* is incremented.
WaitVerdict(s, n) ==
    CASE s = "SUCCESS" -> "ok"
      [] s = "FAILURE" -> "interrupt"
      [] s = "NO_TASK" -> IF n > NoTaskLimit THEN "interrupt" ELSE "sleep"
      [] OTHER         -> "sleep"

NoTaskCount(s, n) == IF s = "NO_TASK" /\ n <= NoTaskLimit THEN n + 1 ELSE n

Poll(m) ==
    /\ gpc[m] = "poll" /\ main = "wait"
    /\ \/ /\ ~GroupDone /\ NoFault
          /\ Continue(m, WaitVerdict(memberTask[m], polls[m]))
          /\ polls' = [polls EXCEPT ![m] = NoTaskCount(memberTask[m], @)]
       \/ /\ (GroupDone /\ NoFault) \/ Fault
          /\ Continue(m, "interrupt") /\ UNCHANGED polls
    /\ UNCHANGED <<main, members, request, interrupts, slices, uuids, todo,
                   outcome, cluster, known>>

\* select on the timer and groupCtx.
Sleep(m) ==
    /\ gpc[m] = "sleep"
    /\ \/ Continue(m, "poll")
       \/ GroupDone /\ Continue(m, "interrupt")
    /\ UNCHANGED <<main, members, polls, request, interrupts, slices, uuids,
                   todo, outcome, cluster, known, faults>>

\* Fault: every failing goroutine interrupts the backup.
MayInterruptAlways == TRUE

\* cancelOnce: only the first goroutine makes the call.
MayInterrupt == interrupts = 0

\* b.Cancel(ctx) and the return of the error.  The interrupt ends the backup
\* of every member; with a cancelled context the call fails at once.
Interrupt(m) ==
    /\ gpc[m] = "interrupt"
    /\ IF MayInterrupt
       THEN /\ interrupts' = interrupts + 1
            /\ \/ /\ ~cancelled /\ NoFault
                  /\ memberTask' = [k \in Members |->
                         IF memberTask[k] = "IN_PROGRESS" THEN "FAILURE"
                         ELSE memberTask[k]]
               \/ ((cancelled /\ NoFault) \/ Fault) /\ UNCHANGED memberTask
       ELSE UNCHANGED <<interrupts, memberTask>> /\ NoFault
    /\ Fail(m)
    /\ UNCHANGED <<main, members, polls, request, slices, uuids, todo, outcome,
                   agent, bucket, known>>

----------------------------------------------------------------------------
(* The second group: locate a local backup, or upload it.                  *)

\* The config Secret and the HotBackup are read; a local backup is located
\* at the agent.  Failing here, no upload exists yet.
Locate(m) ==
    /\ gpc[m] = "locate"
    /\ \/ /\ NoFault /\ external
          /\ Continue(m, "upload") /\ UNCHANGED uuids
       \/ /\ NoFault /\ ~external
          /\ Continue(m, "ok") /\ uuids' = uuids \cup {m}
       \/ /\ (cancelled /\ NoFault) \/ Fault
          /\ Fail(m) /\ UNCHANGED uuids
    /\ UNCHANGED <<main, members, polls, request, interrupts, slices, todo,
                   outcome, cluster, known>>

\* u.Start: a call that failed may have started the upload all the same.
Upload(m) ==
    /\ gpc[m] = "upload"
    /\ \/ /\ NoFault
          /\ agent' = [agent EXCEPT ![m] = "IN_PROGRESS"]
          /\ known' = known \cup {m} /\ Continue(m, "status")
       \/ /\ Fault
          /\ agent' \in {agent, [agent EXCEPT ![m] = "IN_PROGRESS"]}
          /\ Continue(m, "errRead") /\ UNCHANGED known
    /\ UNCHANGED <<main, members, polls, request, interrupts, slices, uuids,
                   todo, outcome, memberTask, bucket>>

\* What u.Wait does with an answer.
UploadVerdict(s) ==
    CASE s = "SUCCESS"     -> "finRead"
      [] s = "IN_PROGRESS" -> "pause"
      [] OTHER             -> "errRead"

\* A failed status call counts as cancelled once groupCtx is done.
Status(m) ==
    /\ gpc[m] = "status"
    /\ \/ NoFault /\ Continue(m, UploadVerdict(agent[m]))
       \/ Fault /\ Continue(m, IF GroupDone THEN "cancel" ELSE "errRead")
    /\ UNCHANGED <<main, members, polls, request, interrupts, slices, uuids,
                   todo, outcome, cluster, known>>

\* Fault: an upload that is given up is not cancelled at the agent.
GivenUpForgotten == "errRead"

\* context.Canceled is told apart from the other errors of u.Wait.
GivenUp == "cancel"

Pause(m) ==
    /\ gpc[m] = "pause"
    /\ \/ Continue(m, "status")
       \/ GroupDone /\ Continue(m, GivenUp)
    /\ UNCHANGED <<main, members, polls, request, interrupts, slices, uuids,
                   todo, outcome, cluster, known, faults>>

\* u.Cancel: the agent ends an upload that it still works on.
CancelUpload(m) ==
    /\ gpc[m] = "cancel"
    /\ \/ /\ NoFault
          /\ agent' = [agent EXCEPT ![m] = IF @ = "IN_PROGRESS" THEN "CANCELED"
                                           ELSE @]
       \/ Fault /\ UNCHANGED agent
    /\ Continue(m, "errRead")
    /\ UNCHANGED <<main, members, polls, request, interrupts, slices, uuids,
                   todo, outcome, memberTask, bucket, known>>

\* append to finishedUploads and, deferred, to uploads: nothing orders the
\* goroutines between the read of the slice and the write of the new one.
AppendRead(m) ==
    /\ \/ /\ gpc[m] = "finRead" /\ Continue(m, "finWrite")
          /\ captured' = [captured EXCEPT ![m] = finished]
       \/ /\ gpc[m] \in {"appRead", "errRead"}
          /\ Continue(m, IF gpc[m] = "appRead" THEN "appWrite" ELSE "errWrite")
          /\ captured' = [captured EXCEPT ![m] = uploads]
    /\ UNCHANGED <<main, members, polls, request, interrupts, uploads, finished,
                   uuids, todo, outcome, cluster, known, faults>>

FinishedWrite(m) ==
    /\ gpc[m] = "finWrite" /\ Continue(m, "appRead")
    /\ finished' = captured[m] \cup {m}
    /\ uuids' = uuids \cup {m}
    /\ UNCHANGED <<main, members, polls, request, interrupts, uploads, captured,
                   todo, outcome, cluster, known, faults>>

UploadsWrite(m) ==
    /\ \/ gpc[m] = "appWrite" /\ Continue(m, "ok")
       \/ gpc[m] = "errWrite" /\ Fail(m)
    /\ uploads' = captured[m] \cup {m}
    /\ UNCHANGED <<main, members, polls, request, interrupts, finished, captured,
                   uuids, todo, outcome, cluster, known, faults>>

----------------------------------------------------------------------------
Main ==
    \/ NewClusterBackup \/ Start \/ WaitedForMembers \/ StartTransfer
    \/ TransferEnded \/ CleanupEnded \/ RemoveEnded
    \/ \E m \in Members : Cleanup(m) \/ Remove(m)

Goroutine(m) ==
    \/ Poll(m) \/ Sleep(m) \/ Interrupt(m)
    \/ Locate(m) \/ Upload(m) \/ Status(m) \/ Pause(m) \/ CancelUpload(m)
    \/ AppendRead(m) \/ FinishedWrite(m) \/ UploadsWrite(m)

Next ==
    \/ Main \/ Cancel
    \/ \E m \in Members : Goroutine(m) \/ MemberStep(m) \/ AgentStep(m)

Spec == Init /\ [][Next]_vars

\* The Go scheduler runs every goroutine that can run, and a select whose
\* context is done does not take its timer for ever.  Members and agents may
\* take for ever.
FairSpec ==
    /\ Spec
    /\ WF_vars(Main)
    /\ \A m \in Members :
           /\ WF_vars(Goroutine(m))
           /\ SF_vars(Pause(m) /\ gpc'[m] = GivenUp)

----------------------------------------------------------------------------
(* Properties.                                                             *)

TypeOK ==
    /\ external \in BOOLEAN
    /\ main \in MainPCs
    /\ members \subseteq Members
    /\ gpc \in [Members -> GoPCs]
    /\ polls \in [Members -> 0..(NoTaskLimit + 1)]
    /\ groupErr \in BOOLEAN /\ cancelled \in BOOLEAN
    /\ interrupts \in Nat
    /\ uploads \subseteq Members /\ finished \subseteq Members
    /\ captured \in [Members -> SUBSET Members]
    /\ uuids \subseteq Members /\ todo \subseteq Members
    /\ outcome \in {"", "Success", "Failure"}
    /\ memberTask \in [Members -> TaskStates]
    /\ agent \in [Members -> AgentStates]
    /\ known \subseteq Members /\ bucket \subseteq Members
    /\ faults \in 0..MaxFaults

\* Success is reported only if every member that startBackup looked after
\* finished its backup, has an entry in backupUUIDs and, for an external
\* backup, has it in the bucket: no order of answers, errors and
\* cancellation lets a failed member pass.
SuccessIsComplete ==
    outcome = "Success" =>
        /\ members \subseteq uuids
        /\ \A m \in members : memberTask[m] = "SUCCESS"
        /\ external => members \subseteq bucket

\* However many members fail, and however often the group is cancelled, the
\* cluster backup is interrupted once at most, and it is before startBackup
\* gives up on its members.
InterruptedOnce ==
    /\ interrupts <= 1
    /\ \A m \in members : main = "wait" /\ gpc[m] = "failed" => interrupts = 1

\* When startBackup has ended without a failing call, no agent is left
\* uploading: whatever made the group end, also a deletion of the HotBackup
\* that cancels ctx, each goroutine cancels its upload.
NoUploadLeft ==
    main = "done" /\ faults = 0 => \A m \in Members : agent[m] # "IN_PROGRESS"

\* One failing member, or the deletion of the HotBackup, ends the run even
\* if other members or agents never answer SUCCESS or FAILURE.
FailureEnds == (cancelled \/ groupErr) ~> main = "done"
============================================================================
