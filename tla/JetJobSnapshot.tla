---------------------------- MODULE JetJobSnapshot ----------------------------
(***************************************************************************)
(* The JetJobSnapshot controller: it exports a snapshot of a running job   *)
(* once, from a goroutine.  That the export was begun is remembered in a   *)
(* map in memory and, a little later, in an annotation of the object.      *)
(***************************************************************************)
EXTENDS Naturals

CONSTANTS
    MaxEvents      \* how many edits, failed calls and restarts, together

VARIABLES
    jjs,           \* the object at the API server
    cache,         \* the informer cache of it
    queued,        \* whether the object is in the work queue
    jetjob,        \* the JetJob: not known to the members, Running or Suspended
    exporting,     \* exportingSnapshotMap
    task,          \* the goroutine that exports
    exports,       \* how many snapshots the members exported for the object
    rec,           \* the worker: its step and its copy of the object
    restarts,      \* whether the operator restarted
    events         \* how many edits, failed calls and restarts so far

kube == <<jjs, cache, queued>>
vars == <<kube, jetjob, exporting, task, exports, rec, restarts, events>>

None == 9

New == [live |-> TRUE, deleting |-> FALSE, fin |-> FALSE, owned |-> FALSE,
        spec |-> 0, ann |-> None, state |-> "", time |-> FALSE]

Gone == [New EXCEPT !.live = FALSE]

Idle == [pc |-> "idle", jjs |-> Gone]

Init ==
    /\ jjs = New /\ cache = Gone /\ queued = FALSE
    /\ jetjob = "NotKnown" /\ exporting = FALSE /\ task = "none" /\ exports = 0
    /\ rec = Idle /\ restarts = FALSE /\ events = 0

Fault   == events < MaxEvents /\ events' = events + 1
NoFault == UNCHANGED events

----------------------------------------------------------------------------
(* The user, the cache, the JetJob and the restarts.                       *)

Edit ==
    /\ jjs.live /\ Fault
    /\ jjs' = [jjs EXCEPT !.spec = 1 - @]
    /\ UNCHANGED <<cache, queued, jetjob, exporting, task, exports, rec, restarts>>

Delete ==
    /\ jjs.live /\ ~jjs.deleting
    /\ jjs' = IF jjs.fin THEN [jjs EXCEPT !.deleting = TRUE] ELSE Gone
    /\ UNCHANGED <<cache, queued, jetjob, exporting, task, exports, rec, restarts, events>>

SyncCache ==
    /\ cache # jjs
    /\ cache' = jjs /\ queued' = TRUE
    /\ UNCHANGED <<jjs, jetjob, exporting, task, exports, rec, restarts, events>>

Restart ==
    /\ Fault /\ restarts' = TRUE
    /\ cache' = jjs /\ queued' = TRUE
    /\ exporting' = FALSE /\ task' = "none" /\ rec' = Idle
    /\ UNCHANGED <<jjs, jetjob, exports>>

JetJobChange ==
    /\ \/ jetjob = "NotKnown" /\ jetjob' = "Running"
       \/ jetjob = "Running" /\ jetjob' = "Suspended"
       \/ jetjob = "Suspended" /\ jetjob' = "Running"
    /\ UNCHANGED <<kube, exporting, task, exports, rec, restarts, events>>

----------------------------------------------------------------------------
(* The worker.                                                             *)

To(pc) == [rec EXCEPT !.pc = pc]

Fresh == rec.jjs = jjs

\* An export that was begun only has its spec compared with the annotation
\* (ValidateJetJobSnapshotSpecUpdate).
Setup(o) == CASE o.ann = o.spec -> "idle"
              [] o.ann \notin {None, o.spec} -> "failed"
              [] o.ann = None /\ ~o.owned -> "owner"
              [] o.ann = None /\ o.owned -> "job"

Reconcile ==
    /\ rec.pc = "idle" /\ queued
    /\ queued' = FALSE
    /\ rec' = IF ~cache.live THEN Idle
              ELSE [jjs |-> cache,
                    pc  |-> CASE cache.deleting                -> "final"
                              [] ~cache.deleting /\ ~cache.fin -> "finalizer"
                              [] ~cache.deleting /\ cache.fin  -> Setup(cache)]
    /\ UNCHANGED <<jjs, cache, jetjob, exporting, task, exports, restarts, events>>

\* The finalizer and the owner reference are written with the copy; what goes
\* wrong, a JetJob or Hazelcast that is not found included, ends in Failed.
UpdateObject ==
    /\ rec.pc \in {"finalizer", "owner"}
    /\ \/ /\ Fresh /\ NoFault
          /\ jjs' = IF rec.pc = "owner" THEN [jjs EXCEPT !.owned = TRUE] ELSE [jjs EXCEPT !.fin = TRUE]
          /\ rec' = [pc |-> IF rec.pc = "owner" THEN "job" ELSE Setup(jjs'), jjs |-> jjs']
       \/ ((~Fresh /\ NoFault) \/ Fault) /\ rec' = To("failed") /\ UNCHANGED jjs
    /\ UNCHANGED <<cache, queued, jetjob, exporting, task, exports, restarts>>

\* updateJetJobSnapshotStatus: the error that is reported queues the object
\* again, a conflict does not.
UpdateStatus ==
    /\ rec.pc = "failed"
    /\ \/ Fresh /\ NoFault /\ jjs' = [jjs EXCEPT !.state = "Failed"] /\ queued' = TRUE
       \/ ~Fresh /\ NoFault /\ UNCHANGED <<jjs, queued>>
       \/ Fault /\ queued' = TRUE /\ UNCHANGED jjs
    /\ rec' = Idle
    /\ UNCHANGED <<cache, jetjob, exporting, task, exports, restarts>>

\* The job must be known and run, a license be set and the client be there.
\* The object is tried again until then.
CheckJob ==
    /\ rec.pc = "job"
    /\ \/ jetjob = "NotKnown" /\ NoFault /\ rec' = Idle /\ queued' = TRUE
       \/ jetjob = "Suspended" /\ NoFault /\ rec' = To("failed") /\ UNCHANGED queued
       \/ jetjob = "Running" /\ NoFault /\ rec' = To("export") /\ UNCHANGED queued
       \/ jetjob = "Running" /\ Fault /\ rec' = To("failed") /\ UNCHANGED queued
    /\ UNCHANGED <<jjs, cache, jetjob, exporting, task, exports, restarts>>

\* Fault: the goroutine starts whatever the map says.
BeginAlways(o) == ~o.time

\* exportSnapshot: neither exported before nor begun by this process.
Begin(o) == ~o.time /\ ~exporting

ExportSnapshot ==
    /\ rec.pc = "export" /\ (Begin(rec.jjs) => task = "none")
    /\ task' = IF Begin(rec.jjs) THEN "begin" ELSE task
    /\ exporting' = (exporting \/ ~rec.jjs.time)
    /\ rec' = To("annotate")
    /\ UNCHANGED <<kube, jetjob, exports, restarts, events>>

\* updateLastSuccessfulConfiguration; an error is only logged.
UpdateLastSuccessful ==
    /\ rec.pc = "annotate"
    /\ \/ cache = jjs /\ jjs.live /\ NoFault /\ jjs' = [jjs EXCEPT !.ann = jjs.spec]
       \/ (((cache # jjs \/ ~jjs.live) /\ NoFault) \/ Fault) /\ UNCHANGED jjs
    /\ rec' = Idle
    /\ UNCHANGED <<cache, queued, jetjob, exporting, task, exports, restarts>>

ExecuteFinalizer ==
    /\ rec.pc = "final"
    /\ exporting' = FALSE
    /\ \/ Fresh /\ NoFault /\ jjs' = Gone /\ rec' = Idle
       \/ ((~Fresh /\ NoFault) \/ Fault) /\ rec' = To("failed") /\ UNCHANGED jjs
    /\ UNCHANGED <<cache, queued, jetjob, task, exports, restarts>>

----------------------------------------------------------------------------
(* The goroutine.                                                          *)

\* A status that is written with retries, until the object is gone; whether it
\* was written is not looked at.
Write(o) ==
    \/ cache = jjs /\ jjs.live /\ NoFault /\ jjs' = o
    \/ ~cache.live /\ NoFault /\ UNCHANGED jjs
    \/ Fault /\ UNCHANGED jjs

Report(from, o, to) ==
    /\ task = from /\ task' = to
    /\ Write(o)
    /\ UNCHANGED <<cache, queued, jetjob, exporting, exports, rec, restarts>>

\* The members export the snapshot of a job that runs.
Export ==
    /\ task = "export"
    /\ \/ jetjob = "Running" /\ NoFault /\ exports' = exports + 1 /\ task' = "time"
       \/ ((jetjob # "Running" /\ NoFault) \/ Fault) /\ task' = "failed" /\ UNCHANGED exports
    /\ UNCHANGED <<kube, jetjob, exporting, rec, restarts>>

Task ==
    \/ Report("begin", [jjs EXCEPT !.state = "Exporting"], "export")
    \/ Export
    \/ Report("time", [jjs EXCEPT !.time = TRUE], "exported")
    \/ Report("exported", [jjs EXCEPT !.state = "Exported"], "none")
    \/ Report("failed", [jjs EXCEPT !.state = "Failed"], "none")

----------------------------------------------------------------------------
Worker ==
    \/ Reconcile \/ UpdateObject \/ UpdateStatus \/ CheckJob \/ ExportSnapshot
    \/ UpdateLastSuccessful \/ ExecuteFinalizer

Next ==
    \/ Edit \/ Delete \/ SyncCache \/ Restart \/ JetJobChange \/ Worker \/ Task

Spec == Init /\ [][Next]_vars

----------------------------------------------------------------------------
(* Properties.                                                             *)

\* As long as the operator does not restart, a snapshot is exported at most
\* once for each resource, as exportSnapshot says, whether the annotation and
\* the creation time could be saved or not, and with any cache.
ExportedOnce == ~restarts => exports <= 1

\* Once the user stops and the calls no longer fail, a deleted object is gone, the
\* goroutine has ended, and the snapshot of a job that the members know is
\* Exported or Failed, if there was neither an edit nor a restart nor a failed
\* call: the last two may leave it Exporting, for nothing tries it again.
Settled ==
    /\ task = "none"
    /\ jjs.live =>
         /\ ~jjs.deleting
         /\ events = 0 /\ jetjob # "NotKnown" => jjs.state \in {"Exported", "Failed"}

----------------------------------------------------------------------------
(* The inductive invariant.                                                *)

Specs == 0 .. 1
Anns  == Specs \cup {None}

Objects == [live : BOOLEAN, deleting : BOOLEAN, fin : BOOLEAN, owned : BOOLEAN,
            spec : Specs, ann : Anns, state : {"", "Failed", "Exporting", "Exported"},
            time : BOOLEAN]

PCs == {"idle", "final", "finalizer", "owner", "job", "export", "annotate", "failed"}

Tasks == {"none", "begin", "export", "time", "exported", "failed"}

TypeInv ==
    /\ jjs \in Objects /\ cache \in Objects
    /\ rec \in [pc : PCs, jjs : Objects]
    /\ task \in Tasks /\ exports \in Nat

Ended(o) == ~o.live \/ o.deleting

Marked(o) == o.live /\ o.deleting

\* The cache follows the object, and the worker the cache.
EndInv ==
    /\ Marked(cache) => Ended(jjs)
    /\ rec.pc = "final" => Ended(jjs) /\ Ended(cache)

\* The worker is past the end, or has no copy it could export from.
Over ==
    /\ Ended(jjs) /\ Ended(cache)
    /\ rec.pc \in {"idle", "final", "failed"}

CountInv ==
    ~restarts =>
        /\ task \in {"begin", "export"} => exports = 0
        /\ exports <= 1
        /\ exporting \/ Over \/ (exports = 0 /\ task = "none")

Inv == TypeInv /\ EndInv /\ CountInv

============================================================================
