------------------------------- MODULE WanSync -------------------------------
(***************************************************************************)
(* The WanSync controller and the service that runs its requests: each     *)
(* start is a goroutine that waits for the mutex and then works off all    *)
(* the requests it finds, one map after another, polling every member      *)
(* until the synchronization of the map is over there.                     *)
(***************************************************************************)
EXTENDS Naturals, FiniteSets

CONSTANTS
    Syncs,         \* the WanSync objects
    Maps,          \* the maps
    MapsOf,        \* the maps of the WanReplication that each object names
    Members,       \* the members of the source cluster
    Ready,         \* the sets of maps whose own status may be Success
    MaxEvents,     \* how many edits, failed calls and restarts, together, with
                   \* each of those
    MaxWaiting     \* how many goroutines of an object wait for the mutex

VARIABLES
    ws,            \* the objects at the API server
    cache,         \* the informer cache of them
    queue,         \* the work queue
    wr,            \* the status of the WanReplication of each object
    ready,         \* the maps whose own status is Success
    requests,      \* wanSyncs: the requests of each object
    waiting,       \* how many goroutines of each object wait for the mutex
    job,           \* the goroutine that has it
    synced,        \* where each map has been synchronized
    rec,           \* the worker: its step, object and copy of it
    events         \* how many edits, failed calls and restarts so far

kube == <<ws, cache, queue>>
srv  == <<requests, waiting, job, synced>>
vars == <<kube, wr, ready, srv, rec, events>>

New == [live |-> TRUE, deleting |-> FALSE, fin |-> FALSE, name |-> 0,
        applied |-> FALSE, last |-> 9, status |-> "", maps |-> [m \in Maps |-> "none"]]

Gone == [New EXCEPT !.live = FALSE]

Idle == [pc |-> "idle", ws |-> Gone, of |-> CHOOSE s \in Syncs : TRUE]

NoJob == [pc |-> "none", who |-> Idle.of, must |-> {}, key |-> Idle.of, todo |-> {},
          map |-> CHOOSE m \in Maps : TRUE, answer |-> [x \in Members |-> "wait"]]

Init ==
    /\ ws = [s \in Syncs |-> New] /\ cache = [s \in Syncs |-> Gone] /\ queue = {}
    /\ wr = [s \in Syncs |-> "Pending"] /\ ready \in Ready
    /\ requests = [s \in Syncs |-> {}] /\ waiting = [s \in Syncs |-> 0] /\ job = NoJob
    /\ synced = [m \in Maps |-> {}]
    /\ rec = Idle /\ events = 0

Fault   == events < MaxEvents[ready] /\ events' = events + 1
NoFault == UNCHANGED events

----------------------------------------------------------------------------
(* The user, the caches, the WanReplication and the restarts.              *)

\* name stands for the WanReplication that the spec names.
Rename(s) ==
    /\ ws[s].live /\ ws[s].name = 0 /\ Fault
    /\ ws' = [ws EXCEPT ![s].name = 1]
    /\ UNCHANGED <<cache, queue, wr, ready, srv, rec>>

Delete(s) ==
    /\ ws[s].live /\ ~ws[s].deleting
    /\ ws' = [ws EXCEPT ![s] = IF @.fin THEN [@ EXCEPT !.deleting = TRUE] ELSE Gone]
    /\ UNCHANGED <<cache, queue, wr, ready, srv, rec, events>>

SyncCache(s) ==
    /\ cache[s] # ws[s]
    /\ cache' = [cache EXCEPT ![s] = ws[s]] /\ queue' = queue \cup {s}
    /\ UNCHANGED <<ws, wr, ready, srv, rec, events>>

Restart ==
    /\ Fault
    /\ cache' = ws /\ queue' = Syncs
    /\ requests' = [s \in Syncs |-> {}] /\ waiting' = [s \in Syncs |-> 0] /\ job' = NoJob
    /\ rec' = Idle
    /\ UNCHANGED <<ws, wr, ready, synced>>

WanReplicationSucceeds(s) ==
    /\ wr[s] = "Pending" /\ wr' = [wr EXCEPT ![s] = "Success"]
    /\ UNCHANGED <<kube, ready, srv, rec, events>>

----------------------------------------------------------------------------
(* Writes.  Update and Status().Update carry the version that was read.    *)

Write(s, o) == ws' = [ws EXCEPT ![s] = o]

Fresh == rec.ws = ws[rec.of]

Done == rec' = Idle /\ UNCHANGED queue
Again == rec' = Idle /\ queue' = queue \cup {rec.of}

To(pc) == [rec EXCEPT !.pc = pc]

----------------------------------------------------------------------------
(* The worker.                                                             *)

\* validateNonUpdatableWanSyncFields.
Renamed(o) == o.last # 9 /\ o.name # o.last

Route(s, o) ==
    CASE o.deleting -> "remove"
      [] ~o.deleting /\ ~o.fin -> "finalizer"
      [] ~o.deleting /\ o.fin /\ Renamed(o) -> "failed"
      [] ~o.deleting /\ o.fin /\ ~Renamed(o) /\ wr[s] # "Success" -> "pending"
      [] ~o.deleting /\ o.fin /\ ~Renamed(o) /\ wr[s] = "Success" ->
            IF o.applied THEN "run" ELSE "apply"

Reconcile(s) ==
    /\ rec.pc = "idle" /\ s \in queue
    /\ queue' = queue \ {s}
    /\ \/ /\ NoFault
          /\ rec' = IF cache[s].live
                    THEN [pc |-> Route(s, cache[s]), ws |-> cache[s], of |-> s] ELSE Idle
       \/ /\ Fault /\ cache[s].live /\ Route(s, cache[s]) \in {"pending", "run", "apply"}
          /\ rec' = [pc |-> "failed", ws |-> cache[s], of |-> s]
    /\ UNCHANGED <<ws, cache, wr, ready, srv>>

AddFinalizer ==
    /\ rec.pc = "finalizer"
    /\ \/ Fresh /\ NoFault /\ Write(rec.of, [rec.ws EXCEPT !.fin = TRUE]) /\ Done
       \/ ((~Fresh /\ NoFault) \/ Fault) /\ UNCHANGED ws /\ Again
    /\ UNCHANGED <<cache, wr, ready, srv>>

RemoveFinalizer ==
    /\ rec.pc = "remove"
    /\ \/ Fresh /\ NoFault /\ Write(rec.of, Gone) /\ Done
       \/ ((~Fresh /\ NoFault) \/ Fault) /\ UNCHANGED <<ws, queue>> /\ rec' = To("failed")
    /\ UNCHANGED <<cache, wr, ready, srv>>

\* updateWanSyncStatus: Pending queues the object again; Failed does not, and
\* a write that fails does.
UpdateWanSyncStatus ==
    /\ rec.pc \in {"failed", "pending", "notstarted"}
    /\ LET o == [rec.ws EXCEPT
                   !.status = CASE rec.pc = "failed" -> "Failed"
                                [] rec.pc = "pending" -> "Pending"
                                [] rec.pc = "notstarted" -> "NotStarted",
                   !.maps = IF rec.pc = "notstarted"
                            THEN [m \in Maps |-> IF m \in MapsOf[rec.of] THEN "NotStarted" ELSE @[m]]
                            ELSE @]
       IN \/ Fresh /\ NoFault /\ Write(rec.of, o) /\ (IF rec.pc = "pending" THEN Again ELSE Done)
          \/ ((~Fresh /\ NoFault) \/ Fault) /\ UNCHANGED ws /\ Again
    /\ UNCHANGED <<cache, wr, ready, srv>>

\* The spec is marked as applied before the first requests are made.
Apply ==
    /\ rec.pc = "apply"
    /\ \/ /\ Fresh /\ NoFault
          /\ Write(rec.of, [rec.ws EXCEPT !.applied = TRUE])
          /\ rec' = [rec EXCEPT !.pc = "notstarted", !.ws = ws'[rec.of]]
       \/ ((~Fresh /\ NoFault) \/ Fault) /\ UNCHANGED ws /\ rec' = To("failed")
    /\ UNCHANGED <<cache, queue, wr, ready, srv>>

\* The maps that runWanSyncJobs asks for, by the copy of the object.
ToSync(s, o) == {m \in MapsOf[s] \cap ready : o.maps[m] \in {"none", "NotStarted"}}

\* AddWanSyncRequests keeps the requests that are there; StartSyncJob starts a
\* goroutine.
RunWanSyncJobs ==
    LET s == rec.of
        new == ToSync(s, rec.ws)
    IN /\ rec.pc = "run" /\ (new # {} => waiting[s] < MaxWaiting)
       /\ requests' = [requests EXCEPT ![s] = IF @ = {} THEN new ELSE @]
       /\ waiting' = [waiting EXCEPT ![s] = IF new = {} THEN @ ELSE @ + 1]
       /\ rec' = To("last")
       /\ UNCHANGED <<kube, wr, ready, job, synced, events>>

UpdateLastSuccessful ==
    /\ rec.pc = "last"
    /\ \/ Fresh /\ NoFault /\ Write(rec.of, [rec.ws EXCEPT !.last = rec.ws.name]) /\ Done
       \/ ((~Fresh /\ NoFault) \/ Fault) /\ UNCHANGED <<ws, queue>> /\ rec' = To("failed")
    /\ UNCHANGED <<cache, wr, ready, srv>>

----------------------------------------------------------------------------
(* The service.                                                            *)

\* The mutex is free: the goroutine of s takes it, and ranges over the
\* requests that are there.
Lock(s) ==
    /\ job.pc = "none" /\ waiting[s] > 0
    /\ waiting' = [waiting EXCEPT ![s] = @ - 1]
    /\ job' = [NoJob EXCEPT !.pc = "range", !.who = s, !.must = {k \in Syncs : requests[k] # {}}]
    /\ UNCHANGED <<kube, wr, ready, requests, synced, rec, events>>

RangeOver(k) ==
    /\ job.pc = "range" /\ requests[k] # {}
    /\ job' = [job EXCEPT !.pc = "start", !.key = k, !.todo = requests[k], !.must = @ \ {k}]
    /\ UNCHANGED <<kube, wr, ready, requests, waiting, synced, rec, events>>

Unlock ==
    /\ job.pc = "range" /\ job.must = {}
    /\ job' = NoJob
    /\ UNCHANGED <<kube, wr, ready, requests, waiting, synced, rec, events>>

\* The overall status after the one of a map, in updateWanSyncMapStatus.
Overall(maps, p) ==
    IF p # "Completed" THEN {p}
    ELSE LET others == {maps[m] : m \in Maps} \ {"none", "Completed"}
         IN IF others = {} THEN {"Completed"} ELSE others

\* stateEventUpdate writes the status of a map into the object whose goroutine
\* this is, with retries.  It gives up when the object is gone, or at a fault.
Report(m, p) ==
    LET s == job.who
    IN \/ /\ cache[s] = ws[s] /\ ws[s].live /\ NoFault
          /\ LET maps == [ws[s].maps EXCEPT ![m] = p]
             IN \E st \in Overall(maps, p) : Write(s, [ws[s] EXCEPT !.maps = maps, !.status = st])
       \/ ~cache[s].live /\ NoFault /\ UNCHANGED ws
       \/ Fault /\ UNCHANGED ws

\* The maps of the requests, one after another: each is reported as pending,
\* then the request is sent.
Start(m) ==
    /\ job.pc = "start" /\ m \in job.todo
    /\ Report(m, "Pending")
    /\ job' = [job EXCEPT !.pc = "send", !.map = m, !.todo = @ \ {m}]
    /\ UNCHANGED <<cache, queue, wr, ready, requests, waiting, synced, rec>>

\* wanSyncMap; without a client or an answer the map has failed.
Send ==
    /\ job.pc = "send"
    /\ \/ NoFault /\ job' = [job EXCEPT !.pc = "poll", !.answer = NoJob.answer]
       \/ Fault /\ job' = [job EXCEPT !.pc = "report", !.answer = [x \in Members |-> "ignored"]]
    /\ UNCHANGED <<kube, wr, ready, requests, waiting, synced, rec>>

\* waitMemberFinishEvent: the member has finished, or has ignored the request;
\* too many errors or polls without an event count as ignored.
WaitMember(x) ==
    /\ job.pc = "poll" /\ job.answer[x] = "wait"
    /\ \/ /\ NoFault
          /\ job' = [job EXCEPT !.answer[x] = "finished"]
          /\ synced' = [synced EXCEPT ![job.map] = @ \cup {x}]
       \/ Fault /\ job' = [job EXCEPT !.answer[x] = "ignored"] /\ UNCHANGED synced
    /\ UNCHANGED <<kube, wr, ready, requests, waiting, rec>>

\* Fault: what one member finished counts for all.
FinishAny(answer) == IF \E x \in Members : answer[x] = "finished" THEN "Completed" ELSE "Failed"

\* waitWanSyncToFinish: an error of one member is one of the map.
FinishEvent(answer) == IF \E x \in Members : answer[x] = "ignored" THEN "Failed" ELSE "Completed"

Finish ==
    /\ job.pc \in {"poll", "report"} /\ \A x \in Members : job.answer[x] # "wait"
    /\ Report(job.map, FinishEvent(job.answer))
    /\ job' = [job EXCEPT !.pc = IF job.todo = {} THEN "delete" ELSE "start"]
    /\ UNCHANGED <<cache, queue, wr, ready, requests, waiting, synced, rec>>

\* The requests are dropped once they are all done.
DropRequests ==
    /\ job.pc = "delete"
    /\ requests' = [requests EXCEPT ![job.key] = {}]
    /\ job' = [job EXCEPT !.pc = "range", !.key = NoJob.key, !.map = NoJob.map, !.answer = NoJob.answer]
    /\ UNCHANGED <<kube, wr, ready, waiting, synced, rec, events>>

----------------------------------------------------------------------------
Worker ==
    \/ \E s \in Syncs : Reconcile(s)
    \/ AddFinalizer \/ RemoveFinalizer \/ UpdateWanSyncStatus \/ Apply
    \/ RunWanSyncJobs \/ UpdateLastSuccessful

Service ==
    \/ \E s \in Syncs : Lock(s) \/ RangeOver(s)
    \/ \E m \in Maps : Start(m)
    \/ \E x \in Members : WaitMember(x)
    \/ Send \/ Finish \/ DropRequests \/ Unlock

World == \E s \in Syncs : SyncCache(s) \/ WanReplicationSucceeds(s)

Next ==
    \/ \E s \in Syncs : Rename(s) \/ Delete(s)
    \/ Restart \/ World \/ Worker \/ Service

Spec == Init /\ [][Next]_vars

----------------------------------------------------------------------------
(* Properties.                                                             *)

\* A map is reported as completed only when every member has synchronized it
\* (waitWanSyncToFinish), and an object only when all of its maps that have a
\* status are (updateWanSyncMapStatus).
CompletedIsSynced ==
    \A s \in Syncs :
       /\ \A m \in Maps : ws[s].maps[m] = "Completed" => synced[m] = Members
       /\ ws[s].status = "Completed" => \A m \in Maps : ws[s].maps[m] \in {"none", "Completed"}

\* Once the user stops and the calls no longer fail, no goroutine waits or holds
\* the mutex and no request is left.  A deleted object is gone, and the maps of the
\* others that were ready have all been asked for, unless the object is Failed:
\* Failed is not queued again, and one that is written twice, with one message, is
\* no event.  Without restarts, edits and failed calls the maps are synchronized
\* and said to be so; after one a map may stay Failed, or Pending, for nothing asks
\* for it again (updateWanSyncStatus, runWanSyncJobs, StartSyncJob).
Settled ==
    /\ job = NoJob
    /\ \A s \in Syncs :
         /\ waiting[s] = 0 /\ requests[s] = {}
         /\ \/ ~ws[s].live
            \/ events # 0 /\ ws[s].status = "Failed"
            \/ /\ ~ws[s].deleting
               /\ \A m \in MapsOf[s] \cap ready :
                    IF events = 0 THEN ws[s].maps[m] = "Completed"
                    ELSE ws[s].maps[m] \notin {"none", "NotStarted"}

----------------------------------------------------------------------------
(* The inductive invariant.                                                *)

MapStates == {"none", "NotStarted", "Pending", "Failed", "Completed"}
Statuses  == {""} \cup MapStates

Names == {0, 1, 9}

Objects == [live : BOOLEAN, deleting : BOOLEAN, fin : BOOLEAN, name : Names, applied : BOOLEAN,
            last : Names, status : Statuses, maps : [Maps -> MapStates]]

PCs == {"idle", "remove", "finalizer", "failed", "pending", "run", "apply", "notstarted", "last"}

Workers == [pc : PCs, ws : Objects, of : Syncs]

JobPCs == {"none", "range", "start", "send", "poll", "report", "delete"}

Answers == [Members -> {"wait", "finished", "ignored"}]

Jobs == [pc : JobPCs, who : Syncs, must : SUBSET Syncs, key : Syncs, todo : SUBSET Maps,
         map : Maps, answer : Answers]

TypeInv ==
    /\ ws \in [Syncs -> Objects] /\ cache \in [Syncs -> Objects]
    /\ requests \in [Syncs -> SUBSET Maps]
    /\ synced \in [Maps -> SUBSET Members]
    /\ job \in Jobs /\ rec \in Workers

\* What the goroutine has been told is so.
PollInv ==
    /\ job.pc = "poll" => \A x \in Members : job.answer[x] = "finished" => x \in synced[job.map]
    /\ job.pc = "report" => \A x \in Members : job.answer[x] = "ignored"

\* An object that says no more than what happened.
Truthful(o, done) ==
    /\ \A m \in Maps : o.maps[m] = "Completed" => done[m] = Members
    /\ o.status = "Completed" => \A m \in Maps : o.maps[m] \in {"none", "Completed"}

TruthInv == \A s \in Syncs : Truthful(ws[s], synced)

Inv == TypeInv /\ PollInv /\ TruthInv

Told(o, st, maps) == [o EXCEPT !.status = st, !.maps = maps]

============================================================================
