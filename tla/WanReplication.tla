--------------------------- MODULE WanReplication ---------------------------
(***************************************************************************)
(* The WanReplication controller: it starts a WAN publisher in the cluster *)
(* for each Map a WanReplication names, records it in the status, guards   *)
(* the Map with a finalizer until the publisher is stopped, and reports    *)
(* Success once the Hazelcast controller has the publisher in the config   *)
(* Secret.  All Maps belong to one Hazelcast resource.                     *)
(*                                                                         *)
(* One action is the code between two calls that leave the process.  The   *)
(* aggregate Status.Status and the messages are left out: they only decide *)
(* how soon a finished reconciliation is repeated.                         *)
(***************************************************************************)
EXTENDS Naturals, FiniteSets

CONSTANTS
    Wans,          \* the names of the WanReplication resources
    Maps,          \* the names of the Map resources
    Specs,         \* the resource lists users may give
    MaxEdits,      \* how often users may edit a WanReplication
    MaxFaults,     \* how many API or cluster calls may fail
    MaxCrashes,    \* how often the operator may restart
    MapsDeleted,   \* whether users delete Maps
    WansDeleted    \* whether users delete WanReplications

\* The resource of kind Hazelcast: it stands for all its Maps.
Hz == "hazelcast"

ASSUME ConstantsAssumption ==
    /\ Wans # {}
    /\ Specs \subseteq SUBSET (Maps \cup {Hz})
    /\ MaxEdits \in Nat /\ MaxFaults \in Nat /\ MaxCrashes \in Nat
    /\ MapsDeleted \in BOOLEAN /\ WansDeleted \in BOOLEAN

VARIABLES
    wan,           \* the WanReplication objects at the API server
    wanCache,      \* the operator's informer cache of them
    map,           \* the Map objects at the API server
    mapCache,      \* the informer cache of them
    pub,           \* the publishers in the Hazelcast cluster
    secret,        \* the publishers in the configuration Secret
    secretCache,   \* the informer cache of the Secret
    hz,            \* the Hazelcast reconciler: the configuration it will write
    rec,           \* the WanReplication worker
    edits, faults, crashes  \* how often each happened so far

kube  == <<wan, map, secret>>
seen  == <<wanCache, mapCache, secretCache>>
count == <<edits, faults, crashes>>
vars  == <<kube, seen, pub, hz, rec, count>>

----------------------------------------------------------------------------
(* Objects.                                                                *)

\* The status of a Map in WanReplicationMapsStatus, "none" without entry.
\* PublisherId and ResourceName are set together, on Persisting, so that
\* an entry has both or, when it is Failed, neither.
Entries == {"none", "Failed", "Persisting", "Success", "Terminating"}

Published(e) == e \in {"Persisting", "Success", "Terminating"}

WanObjects == [life: {"new", "live", "gone"}, deleting: BOOLEAN, fin: BOOLEAN,
               spec: SUBSET (Maps \cup {Hz}), st: [Maps -> Entries]]

Wan(l, s) == [life |-> l, deleting |-> FALSE, fin |-> FALSE, spec |-> s,
              st |-> [m \in Maps |-> "none"]]

\* own is the finalizer of the Map controller, wanFin WanRepMapFinalizer.
MapObjects == [live: BOOLEAN, deleting: BOOLEAN, own: BOOLEAN, wanFin: BOOLEAN,
               owners: SUBSET Wans, state: {"Pending", "Success", "Terminating"}]

NewMap == [live |-> TRUE, deleting |-> FALSE, own |-> TRUE, wanFin |-> FALSE,
           owners |-> {}, state |-> "Pending"]

NoMap == [live |-> FALSE, deleting |-> FALSE, own |-> FALSE, wanFin |-> FALSE,
          owners |-> {}, state |-> "Pending"]

\* The API server removes a deleted object with its last finalizer.
Settled(m) == IF m.deleting /\ ~m.own /\ ~m.wanFin THEN NoMap ELSE m

\* wan is the worker's copy and base the version it was read or written as;
\* maps are the copies of the Maps it works on, todo those left in a loop,
\* cur and curMap the Map being stopped and its copy, loop where to return.
Idle == [pc |-> "idle", name |-> CHOOSE w \in Wans : TRUE,
         wan |-> Wan("new", {}), base |-> Wan("new", {}),
         maps |-> [m \in Maps |-> NoMap], todo |-> {},
         cur |-> CHOOSE m \in Maps : TRUE, curMap |-> NoMap, loop |-> "idle"]

Loops == {"removed", "terminating", "all"}

PCs == {"idle", "finalizer", "leftover", "stop", "clear", "owner", "mark",
        "unprotect", "drop", "start", "protect"} \cup Loops

Publishers == {"none", "running", "stopped", "cleared"}

\* Idle has a Map only if there is one.
Workers == [pc: PCs, name: Wans, wan: WanObjects, base: WanObjects,
            maps: [Maps -> MapObjects], todo: SUBSET Maps, cur: Maps \cup {Idle.cur},
            curMap: MapObjects, loop: Loops \cup {"idle"}]

TypeOK ==
    /\ wan \in [Wans -> WanObjects] /\ wanCache \in [Wans -> WanObjects]
    /\ map \in [Maps -> MapObjects] /\ mapCache \in [Maps -> MapObjects]
    /\ pub \in [Wans -> [Maps -> Publishers]]
    /\ rec \in Workers

Init ==
    /\ wan = [w \in Wans |-> Wan("new", {})] /\ wanCache = wan
    /\ map = [m \in Maps |-> NewMap] /\ mapCache = map
    /\ pub = [w \in Wans |-> [m \in Maps |-> "none"]]
    /\ secret = {} /\ secretCache = {}
    /\ hz = [busy |-> FALSE, config |-> {}]
    /\ rec = Idle
    /\ edits = 0 /\ faults = 0 /\ crashes = 0

----------------------------------------------------------------------------
(* Users, the informer caches, the garbage collector and the restarts.     *)

Create(w, s) ==
    /\ wan[w].life = "new"
    /\ wan' = [wan EXCEPT ![w] = Wan("live", s)]
    /\ UNCHANGED <<map, secret, seen, pub, hz, rec, count>>

Edit(w, s) ==
    /\ wan[w].life = "live" /\ wan[w].spec # s
    /\ edits < MaxEdits /\ edits' = edits + 1
    /\ wan' = [wan EXCEPT ![w].spec = s]
    /\ UNCHANGED <<map, secret, seen, pub, hz, rec, faults, crashes>>

Delete(w) ==
    /\ WansDeleted
    /\ wan[w].life = "live" /\ ~wan[w].deleting
    /\ wan' = [wan EXCEPT ![w] = IF @.fin THEN [@ EXCEPT !.deleting = TRUE]
                                          ELSE Wan("gone", {})]
    /\ UNCHANGED <<map, secret, seen, pub, hz, rec, count>>

DeleteMap(m) ==
    /\ MapsDeleted
    /\ map[m].live /\ ~map[m].deleting
    /\ map' = [map EXCEPT ![m].deleting = TRUE]
    /\ UNCHANGED <<wan, secret, seen, pub, hz, rec, count>>

\* Kubernetes deletes an object all of whose owners are gone.
GarbageCollect(m) ==
    /\ map[m].live /\ ~map[m].deleting
    /\ map[m].owners # {} /\ \A w \in map[m].owners : wan[w].life = "gone"
    /\ map' = [map EXCEPT ![m].deleting = TRUE]
    /\ UNCHANGED <<wan, secret, seen, pub, hz, rec, count>>

SyncWan(w) ==
    /\ wanCache[w] # wan[w]
    /\ wanCache' = [wanCache EXCEPT ![w] = wan[w]]
    /\ UNCHANGED <<kube, mapCache, secretCache, pub, hz, rec, count>>

SyncMap(m) ==
    /\ mapCache[m] # map[m]
    /\ mapCache' = [mapCache EXCEPT ![m] = map[m]]
    /\ UNCHANGED <<kube, wanCache, secretCache, pub, hz, rec, count>>

SyncSecret ==
    /\ secretCache # secret
    /\ secretCache' = secret
    /\ UNCHANGED <<kube, wanCache, mapCache, pub, hz, rec, count>>

\* The operator restarts: its workers are gone and its caches are read anew.
Restart ==
    /\ crashes < MaxCrashes /\ crashes' = crashes + 1
    /\ wanCache' = wan /\ mapCache' = map /\ secretCache' = secret
    /\ hz' = [busy |-> FALSE, config |-> {}]
    /\ rec' = Idle
    /\ UNCHANGED <<kube, pub, edits, faults>>

Fault == faults < MaxFaults /\ faults' = faults + 1

NoFault == UNCHANGED faults

----------------------------------------------------------------------------
(* The Map controller and the Hazelcast controller, as far as they meet    *)
(* the WanReplication controller.                                          *)

\* The configuration is in the cluster and in the Secret.
MapApplied(m) ==
    /\ map[m].live /\ ~map[m].deleting /\ map[m].state = "Pending"
    /\ map' = [map EXCEPT ![m].state = "Success"]
    /\ UNCHANGED <<wan, secret, seen, pub, hz, rec, count>>

MapTerminating(m) ==
    /\ map[m].deleting /\ map[m].state # "Terminating"
    /\ map' = [map EXCEPT ![m].state = "Terminating"]
    /\ UNCHANGED <<wan, secret, seen, pub, hz, rec, count>>

\* The error of the update to Terminating is ignored.
MapFinalizer(m) ==
    /\ map[m].deleting /\ map[m].own
    /\ IF map[m].state = "Terminating" THEN NoFault ELSE Fault
    /\ map' = [map EXCEPT ![m] = Settled([@ EXCEPT !.own = FALSE])]
    /\ UNCHANGED <<wan, secret, seen, pub, hz, rec, edits, crashes>>

\* Fault: only the entries that wait for it are in the configuration.
PersistedPersisting ==
    {p \in Wans \X Maps : wanCache[p[1]].st[p[2]] = "Persisting"}

\* filterPersistedWanReplications
Persisted ==
    {p \in Wans \X Maps : wanCache[p[1]].st[p[2]] \in {"Persisting", "Success"}}

\* reconcileSecret builds the configuration and then writes the Secret.
BuildConfig ==
    /\ ~hz.busy /\ Persisted # secret
    /\ hz' = [busy |-> TRUE, config |-> Persisted]
    /\ UNCHANGED <<kube, seen, pub, rec, count>>

WriteSecret ==
    /\ hz.busy
    /\ secret' = hz.config
    /\ hz' = [busy |-> FALSE, config |-> {}]
    /\ UNCHANGED <<wan, map, seen, pub, rec, count>>

----------------------------------------------------------------------------
(* Reconcile: the calls and where they lead.                               *)

w0 == rec.name

\* Whether the API server rejects a write of the worker's copy of the
\* WanReplication, or of a copy c of Map m.
WanConflict == rec.base # wan[w0]

MapConflict(m, c) == c # map[m]

\* An error ends the reconciliation.  Where the code reports it with
\* updateWanStatus and the worker's copy has no change that failed to be
\* written before, only Status.Status and the message change.
End == rec' = Idle

\* The status update that writes the copy new and goes on as after says.
WriteWan(new, after) ==
    /\ ~WanConflict /\ NoFault
    /\ wan' = [wan EXCEPT ![w0] = new]
    /\ rec' = IF after = Idle THEN Idle
              ELSE [after EXCEPT !.wan = new, !.base = new]

WanError ==
    /\ (WanConflict /\ NoFault) \/ Fault
    /\ End
    /\ UNCHANGED wan

\* A status update to new fails.  The update that reports the error writes
\* the same copy, so that it makes the change after all, unless it fails too.
ReportedWanError(new) ==
    \/ WanError
    \/ /\ ~WanConflict /\ Fault
       /\ wan' = [wan EXCEPT ![w0] = new]
       /\ End

\* patchWanMapStatuses swallows a conflict and keeps the patched copy.
PatchWan(new, after) ==
    \/ WriteWan(new, after)
    \/ /\ WanConflict /\ NoFault
       /\ rec' = IF after = Idle THEN Idle ELSE [after EXCEPT !.wan = new]
       /\ UNCHANGED wan

\* The Maps the spec names: a resource of kind Map by name, one of kind
\* Hazelcast by what the cache lists.
InSpec == (rec.wan.spec \cap Maps)
          \cup (IF Hz \in rec.wan.spec THEN {m \in Maps : mapCache[m].live} ELSE {})

Entry(m) == rec.wan.st[m]

WithEntry(m, e) == [rec.wan EXCEPT !.st[m] = e]

EntryMaps == {m \in Maps : Entry(m) # "none"}

\* A worker step that changes nothing but the worker.
Internal == UNCHANGED <<kube, seen, pub, hz, count>>

\* Fault: every entry with a publisher may be a leftover.
LeftoversPublished(c) == {m \in Maps : Published(c.st[m])}

\* What deleteLeftoverMapsFromStatus looks at.
Leftovers(c) == {m \in Maps : c.st[m] = "Terminating"}

Reconcile(w) ==
    /\ rec.pc = "idle"
    /\ LET c == wanCache[w]
       IN /\ c.life = "live"
          /\ c.fin \/ ~c.deleting
          /\ rec' = [Idle EXCEPT
                 !.pc = IF c.fin THEN "leftover" ELSE "finalizer",
                 !.name = w, !.wan = c, !.base = c,
                 !.todo = Leftovers(c)]
    /\ Internal

AddFinalizer ==
    /\ rec.pc = "finalizer"
    /\ \/ /\ ~WanConflict /\ NoFault
          /\ wan' = [wan EXCEPT ![w0] = [rec.wan EXCEPT !.fin = TRUE]]
          /\ End
       \/ WanError
    /\ UNCHANGED <<map, secret, seen, pub, hz, edits, crashes>>

\* deleteLeftoverMapsFromStatus deletes the entry: the Map is gone, or has
\* no finalizer of this controller any more.
SafeToForget(m) == ~mapCache[m].live \/ ~mapCache[m].wanFin

\* When the Map is gone the loop ends with the error of the lookup, even
\* though the entry was deleted.
DeleteLeftover(m) ==
    /\ rec.pc = "leftover" /\ m \in rec.todo
    /\ SafeToForget(m)
    /\ \/ WriteWan(WithEntry(m, "none"),
                   IF mapCache[m].live THEN [rec EXCEPT !.todo = @ \ {m}] ELSE Idle)
       \/ ReportedWanError(WithEntry(m, "none"))
    /\ UNCHANGED <<map, secret, seen, pub, hz, edits, crashes>>

\* The loop is done, or left at the first Map that has the finalizer.
LeftoversDone ==
    /\ rec.pc = "leftover"
    /\ rec.todo = {} \/ \E m \in rec.todo : ~SafeToForget(m)

\* getMapsGroupByHazelcastName; then the Maps with an entry that the spec
\* does not name are those of stopWanRepForRemovedResources.
GroupMaps ==
    /\ LeftoversDone /\ ~rec.wan.deleting
    /\ IF \A m \in InSpec : mapCache[m].live
       THEN rec' = [rec EXCEPT
                !.pc = "removed",
                !.maps = [m \in Maps |-> IF m \in InSpec THEN mapCache[m] ELSE NoMap],
                !.todo = EntryMaps \ InSpec]
       ELSE End
    /\ Internal

\* getPublishedMapsFromStatus, for stopWanReplicationAllMaps.
ListPublished ==
    /\ LeftoversDone /\ rec.wan.deleting
    /\ LET published == {m \in Maps : Published(Entry(m))}
       IN IF \A m \in published : mapCache[m].live
          THEN rec' = [rec EXCEPT
                   !.pc = "all",
                   !.maps = [m \in Maps |-> IF m \in published THEN mapCache[m]
                                                               ELSE NoMap],
                   !.todo = EntryMaps]
          ELSE End
    /\ Internal

Copied == {m \in Maps : rec.maps[m].live}

----------------------------------------------------------------------------
(* stopWanReplicationMap.                                                  *)

\* Fault: the Map is released before the publisher is stopped.
StopMapReleased(m, c) ==
    rec' = [rec EXCEPT !.pc = CASE Entry(m) = "none"     -> rec.pc
                                [] c.wanFin              -> "unprotect"
                                [] Published(Entry(m))   -> "stop"
                                [] OTHER                 -> "drop",
                       !.todo = @ \ {m},
                       !.cur = m, !.curMap = c, !.loop = rec.pc]

\* Fault: an entry without a publisher stays.
StopMapPublished(m, c) ==
    rec' = [rec EXCEPT !.pc = IF Published(Entry(m)) THEN "stop" ELSE rec.pc,
                       !.todo = @ \ {m},
                       !.cur = m, !.curMap = c, !.loop = rec.pc]

\* Enter it for Map m with copy c; without a publisher the entry goes.
StopMap(m, c) ==
    rec' = [rec EXCEPT !.pc = CASE Entry(m) = "none"     -> rec.pc
                                [] Published(Entry(m))   -> "stop"
                                [] OTHER                 -> "drop",
                       !.todo = @ \ {m},
                       !.cur = m, !.curMap = c, !.loop = rec.pc]

\* A failed call to the cluster, or no client for it.
ClusterError == Fault /\ End /\ UNCHANGED <<kube, seen, pub, hz, edits, crashes>>

\* getWanMap finds no Map under the empty ResourceName of a Failed entry.
HasResourceName(m) == Published(Entry(m))

StopRemoved(m) ==
    /\ rec.pc = "removed" /\ m \in rec.todo
    /\ \/ /\ IF HasResourceName(m) /\ mapCache[m].live
             THEN StopMap(m, mapCache[m]) ELSE End
          /\ Internal
       \/ ClusterError

\* cleanupTerminatingMapCRs
StopTerminating(m) ==
    /\ rec.pc = "terminating" /\ m \in rec.todo
    /\ \/ StopMap(m, rec.maps[m]) /\ Internal
       \/ ClusterError

StopPublished(m) ==
    /\ rec.pc = "all" /\ m \in rec.todo
    /\ \/ StopMap(m, rec.maps[m]) /\ Internal
       \/ ClusterError

\* ChangeWanState to STOPPED on every member; a stopped publisher takes
\* nothing into its queue.
ChangeWanState ==
    /\ rec.pc = "stop"
    /\ \/ /\ pub' = [pub EXCEPT ![w0][rec.cur] = IF @ = "cleared" THEN @ ELSE "stopped"]
          /\ rec' = [rec EXCEPT !.pc = "clear"]
          /\ UNCHANGED <<kube, seen, hz, count>>
       \/ ClusterError

ClearWanQueue ==
    /\ rec.pc = "clear"
    /\ \/ /\ pub' = [pub EXCEPT ![w0][rec.cur] = "cleared"]
          /\ rec' = [rec EXCEPT !.pc = IF w0 \in rec.curMap.owners THEN "owner"
                                       ELSE "mark"]
          /\ UNCHANGED <<kube, seen, hz, count>>
       \/ ClusterError

\* r.Update of the copy of the Map, which becomes new.
UpdateMap(new, pc) ==
    \/ /\ ~MapConflict(rec.cur, rec.curMap) /\ NoFault
       /\ map' = [map EXCEPT ![rec.cur] = Settled(new)]
       /\ rec' = [rec EXCEPT !.curMap = new, !.pc = pc]
    \/ /\ (MapConflict(rec.cur, rec.curMap) /\ NoFault) \/ Fault
       /\ End
       /\ UNCHANGED map

RemoveOwnerReference ==
    /\ rec.pc = "owner"
    /\ UpdateMap([rec.curMap EXCEPT !.owners = @ \ {w0}], "mark")
    /\ UNCHANGED <<wan, secret, seen, pub, hz, edits, crashes>>

\* updateWanMapStatus to Terminating.
MarkTerminating ==
    /\ rec.pc = "mark"
    /\ \/ WriteWan(WithEntry(rec.cur, "Terminating"),
                   [rec EXCEPT !.pc = IF rec.curMap.wanFin THEN "unprotect"
                                                           ELSE "drop"])
       \/ ReportedWanError(WithEntry(rec.cur, "Terminating"))
    /\ UNCHANGED <<map, secret, seen, pub, hz, edits, crashes>>

RemoveWanRepFinalizer ==
    /\ rec.pc = "unprotect"
    /\ UpdateMap([rec.curMap EXCEPT !.wanFin = FALSE], "drop")
    /\ UNCHANGED <<wan, secret, seen, pub, hz, edits, crashes>>

DeleteWanMapStatus ==
    /\ rec.pc = "drop"
    /\ \/ WriteWan(WithEntry(rec.cur, "none"),
                   [rec EXCEPT !.pc = rec.loop, !.loop = "idle",
                               !.cur = Idle.cur, !.curMap = NoMap])
       \/ ReportedWanError(WithEntry(rec.cur, "none"))
    /\ UNCHANGED <<map, secret, seen, pub, hz, edits, crashes>>

----------------------------------------------------------------------------
(* The stages after the removed resources, and the end of a deletion.      *)

CleanupTerminating ==
    /\ rec.pc = "removed" /\ rec.todo = {}
    /\ rec' = [rec EXCEPT !.pc = "terminating",
                   !.todo = {m \in Copied : rec.maps[m].state = "Terminating"}]
    /\ Internal

\* checkConnectivity and the head of startWanReplication.
CheckConnectivity ==
    /\ rec.pc = "terminating" /\ rec.todo = {}
    /\ \/ /\ rec' = [rec EXCEPT !.pc = "start",
                         !.todo = {m \in Copied : /\ ~Published(Entry(m))
                                                  /\ rec.maps[m].state = "Success"}]
          /\ Internal
       \/ ClusterError

\* applyWanReplication; the entry is patched into the copy at the end of
\* the loop, which never reads it in between.
ApplyWanReplication(m) ==
    /\ rec.pc = "start" /\ m \in rec.todo
    /\ \/ /\ NoFault
          /\ pub' = [pub EXCEPT ![w0][m] = "running"]
          /\ rec' = [rec EXCEPT !.todo = @ \ {m}, !.wan.st[m] = "Persisting"]
       \/ /\ Fault
          /\ rec' = [rec EXCEPT !.todo = @ \ {m}, !.wan.st[m] = "Failed"]
          /\ UNCHANGED pub
    /\ UNCHANGED <<kube, seen, hz, edits, crashes>>

PatchStarted ==
    /\ rec.pc = "start" /\ rec.todo = {}
    /\ \/ PatchWan(rec.wan, [rec EXCEPT !.pc = "protect",
                                 !.todo = {m \in Maps : Published(Entry(m))}])
       \/ Fault /\ End /\ UNCHANGED wan
    /\ UNCHANGED <<map, secret, seen, pub, hz, edits, crashes>>

\* addWanRepFinalizerToMap: a Map that has the finalizer is not written,
\* not even its new owner reference.  The API server takes no new finalizer
\* on a deleted object.
AddWanRepFinalizer(m) ==
    /\ rec.pc = "protect" /\ m \in rec.todo
    /\ LET c     == rec.maps[m]
           fails == MapConflict(m, c) \/ c.deleting
           next  == [rec EXCEPT !.todo = @ \ {m}]
       IN \/ /\ m \notin Copied /\ NoFault
             /\ End /\ UNCHANGED map
          \/ /\ m \in Copied /\ c.wanFin /\ NoFault
             /\ rec' = next /\ UNCHANGED map
          \/ /\ m \in Copied /\ ~c.wanFin /\ ~fails /\ NoFault
             /\ map' = [map EXCEPT ![m] = [c EXCEPT !.wanFin = TRUE,
                                                    !.owners = @ \cup {w0}]]
             /\ rec' = next
          \/ /\ m \in Copied /\ ~c.wanFin
             /\ (fails /\ NoFault) \/ Fault
             /\ End /\ UNCHANGED map
    /\ UNCHANGED <<wan, secret, seen, pub, hz, edits, crashes>>

\* The publisher of Map m is in the Secret, as the cache has it.
InSecret(m) == <<w0, m>> \in secretCache

\* The annotation that a fully persisted configuration adds is not modelled.
ValidateWanConfigPersistence ==
    /\ rec.pc = "protect" /\ rec.todo = {}
    /\ LET new == [rec.wan EXCEPT !.st =
                      [m \in Maps |-> IF @[m] = "Persisting" /\ InSecret(m)
                                      THEN "Success" ELSE @[m]]]
       IN PatchWan(new, Idle) \/ (Fault /\ ReportedWanError(new))
    /\ UNCHANGED <<map, secret, seen, pub, hz, edits, crashes>>

\* "Not all maps are finalized", or the object goes.
RemoveFinalizer ==
    /\ rec.pc = "all" /\ rec.todo = {}
    /\ \/ /\ EntryMaps = {} /\ ~WanConflict /\ NoFault
          /\ wan' = [wan EXCEPT ![w0] = Wan("gone", {})]
          /\ End
       \/ /\ EntryMaps # {} \/ WanConflict
          /\ NoFault /\ End /\ UNCHANGED wan
       \/ Fault /\ End /\ UNCHANGED wan
    /\ UNCHANGED <<map, secret, seen, pub, hz, edits, crashes>>

----------------------------------------------------------------------------

Worker ==
    \/ AddFinalizer \/ GroupMaps \/ ListPublished
    \/ \E m \in Maps : DeleteLeftover(m) \/ StopRemoved(m) \/ StopTerminating(m)
                       \/ StopPublished(m) \/ ApplyWanReplication(m)
                       \/ AddWanRepFinalizer(m)
    \/ ChangeWanState \/ ClearWanQueue \/ RemoveOwnerReference
    \/ MarkTerminating \/ RemoveWanRepFinalizer \/ DeleteWanMapStatus
    \/ CleanupTerminating \/ CheckConnectivity \/ PatchStarted
    \/ ValidateWanConfigPersistence \/ RemoveFinalizer

Next ==
    \/ \E w \in Wans : \/ \E s \in Specs : Create(w, s) \/ Edit(w, s)
                       \/ Delete(w) \/ SyncWan(w) \/ Reconcile(w)
    \/ \E m \in Maps : \/ DeleteMap(m) \/ GarbageCollect(m) \/ SyncMap(m)
                       \/ MapApplied(m) \/ MapTerminating(m) \/ MapFinalizer(m)
    \/ SyncSecret \/ Restart \/ BuildConfig \/ WriteSecret
    \/ Worker

Spec == Init /\ [][Next]_vars

\* The work queue hands out every WanReplication again and again (retries
\* with back-off, and the resync), so that no other one can keep a
\* reconciliation from starting; the caches and the controllers go on.
FairSpec ==
    /\ Spec
    /\ WF_vars(Worker)
    /\ \A w \in Wans : SF_vars(Reconcile(w)) /\ WF_vars(SyncWan(w))
    /\ \A m \in Maps : /\ WF_vars(SyncMap(m)) /\ WF_vars(MapApplied(m))
                       /\ WF_vars(MapTerminating(m)) /\ WF_vars(MapFinalizer(m))
    /\ WF_vars(SyncSecret) /\ WF_vars(BuildConfig) /\ WF_vars(WriteSecret)

----------------------------------------------------------------------------
(* Properties.                                                             *)

\* The status never loses a publisher that may still replicate: an entry
\* with a PublisherId goes only after the publisher was stopped and its
\* queue cleared (stopWanReplicationMap, deleteLeftoverMapsFromStatus).
NeverForgotten ==
    [][\A w \in Wans, m \in Maps :
          Published(wan[w].st[m]) /\ ~Published(wan'[w].st[m])
              => pub[w][m] = "cleared"]_vars

\* A Map gets rid of WanRepMapFinalizer, and with it may disappear, only
\* when no publisher replicates it any more (stopWanReplicationMap).
StoppedBeforeReleased ==
    [][\A m \in Maps : map[m].wanFin /\ ~map'[m].wanFin
          => \A w \in Wans : pub[w][m] # "running"]_vars

\* A publisher reported as Success is in the configuration Secret in the
\* end, so that it survives a restart of the members, or is not reported
\* any more (validateWanConfigPersistence against reconcileSecret).
SuccessIsPersistedInTheEnd ==
    \A w \in Wans, m \in Maps :
        wan[w].st[m] = "Success"
            ~> (<<w, m>> \in secret \/ wan[w].st[m] # "Success")

\* A deleted WanReplication whose Maps exist goes away
\* (stopWanReplicationAllMaps).
DeletionCompletes ==
    \A w \in Wans : wan[w].deleting ~> wan[w].life = "gone"

\* Violated.  "Finalizer removal from map and status deletion of map from
\* WanReplication must be atomic": once a WanReplication is gone no Map has
\* a finalizer that only that WanReplication would remove.
NoFinalizerLeft ==
    \A w \in Wans, m \in Maps :
        wan[w].life = "gone" => w \notin map[m].owners

----------------------------------------------------------------------------
(* The inductive invariant.                                                *)

\* An entry says Terminating only after the publisher was stopped and its queue
\* cleared, and the cache still has, or has again, an entry with a publisher.
\* Without the finalizer there is none, and a new object has no finalizer.
StatusInv(w) ==
    /\ \A m \in Maps : wan[w].st[m] = "Terminating" =>
           pub[w][m] = "cleared" /\ Published(wanCache[w].st[m])
    /\ ~wan[w].fin => \A m \in Maps : ~Published(wan[w].st[m])
    /\ wan[w].life = "new" => ~wan[w].fin

\* The worker's copy against the version it was read or written as: it takes no
\* publisher away and marks none, and a publisher that it does not have is not
\* being stopped.
CopyInv ==
    \A m \in Maps :
        /\ ~Published(Entry(m)) =>
               ~Published(rec.base.st[m]) /\ wan[w0].st[m] # "Terminating"
        /\ Entry(m) = "Terminating" => rec.base.st[m] = "Terminating"

\* Before the start of new publishers the copy is that version, and the cache
\* has its publishers, unless every write will be refused.
ReadInv ==
    rec.pc \notin {"start", "protect"} =>
        /\ rec.wan.st = rec.base.st
        /\ \A m \in Maps : Published(Entry(m)) =>
               Published(wanCache[w0].st[m]) \/ wan[w0].st # rec.base.st

Stopping == {"stop", "clear", "owner", "mark", "unprotect", "drop"}

\* How far stopWanReplicationMap is with the publisher of the Map it stops.
StopInv ==
    /\ rec.pc \in Stopping => rec.cur \in Maps /\ rec.loop \in Loops
    /\ rec.pc \in {"stop", "clear", "owner", "mark"} => Published(Entry(rec.cur))
    /\ rec.pc \in {"owner", "mark", "unprotect"} => pub[w0][rec.cur] = "cleared"
    /\ rec.pc \in {"unprotect", "drop"} =>
           ~Published(Entry(rec.cur)) \/ Entry(rec.cur) = "Terminating"

\* What is left to do in the loops that only look at some of the entries.
TodoInv ==
    /\ rec.pc = "leftover" => \A m \in rec.todo : Entry(m) = "Terminating"
    /\ rec.pc = "start" => \A m \in rec.todo : ~Published(Entry(m))

WorkerInv ==
    rec.pc # "idle" =>
        /\ rec.wan.life = "live" /\ (rec.pc # "finalizer" => rec.wan.fin)
        /\ CopyInv /\ ReadInv /\ StopInv /\ TodoInv

Inv == TypeOK /\ WorkerInv /\ \A w \in Wans : StatusInv(w)

============================================================================
