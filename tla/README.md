# Verification of the Hazelcast Platform Operator

TLA+ models of the operator's controllers, checked with TLC on small instances
and, where it matters most, proved with TLAPS for every value of the constants.

## The system

The operator runs one controller per custom resource. Each has one worker that
takes a name from a work queue and calls `Reconcile`: read the object from the
informer cache, compare it with the world, and make API calls and calls to the
Hazelcast cluster until they agree. What makes this hard is the same
everywhere: the cache lags behind the API server, writes of an old version are
rejected (and most status updates swallow that conflict), any call may fail, the
operator may restart between any two calls and then forgets what it kept in
memory, users edit and delete objects at any time, and several controllers and
goroutines work on the same objects.

| Part | Code (`internal/...`) | Module |
|---|---|---|
| HotBackup reconciler and its goroutines | `controller/hazelcast/hot_backup_*.go` | `HotBackup` |
| one run of a backup: members, agents, uploads | `startBackup`, `backup/`, `upload/`, `local_backup/` | `BackupTransfer` |
| cluster state switches of a backup | `hazelcast-client/cluster_state_service.go` | `HotBackup` |
| CronHotBackup reconciler | `cronhotbackup_controller.go` | `CronHotBackup` |
| WanReplication reconciler | `wanreplication_*.go`, `wan_resources.go`, `wan_service.go` | `WanReplication` |
| WanSync reconciler and its service | `wansync_*.go`, `wan_sync_service.go` | `WanSync` |
| Queue, Topic, Cache, MultiMap, ReplicatedMap reconcilers | `data_structure_*.go` and five controllers | `DataStructure` |
| Map reconciler | `map_*.go` | `Map`; its WAN finalizer in `WanReplication` |
| what both promise | | `AppliedConfig` |
| config Secret written by the Hazelcast reconciler | `reconcileSecret`, `filterPersisted*` | in the four above |
| JetJob reconciler and status checker | `jetjob_*.go` | `JetJob` |
| JetJobSnapshot reconciler | `jetjobsnapshot_*.go` | `JetJobSnapshot` |
| UserCodeNamespace reconciler | `usercodenamespace_*.go` | `UserCodeNamespace` |
| ManagementCenter reconciler | `controller/managementcenter/` | `ManagementCenter` |
| Hazelcast reconciler: its calls and failures | `hazelcast_controller.go`, `hazelcast_resources.go`, `hazelcast_status.go` | `Hazelcast` |
| Hazelcast reconciler: from a spec to pods | `hazelcast_resources.go`, `hazelcast_validation.go` | `ClusterPods` |
| client protocol | `protocol/codec/` | `Frames`, `ConfigCodecs`, `MessageCodecs`, `Protocol` |
| client and status service registries | `hazelcast-client/` | one client and status service in `Hazelcast` |

`PROJECT.json` has the full inventory, the lines each definition stands for,
and the hazards.

## Conventions of the models

* One action is the code between two calls that leave the process. Reads of
  the cache belong to the step they precede.
* `api`, `wan`, `ds`, `hz`, `job`, ... are the objects at the API server, `...Cache` or
  `cache` the informer's copy. A sync jumps to the latest version. The worker
  `rec` holds its program counter, its copy and the version (`base`) it read.
* A write conflicts when `base` differs from the stored object. Equality of
  contents stands for equality of `resourceVersion`; this allows a few writes
  that a real server rejects, never the other way round.
* A failing call (`Fault`) is an error with no effect, except where the code
  makes the difference visible (`ChangeClusterState`, starting an upload).
* Deleted objects stay until their last finalizer is removed.
* Faults, crashes, edits and re-creations are bounded by constants; messages
  and aggregate statuses are left out.
* Controllers that share no state are checked in one run: a variable that never
  changes (`which`, `sends`) says whose behaviour it is, and the
  properties speak of each in its own behaviours. Where the fairness conditions
  of several are merged into one, the merged one is the weaker, and in the
  behaviours of each it is its own. `ControllerState` has the variables that the
  controllers of `MCControllers` share, and `CodeControllers` and `JobControllers`
  put two controllers each into it, with their properties and proofs.
* An operator whose comment begins with `Fault:` is a deliberately wrong
  variant of the definition below it; it is used to show that a property
  notices that mistake, and is not part of the specification.

## HotBackup

Variables: the objects and the cache, the worker, `cancelMap` and `backup` (the
lock) of the reconciler, the goroutine of every object (`task`, one program
counter per uid), the cluster state, the Hazelcast phase and the registration of
its status service. `launches` and `backedUp` are history. Actions follow
`Reconcile` (`Reconcile`, `AddFinalizer`, `ExecuteFinalizer`, the Hazelcast
check, `SaveSpec`, `Launch`) and `startBackup` (`TaskInProgress`, ...,
`TaskFinish`), plus users, cache and `Restart`.

* `hot_backup_recreate` (one name, created twice, one failing call): the
  goroutine of a deleted object never works on, and never writes the status of,
  its successor (`WorksForExistingObject`, `SuccessIsBackedUp`), and the backup
  is triggered in a PASSIVE cluster (`PassiveWhenTriggered`); `Inv` is the
  inductive invariant of the proofs.
* `hot_backup_once` (one edit, one restart): a backup runs once at most, its
  outcome is final, the cluster stays PASSIVE only after a cancellation, a
  failure or a restart, and a deleted backup goes away. A second object would
  only interleave: objects of different names share nothing but the cluster
  state.

The model also has these behaviours of the code, which no property excludes:
after a restart a backup in `NotStarted` or `InProgress` has no goroutine and
never gets one; the applied spec is saved before `NotStarted`, and if that update
fails the backup is never started; two backups of one cluster switch its state
under each other, which is why `PassiveWhenTriggered` (the cluster is PASSIVE
when its backup is triggered) is stated for a single name.

Fairness: the worker, the cache and each goroutine go on (weak); a name that is
queued again and again is taken (strong), which retries with back-off justify.

### Proofs (`HotBackup_proofs`)

Proved for all sets of names and all bounds, from `ConstantsAssumption` only:

* `TypeCorrect`: `TypeOK` is invariant.
* `Invariance`: `Inv` is invariant.
* `BackupOnce`: no object is launched twice.
* `NoOrphan`: a goroutine that is not cancelled belongs to the existing object.
* `BackedUp`: Success is reported only for a backup that every member finished, of the
  object itself and not of an earlier one with its name.
* `OutcomeFinal`: the outcome of a backup that was started stays, unless it is deleted.
* `Explanation`: the cluster is PASSIVE outside of `Start` only after a cancellation, a
  failed call or a restart.
* `Triggered`: with one name, whose goroutines follow each other, the cluster is PASSIVE
  when a backup is triggered.

`AtMostOneBackup` is not inductive: what stops a second launch is spread over
the lock (lost in a restart), the state in the *cache* and the finalizer. `Inv`
therefore says, per object: it is launched once at most (`LaunchedOnce`); the
cache is a past version, and if it shows the finalizer the object still exists
(`CacheIsBehind`); a launch shows in the cache as the lock, a deletion, or a
state that is no longer empty or Pending (`LaunchIsRemembered`); a live,
uncancelled goroutine has its object, its finalizer and its cancel function
(`TaskIsOwned`); and what the worker holds in its hand agrees with that
(`LaunchIsFirst`, `DeletionIsKnown`). The outcome needs more: only the goroutine of
the object writes it, once, and a worker that could still report a failure knows that
the object was not launched or is being deleted. Two facts about all steps carry this,
what may become of a state that is reported (`Reports`) and of a goroutine (`Runs`).
The proof has a lemma per action, frame lemmas for objects a step does not touch, and
case splits over `Next`.

## BackupTransfer

One run of `startBackup`: `main` is its own control, `gpc` the goroutine of each
member in the current error group, `uploads`/`finished` the shared slices
(appended in two steps, read and write, as the unsynchronised Go code does),
`memberTask`, `agent` and `bucket` the world.

* `goroutines`, its first half (two members, local or external, one failing
  call, a deletion at any time): `Success` is complete, the interrupt happens
  once, no upload is left running, and an error or deletion ends the run
  although members and agents may hang (they get no fairness; goroutines do, and
  a `select` with a closed channel does not take its timer for ever).
  `NoTaskLimit` is 1 in place of 10: one NO_TASK answer too many is what matters.

With three members (two race, the third fails) the data race on
`finishedUploads` loses an entry, and that finished upload is not removed; two
members, as in the run, are too few for it, and `NoUploadLeft` speaks of uploads
that still run. A member whose state cannot be fetched is skipped when the
members are listed; `SuccessIsComplete` speaks of the listed ones.

### Proofs (`Goroutines_proofs`, first half)

For every set of members, every limit and any number of failing calls: `Complete`
(`SuccessIsComplete`), `Interrupted` (`InterruptedOnce`), `NoneLeft`
(`NoUploadLeft`) and `TypeCorrect`. The invariant ties the program counter of each
goroutine to what its member did (`MemberInv`, `TransferInv`), the group's error to
a goroutine that failed (`ErrorInv`), the phase of `main` to the goroutines that
may run in it (`PhaseInv`, `RestInv`), an upload in progress to the goroutine that
will cancel it (`UploadInv`), and the outcome to all of them (`OutcomeInv`).
`NoUploadLeft` does not depend on the racing slices: a goroutine cancels the upload
it holds itself.

## JetJob

The object, the runs of the job at the members, the goroutine that submits it
(`calls`), the status checker with the job it stores and whether it is in progress,
and the summaries its goroutine has still to look at. `mixed` records that the
annotation was saved for a spec that came later, for a job that was refused, or not
at all.

* `goroutines`, its second half (two events, each a change of the wanted state, the
  deletion, a failed call or a restart; one run; a Hazelcast that comes up): the job is in the wanted state in the end, also
  after it was suspended and resumed, or the JetJob is gone (`JobObeyed`); a JetJob
  that is gone has stopped the job whose id it knew (`JobGoneIsStopped`); a job
  that is stored is polled, although the checker ends when it has none and may be
  started by two goroutines (`CheckerRuns`).

What `JobObeyed` excuses are behaviours of the code, each a state of the model: the
annotation saved for an edit that was not applied makes the controller take the job
for obeyed for ever; after a restart nobody polls until the next submission; a job
submitted and never polled has no id and survives its JetJob.

### Proofs (`Goroutines_proofs`, second half)

`Goroutines` puts `BackupTransfer` and `JetJob` into one module, in which each has its
own variables. `GoneStopped` (`JobGoneIsStopped`) and `CheckerPolls` (`CheckerRuns`) hold
for any number of events, runs and goroutines that submit, and for every course of the
Hazelcast cluster that `JetAssumption` allows: it is created once, may become unready and
ready again, and does not come back after its deletion. A cluster created anew under the
name knows no job of the old one; the model has one sequence of runs, so it leaves that
out.

`CheckerRuns` is inductive. `GoneIsStopped` is not: the id of the job is written by the
goroutine that polls, and the worker removes the finalizer with a copy that may be
old. `IdInv` says that every id somebody holds is of a run that was started;
`FinalizerInv` that the cache shows no finalizer that the object did not get, and that a
job is only submitted for an object with one, after the cluster was created; `StoppedInv` that a worker about to remove the
finalizer has stopped the run its copy names. The write of an old copy is refused, so
that the copy which removes the finalizer names the run the object does.

## WanReplication

The WanReplications, the Maps with their two finalizers and owner references,
the publishers in the cluster (`pub`), the Secret, and the worker with its loops:
leftovers, removed resources, terminating Maps, start, persistence check, and
the stop sequence `ChangeWanState`, `ClearWanQueue`, owner reference, Terminating,
finalizer, entry. The Map controller is reduced to what touches the Map's
finalizer and state; the Hazelcast controller builds and writes the Secret in
two steps. `AddBatchPublisherConfig` is taken to make the publisher run.

* `wan_safety` (a resource of kind Hazelcast, one edit, failing call, restart;
  Map and WanReplication may be deleted): a publisher is never dropped from the
  status before it was stopped and cleared, and the Map keeps the finalizer
  until then.
* `wan_liveness` (two edits, so that a Map leaves the spec and returns; one
  failing call): a deleted WanReplication whose Map exists goes away; what is
  reported as Success is in the Secret in the end.
* `wan_conflict`, violated: a conflict swallowed in `patchWanMapStatuses` leaves
  a publisher and a finalizer that nobody will remove.

The model also has behaviours that are listed as hazards without a run: the
second WanReplication of a Map is not made its owner; a Map put back after a
half-done removal keeps a stopped publisher; a Failed entry without
`ResourceName` blocks the loop over removed resources; a Map that is gone keeps
the others of the spec from being cleaned up.

### Proofs (`WanReplication_proofs`)

For any WanReplications and Maps and any number of edits, failed calls and restarts:

* `Remembered`: `NeverForgotten`.
* `ReleasedWhenCleared`: who takes the WAN finalizer from a Map has stopped and cleared
  its own publisher of that Map.
* `Stopped`: `StoppedBeforeReleased`, with one WanReplication. With two on one Map the
  code does not promise it: each adds and removes the same finalizer.

An entry is taken from a copy that may be old, and a conflict is swallowed, so that the
worker goes on with a copy that was not stored. `CopyInv` says that such a copy has every
publisher of the version it was read as; `ReadInv` that until new publishers are started
it is that version, and that its publishers are in the cache too, unless its writes will
be refused; `StopInv` how far the stop sequence is with its publisher; `TodoInv` that the
loops over leftovers and starts only touch entries of their kind; `StatusInv` that the
publisher of an entry marked Terminating is cleared and the cache still has that entry,
and that an object without its finalizer has no publisher.

## WanSync

`requests` is the service's map, `waiting` the goroutines before its mutex, `job` the
one that has it with the answers of the members, `synced` what the members did.

* `controllers` (one object, two maps, two members, an event when one map is not
  ready): a map is Completed only when every member synchronized it, and an object
  only when its maps are. In the end no goroutine is left; without an event everything
  that is ready is synchronized, after one it has at least been asked for.

The model also has these behaviours: a restart between the annotation and the
requests leaves the object Pending; a request is dropped when the goroutine has read
the map's entry and not yet deleted it; a goroutine writes the statuses of another
object's maps into its own. An object that is Failed is not queued again, also when it
is being deleted: a Failed that is written twice with one message is no event.

`Completed` in `JobControllers_proofs`: `CompletedIsSynced` for any objects, maps and
members, from `SyncAssumption`. `PollInv` ties each answer the goroutine has collected
to what the member did, and `TruthInv` keeps reports true in the objects, the cache and
the worker's copy, so that a write of an old copy, were it accepted, could claim nothing
false.

## AppliedConfig, DataStructure and Map

`AppliedConfig` is what these controllers promise: one atomic step declares the
wanted spec applied, and only one that may follow the one applied before.

`DataStructure` is the code shared by five controllers, with the work queue:
`queued` is set by a cache update, by a result that asks for it, and by the periodic
resync, and nothing else, because these controllers drop every error of
`initialSetupDS` and watch only their own kind. `UpdateStatus` is `updateDSStatus`
with its three outcomes (written; conflict, swallowed, the worker goes on with an
unsaved copy; other error). `conf` is what each member has; a member that restarts
gets a new UUID and the configuration of the Secret. Hazelcast is assumed to accept
a configuration sent to it. `ValidateSpecCurrent`, which only the Cache controller has
(the others return nil), is taken to succeed: it compares the spec with the last
successful one of the cluster (persistence, native memory), and its failure is reported
and dropped like the others of `SetupFailed`. `Map` differs: a map that was applied
may be updated, its spec has a field that may change, one that `createMapConfig`
leaves out (`MaxIdleSeconds`) and one that is fixed, and its errors are reported and
retried.

* `data_structures` (two members, one edit, a deletion, and one mishap: a failing
  call, an outage, a restart of the operator or of a member): both implement
  `AppliedConfig` under a refinement mapping, with its liveness; what is applied was
  sent to every member; in the end the object is gone, or its applied spec is in the
  Secret and the state tells the truth. Mishaps share one bound so that each of
  them meets every interleaving of the rest. The resync (ten hours by default) is
  part of the fairness: without it a data structure created before its cluster is
  ready stays Failed.
* `ds_edited`, violated: the Success of a member that belongs to an earlier spec
  makes `sendCodecRequest` skip it, and the object becomes Success although the
  members have the old configuration. `ReconcileMapConfig` skips in the same way.

### Proofs (`DataStructure_proofs`)

`Refinement`: `Spec` implies `AppliedConfig`'s safety specification; `OnMembers`:
`AppliedOnMembers`; for every set of members and every bound. The worker may go on
with a copy that is not stored. `CopyInv` says what it still shares with the version
it was read as (the spec, always, and that this spec is admissible from the check
on), so that a write that is accepted says of the object what was found out about
the copy. `AckInv` and `SentInv` say that a member with Success in a status, and
every member once the worker has sent to all, has a configuration or has restarted.
`EditInv` and `RestartInv` bound the counters.

The same for `Map`: `MapRefinement` is its implementation of `AppliedConfig`, and
`BothOnMembers` is `BothAppliedOnMembers`, of either controller. Its invariant is `Inv` of
`Map`. A map may be edited after it was applied, and the update that is sent then gives
nothing to a member that never got the map, although the call succeeds and counts. That
such a member is not taken for one with a configuration needs more than `AckInv` of the
data structures: `Truthful` says of every version of the object that is around (stored,
cached, the worker's copy and the version it was read as) that if it has an annotation
then every member has got the map or has restarted.

`ImplementsAppliedConfig` itself stays with TLC: it includes fairness, and it maps the
numbers that stand for the specs of a data structure to the specs of a map, which is
possible for two edits at most. The two theorems state the safety of each controller with
its own specs.

## Hazelcast

`hz` is the resource with its two annotations (`applied`, `success`), `sts`,
`svc`, `endpoints`, `secret` and `roles` what it owns, `deps` the resources that
refer to it; the resource, the StatefulSet, the services and the dependents have
a cache each. `client` and `status` are its entries in the registries, `members`
the kind of members that answer, `queued` the work queue. `rolesCache` is the cache of
the cluster roles that may lag (`Lagging`; the cache of the others is up to date), and
`missed` the cluster roles that were there when `removeClusterRole` and
`removeClusterRoleBinding` did not find them. The worker follows
`Reconcile` call by call, from `AddFinalizer` to `Update` (the status), and
`executeFinalizer` from `Terminate` to `RemoveFinalizer`. A spec is a size,
whether it has one service per pod, and whether it is valid and of the
enterprise edition; `merged` records the default properties that
`hazelcastConfig` adds to the worker's copy and that are stored with the
annotation. Node discovery is taken to be enabled. Not modelled: `mutate`
(specs are already defaulted), executor services, the lag of the endpoints' cache;
the contents of what is written are in `ClusterPods`. The startup action and the activation
after a hot restart are calls that succeed or fail.

* `hazelcast`, three instances, each with one mishap (a failing call, a lost connection
  or a restart). Scaled: sizes 1 and 2 and one edit; the cluster ends up Running as its
  last spec says, with Secret, StatefulSet, services, endpoints and annotations.
  Depended: a dependent resource and a deletion at any time. Kinds: an enterprise, an
  open source or an invalid spec, a deletion at any time, and a cache of the cluster role
  that lags. The deletion completes, the status service does not outlive the resource,
  and neither does a cluster role, unless its cache did not show it
  (`GoneIsCleanedUp`).
* `hz_services`, violated: services created for a size that is given up before
  the StatefulSet is written are never deleted, because their number is read from
  the StatefulSet's annotation.

Size 2 is the smallest that can be scaled down; mishaps share one bound as in
`DataStructure`; edits and the deletion are in different instances because together
they exceed a short run, and so are the dependent resource and the lagging cache. Fairness is weak: the worker goes on, the caches follow,
StatefulSets and addresses get ready, dependents go away, a client connects
again. The ticker of the status service gets none.

The finalizer looks for the cluster roles in the cache and takes one that is not there
for removed. A resource that is deleted right after its roles were created can so leave
one behind, which has no owner and which nobody deletes; `GoneIsCleanedUp` excuses just
this. The other direction is harmless: a role that the cache still shows is deleted a
second time, the error is reported, and the finalizer is tried again.

The model also has these behaviours, which no property excludes. A cluster refused as
open source gets an enterprise spec with a service per pod: while the service waits
for its address the phase becomes Pending and the old message stays, and every later
reconcile takes the cluster for refused. `Converges` says nothing of open source
specs: the StatefulSet of a refused cluster can be created again by a reconcile with
a stale copy, and with caches that are late again and again this need not end. An
old open source member may answer after the repaired spec was recorded as applied,
and the new StatefulSet is deleted. A controller with a stale Running phase may put
a client into the registry after the resource is gone, and a dependent resource
created just before the deletion may be missed.

### Proofs (`Hazelcast_proofs`)

`CleanedUp`: `GoneIsCleanedUp` for all specs, sizes and dependents and any number of
edits and mishaps. Cluster roles and the status service are made with copies that may
be old. `HeldInv` says that they exist, that the cache shows a live resource with a
finalizer, and that a worker is about to make them, only while the resource has its
finalizer; `EndInv` that a deletion the cache or the worker knows of is a fact, and
that the finalizing worker and its cache know it; `CleanInv` that nothing is left
when the finalizer is about to go, but what was looked for in vain (`Dirty`; with
`Lagging` empty that is nothing); `CopyInv` that a copy differs from the version it
was read as only in what was worked out.

## ClusterPods

From a spec to pods: `ValidateHazelcastSpec` with the protected fields, the
configuration (directories, devices, properties), the claims, volumes, mounts and
ports of the StatefulSet, its refusal by the API server and `CreateOrUpdateForce`'s
answer to it (delete and create), the WAN services, the checksum that restarts the
pods, and the members that run with what they were started with.

* `configuration`, its first half (all specs of a set that crosses persistence, CP,
  devices, native memory, WAN endpoints, sizes, ConfigMaps and properties; two edits,
  one failed read of the old Secret): what a container mounts is a volume or a claim;
  every directory of the configuration is mounted; the data stays in its volume and
  directory; no two sockets share a port; the StatefulSet is deleted only for two WAN
  endpoints of one name; a spec that counts as applied is what the members run with.
  Two edits let a spec be changed and changed back.

What the properties name as ways out are behaviours of the code: a local device added
to an existing cluster is mounted without a claim; a spec edited before its first
success is not protected; properties never force a restart; pods started between the
write of the Secret and that of the StatefulSet. The services of removed WAN endpoints
stay. A CP cluster that was paused may come back with another size, since the check
of scaling is not made from size 0. The number of pods that is compared with the wanted
one is that of the StatefulSet's status, so it may still be none or the one from before.

The ports of a container are a set, and the order of `sort.Slice` is a relation
(`Before`), of which `isOverlapWithEachOther` compares the neighbours. Endpoints without
ports are left out (`NetworksAssumption`): their service would have none, and the API
server refuses it.

### Proofs (`ClusterPods_proofs`)

For every set of lists of WAN endpoints, of any length, and any number of edits and
failures, from `NetworksAssumption`: `Mounts` (`MountsHaveVolumes`), `Dirs`
(`DirsAreMounted`), `Ports` (`PortsAreDistinct`), `Restarted` (`RestartedForConfig`),
`Stays` (`DataStays`) and `Deleted` (`DeletedOnlyForNames`).

The claims of a StatefulSet are those of its first spec, while everything else follows
the last one. What relates them are the protected fields: `Anchor` is the spec they were
fixed by, `CopyInv` says that the worker's copy has them and is valid, `ClaimsInv`,
`DataInv` and `BaseDirInv` that claims, mounts and directory are theirs, and
`ConfiguredInv` that what the worker has written since it read the spec is what the spec
says. That comparing neighbours is enough for distinct ports is a lemma of its own: of
the endpoints behind one, the least is its neighbour, and ranges that do not reach the
neighbour do not reach the others.

## The client protocol

`Frames` has the primitives of `builtin.go` on frames whose bytes are kept apart;
`ConfigCodecs` and `MessageCodecs` the layout of every structure and message, once as
its encoder writes it and once as its decoder reads it; `Protocol` encodes, decodes,
and adds members of other versions. Values are names: a field read from the wrong
place, with the wrong width or under another is seen as `Garbled`. In the first frame a
request writes its header over the fixed fields, a response its fixed fields over the
header; what is written last is what is read.

* `configuration`, its second half (for every codec all fields zero, none, and each
  alone in both; the same version, an older one that leaves out what was added later,
  the list of indexes at the end of a map's configuration included, and newer ones
  that append a string or nested structures): what is decoded is what was encoded,
  other versions are understood, and the decoder stops where the encoder stopped.

Five codecs are left out (`Unread`): the cache configuration holder is written with
nullable structures that its decoder reads as if they were there, and the loops of
`DecodeEntryListForDataAndData` and `DecodeListMultiFrameForDataContainsNullable` run
while the end frame is next. The operator uses none of these decoders.

## CronHotBackup, JetJobSnapshot, UserCodeNamespace, ManagementCenter

All in the run `controllers`, each with a stale cache, failing calls, edits and a
deletion, and with restarts where memory matters. One or two events, chosen so that an
edit meets a failure wherever two are given; two members where answers differ.

* `CronHotBackup`: the entry in memory follows the spec, and is the only one
  (`NoLeakedEntry`). A backup that the clean-up of a history deletes has as many newer
  ones of its kind, which this clean-up spares, as the limit says, however old the list
  (`KeepsNewest`; two backups, limits of one for successful and none for failed ones,
  and a backup that is restored from). Users and the finalizer delete backups, too, and
  the clean-up counts those as long as they are listed, so that fewer than the limit may
  stay. A schedule that does not parse leaves the old entry and is tried again for ever;
  the annotation may be saved for a later spec (`mixed`); failed deletions are not
  retried; a backup may be deleted before the cache shows that it is being restored.
* `JetJobSnapshot`: an export happens once for each resource without restarts
  (`ExportedOnce`). With one it may be repeated, although the comment at
  `jetjobsnapshot_controller.go:190` says "only once for each resource": the map is
  empty then, and the annotation may not have been written.
* `UserCodeNamespace`: an object that is Success since its last edit was applied has
  the bundle of the spec on every member, added after it was downloaded there; and an
  object at rest (its cache up to date, nothing queued or in work) is Success and has
  (`SuccessIsEverywhere`). Specs are compared by content: a spec that is put back while
  another version is downloaded looks applied until the next reconcile, so the first
  part speaks of the generation that was annotated (`applied`), which is history.
* `ManagementCenter`: the two rollouts of a security provider end and the provider is
  the one of the spec, unless a cached StatefulSet was taken for the one just written,
  or an annotation was lost (`unsure`). Removing the provider from the spec does not
  remove it from the pod's data. The Service, the Ingress, the Route and the Secret are
  compared with their caches, one of which may lag in the run (the Service's or the
  Ingress's; the Route and the Secret are written in the same way as the Ingress). An
  update of an old version is refused and retried. A child that the lagging cache shows
  as the spec wants it, or does not show at all, is left as it is; only the Service's
  events queue the object again, so the others may stay so. What the API server fills in
  by itself is left out: it would make an update more often necessary, never less.

`Converges` is the liveness of all of them, of `WanSync` too, under weak fairness of
the workers, the caches, and the goroutines and pods: once the user stops and the calls
no longer fail, what is deleted is gone and no goroutine is left, and the cron, the
Management Center and the namespace are as their specs say. It excuses what is said
above (a schedule that does not parse, `mixed`, `unsure`). Snapshots and the maps of a
`WanSync` are tried once, so they are only promised if there was no event; a `WanSync`
that is Failed after one may also stay when it is deleted.

### Proofs

* `NoneLeaked` in `JobControllers_proofs`: no cron entry but the known one, and none for
  an object that is gone, because who schedules has read a finalizer that only the same
  worker takes away (`HeldInv`, `EndInv`).
* `Newest` in `JobControllers_proofs`: `KeepsNewest`, for any number of backups and any
  limits. The list is old, but a state in it is one the backup has had (`ListInv`). Of
  the newest of the list, as many as the limit (a lemma about `History`), either none
  was deleted by this clean-up before, and they are spared; or one was, and those which
  were spared for it are newer than it and hence spared for the one deleted now.
* `Once` in `CodeControllers_proofs` (JetJobSnapshot): the finalizer empties the map in
  memory even when the object then stays; `CountInv` with `EndInv` says that by then
  nobody can begin an export from a version before the deletion.
* `Everywhere` in `CodeControllers_proofs` (UserCodeNamespace): the generations of what
  was applied, of the copy, of the cache and of the object are ordered, and equal ones
  have equal specs (`GenInv`, `CacheInv`, `CopyInv`); `DoneInv` says what the worker has
  done when it reaches a step. So no old bundle gets under a newer Success, and what is
  not yet applied is queued, in work or not yet in the cache.

The invariants are at the end of each controller's own module.

## What is proved and what is only checked

Proved for every value of the constants, in eight modules: the theorems above on
`HotBackup`, `BackupTransfer`, `JetJob`, `DataStructure` and `Map` (the refinements
included), `Hazelcast`, `ClusterPods`, `WanReplication`, `UserCodeNamespace`,
`JetJobSnapshot`, `CronHotBackup` and `WanSync`. They rest on the assumptions on constants
that the modules state (`ConstantsAssumption`, `NetworksAssumption`, `JetAssumption`,
`CronAssumption`, `CoursesAssumption`, `SyncAssumption`, ...), on the hypothesis of one WanReplication in `Stopped` and on nothing else. The bounds on
edits and failures are constants of these modules, so that no number of them is too
large.

Only model-checked, on the instances above:

* liveness, since the prover does not reason about fairness; all of `ManagementCenter`'s
  property is of this kind;
* what the codecs compute (`RoundTrip`, `VersionSkew`, `ReadsAllOfIt`), which is defined
  by recursion over the layout of a message, so that a proof would need induction over
  data.

Deadlock is not checked where the environment may come to rest: an object that is
gone, or reconciled and unchanged, leaves nothing to do.

## Not modelled

* Defaulting of the specs (`mutate`) and the validation of single fields: functions of
  one field, which unit tests reach. The protected fields and the validations that
  decide what pods get are in the modules.
* The init containers and the restore of a backup: arguments of another program. JVM,
  SQL, TLS and serialization settings are copied from the spec to the configuration
  field by field.
* REST clients, dialer, platform detection, kube client: input and output; the modules
  have them as calls that answer or fail.
* The numbers on the wire: endianness and floats are taken from the Go library.
* The mTLS registry, phone home: no other part depends on their state.
* Several clusters or namespaces: controllers of different names share only their
  worker, which serves them one after another. Two WanReplications of one Map, and two
  Maps under liveness, exceed a short run; the model of `WanReplication` allows them.
* Deep copies (generated), the entry point, tools and the documentation generator.
