---------------------------- MODULE CronHotBackup ----------------------------
(***************************************************************************)
(* The CronHotBackup controller: a cron entry, kept in memory, creates     *)
(* HotBackup objects on schedule; the controller keeps the entry in step   *)
(* with the spec and deletes the backups that are over the history limits. *)
(***************************************************************************)
EXTENDS Naturals, FiniteSets

CONSTANTS
    MaxEvents,     \* how many edits, failed calls and restarts, together, in each
                   \* of the courses
    MaxBackups,    \* how many backups the schedule creates
    SuccessfulLimit, FailedLimit,  \* the history limits
    Courses        \* how the backups end, and which one is restored from

VARIABLES
    chb,           \* the object at the API server
    cache,         \* the informer cache of it
    backups,       \* the HotBackups at the API server, in order of creation
    listed,        \* the informer cache of them
    queued,        \* whether the object is in the work queue
    entries,       \* the entries of the cron: number and copy of the spec
    scheduled,     \* the number of the entry that the controller knows
    course,        \* how the backups end, and the one that a Hazelcast
                   \* resource restores from, or 0; it does not change
    rec,           \* the worker: its step and its copy of the object
    mixed,         \* whether the annotation holds a spec that was not applied
    events         \* how many edits, failed calls and restarts so far

vars == <<chb, cache, backups, listed, queued, entries, scheduled,
          course, rec, mixed, events>>

Backups == 1 .. MaxBackups

\* template stands for the schedule and the template of the backups.
Specs == [suspend : BOOLEAN, template : 0 .. 2]

\* Of the schedule only its length is validated: one of them does not parse.
Parses(s) == s.template # 2

None == [suspend |-> FALSE, template |-> 9]

New == [live |-> TRUE, deleting |-> FALSE, fin |-> FALSE,
        spec |-> [suspend |-> FALSE, template |-> 0], ann |-> None]

Gone == [New EXCEPT !.live = FALSE]

Idle == [pc |-> "idle", chb |-> Gone]

Ends == {"Success", "Failure"}

\* A backup: its state, those in which it has ended so far, and who deleted it:
\* nobody, the clean-up of one of the two histories, or others.
NoBackup == [state |-> "none", had |-> {}, by |-> "nobody"]

Init ==
    /\ chb = New /\ cache = Gone /\ queued = FALSE
    /\ backups = [b \in Backups |-> NoBackup] /\ listed = backups
    /\ entries = {} /\ scheduled = 0
    /\ course \in Courses /\ rec = Idle /\ mixed = FALSE /\ events = 0

Fault   == events < MaxEvents[course] /\ events' = events + 1
NoFault == UNCHANGED events

Exists(hb) == hb.state \notin {"none", "gone"}

Reported(hb, s) == [state |-> s, had |-> hb.had \cup {s}, by |-> hb.by]

DeletedBy(hb, who) == IF Exists(hb) /\ hb.by = "nobody" THEN [hb EXCEPT !.by = who] ELSE hb

----------------------------------------------------------------------------
(* The user, the caches, the HotBackup controller and the restarts.        *)

Edit ==
    /\ chb.live /\ Fault
    /\ \E s \in Specs : /\ s # chb.spec
                        /\ s.suspend = chb.spec.suspend \/ s.template = chb.spec.template
                        /\ chb' = [chb EXCEPT !.spec = s]
    /\ UNCHANGED <<cache, backups, listed, queued, entries, scheduled, course, rec, mixed>>

Delete ==
    /\ chb.live /\ ~chb.deleting
    /\ chb' = IF chb.fin THEN [chb EXCEPT !.deleting = TRUE] ELSE Gone
    /\ UNCHANGED <<cache, backups, listed, queued, entries, scheduled, course, rec, mixed, events>>

SyncCache ==
    /\ cache # chb
    /\ cache' = chb /\ queued' = TRUE
    /\ UNCHANGED <<chb, backups, listed, entries, scheduled, course, rec, mixed, events>>

\* The controller owns the HotBackups: what happens to one queues the object.
SyncBackups ==
    /\ listed # backups
    /\ listed' = backups /\ queued' = TRUE
    /\ UNCHANGED <<chb, cache, backups, entries, scheduled, course, rec, mixed, events>>

Restart ==
    /\ Fault
    /\ cache' = chb /\ listed' = backups /\ queued' = TRUE
    /\ entries' = {} /\ scheduled' = 0 /\ rec' = Idle
    /\ UNCHANGED <<chb, backups, course, mixed>>

\* The HotBackup controller: the backup ends, or the finalizer of a deleted one
\* runs.  A finalizer that fails reports a failure.
BackupEnds(b) ==
    /\ Exists(backups[b])
    /\ \/ /\ backups[b].state = "Unknown" /\ NoFault
          /\ backups' = [backups EXCEPT ![b] = Reported(@, course.outcome)]
       \/ /\ backups[b].by # "nobody" /\ NoFault
          /\ backups' = [backups EXCEPT ![b].state = "gone"]
       \/ /\ backups[b].by # "nobody" /\ Fault
          /\ backups' = [backups EXCEPT ![b] = Reported(@, "Failure")]
    /\ UNCHANGED <<chb, cache, listed, queued, entries, scheduled, course, rec, mixed>>

DeleteBackup(b) ==
    /\ Exists(backups[b]) /\ backups[b].by = "nobody"
    /\ backups' = [backups EXCEPT ![b] = DeletedBy(@, "others")]
    /\ UNCHANGED <<chb, cache, listed, queued, entries, scheduled, course, rec, mixed>>

\* A user deletes a backup.
UserDeletes == Fault /\ \E b \in Backups : DeleteBackup(b)

\* The owner reference of a backup whose owner is gone.
GarbageCollect(b) == ~chb.live /\ NoFault /\ DeleteBackup(b)

----------------------------------------------------------------------------
(* The cron.                                                               *)

\* createHotBackup, when an entry fires; a creation that fails is as if the
\* entry had not fired.
CreateHotBackup ==
    /\ entries # {}
    /\ \E b \in Backups : /\ \A c \in Backups : backups[c].state = "none" <=> c >= b
                          /\ backups' = [backups EXCEPT ![b].state = "Unknown"]
    /\ UNCHANGED <<chb, cache, listed, queued, entries, scheduled, course, rec, mixed, events>>

----------------------------------------------------------------------------
(* The histories.                                                          *)

\* Fault: the newest go first.
OldestWrong(n, bs) == {b \in bs : Cardinality({c \in bs : c > b}) < n}

\* The n oldest of some backups.
Oldest(n, bs) == {b \in bs : Cardinality({c \in bs : c < b}) < n}

\* deleteHotBackupHistory.
History(limit, bs) ==
    IF Cardinality(bs) > limit THEN Oldest(Cardinality(bs) - limit, bs) ELSE {}

Limit(s) == IF s = "Success" THEN SuccessfulLimit ELSE FailedLimit

\* What the cache lists in a state, those that are being deleted included, but for
\* the successful one that is restored from.
Counted(s) == {b \in Backups : listed[b].state = s /\ (s = "Success" => b # course.restored)}

\* Those that cleanupResources deletes from one of the histories.
CleanupResources(s) == History(Limit(s), Counted(s))

\* Of every history some.
Cleaned(bs) ==
    [b \in Backups |-> IF \E s \in Ends : b \in bs[s]
                       THEN DeletedBy(backups[b], CHOOSE s \in Ends : b \in bs[s])
                       ELSE backups[b]]

----------------------------------------------------------------------------
(* The worker.                                                             *)

To(pc) == [rec EXCEPT !.pc = pc]

\* A live copy with its finalizer: of it the spec and the annotation are used.
Cleaning(c) == [pc |-> "cleanup", chb |-> [Gone EXCEPT !.spec = c.spec, !.ann = c.ann]]

Reconcile ==
    /\ rec.pc = "idle" /\ queued
    /\ queued' = FALSE
    /\ rec' = CASE ~cache.live -> Idle
                [] cache.live /\ cache.deleting -> [pc |-> "final", chb |-> cache]
                [] cache.live /\ ~cache.deleting /\ ~cache.fin -> [pc |-> "finalizer", chb |-> cache]
                [] cache.live /\ ~cache.deleting /\ cache.fin -> Cleaning(cache)
    /\ UNCHANGED <<chb, cache, backups, listed, entries, scheduled, course, mixed, events>>

AddFinalizer ==
    /\ rec.pc = "finalizer"
    /\ \/ /\ rec.chb = chb /\ NoFault
          /\ chb' = [chb EXCEPT !.fin = TRUE]
          /\ rec' = Cleaning(chb') /\ UNCHANGED queued
       \/ /\ (rec.chb # chb /\ NoFault) \/ Fault
          /\ rec' = Idle /\ queued' = TRUE /\ UNCHANGED chb
    /\ UNCHANGED <<cache, backups, listed, entries, scheduled, course, mixed>>

\* Deleting is best effort; then the schedule, unless it is applied and known.
Cleanup ==
    /\ rec.pc = "cleanup"
    /\ \/ NoFault /\ backups' = Cleaned([s \in Ends |-> CleanupResources(s)])
       \/ Fault /\ \E bs \in [Ends -> SUBSET Backups] :
                    /\ \A s \in Ends : bs[s] \subseteq CleanupResources(s)
                    /\ backups' = Cleaned(bs)
    /\ rec' = IF rec.chb.ann = rec.chb.spec /\ scheduled # 0 THEN Idle
              ELSE [pc |-> "schedule", chb |-> [Gone EXCEPT !.spec = rec.chb.spec]]
    /\ UNCHANGED <<chb, cache, listed, queued, entries, scheduled, course, mixed>>

\* Fault: the entry that is replaced stays in the cron.
ReplaceAdds(e) == entries \cup {e}

\* The new entry, without the one it replaces.
Replace(e) == {x \in entries : x.id # scheduled} \cup {e}

Suspend == {x \in entries : x.id # scheduled}

\* updateSchedule.  A schedule that the cron cannot parse (AddFunc) leaves the
\* entry there was, and is tried again for ever.
UpdateSchedule ==
    /\ rec.pc = "schedule"
    /\ \/ /\ rec.chb.spec.suspend
          /\ entries' = Suspend /\ scheduled' = 0
          /\ rec' = To("annotate") /\ UNCHANGED queued
       \/ /\ ~rec.chb.spec.suspend /\ Parses(rec.chb.spec)
          /\ LET e == [id |-> IF scheduled = 1 THEN 2 ELSE 1, spec |-> rec.chb.spec]
             IN entries' = Replace(e) /\ scheduled' = e.id
          /\ rec' = To("annotate") /\ UNCHANGED queued
       \/ /\ ~rec.chb.spec.suspend /\ ~Parses(rec.chb.spec)
          /\ rec' = Idle /\ queued' = TRUE
          /\ UNCHANGED <<entries, scheduled>>
    /\ UNCHANGED <<chb, cache, backups, listed, course, mixed, events>>

\* updateLastSuccessfulConfiguration reads the object again, from the cache,
\* and saves the spec it has by now; an error queues the object again.
UpdateLastSuccessful ==
    /\ rec.pc = "annotate"
    /\ \/ /\ cache = chb /\ chb.live /\ NoFault
          /\ chb' = [chb EXCEPT !.ann = chb.spec]
          /\ mixed' = (chb.spec # rec.chb.spec)
          /\ UNCHANGED queued
       \/ /\ ((cache # chb \/ ~chb.live) /\ NoFault) \/ Fault
          /\ queued' = TRUE /\ UNCHANGED <<chb, mixed>>
    /\ rec' = Idle
    /\ UNCHANGED <<cache, backups, listed, entries, scheduled, course>>

----------------------------------------------------------------------------
(* executeFinalizer.                                                       *)

\* removeSchedule.
RemoveSchedule == {x \in entries : x.id # scheduled}

Listed == {b \in Backups : Exists(listed[b])}

\* deleteDependentHotBackups: all of them, or some when a call fails.
Deleted(bs) ==
    [b \in Backups |-> IF b \in bs THEN DeletedBy(backups[b], "others") ELSE backups[b]]

\* The schedule goes, and the backups of the list.
ExecuteFinalizer ==
    /\ rec.pc = "final"
    /\ entries' = RemoveSchedule /\ scheduled' = 0
    /\ \/ NoFault /\ backups' = Deleted(Listed) /\ rec' = To("left") /\ UNCHANGED queued
       \/ Fault /\ \E bs \in SUBSET Listed : backups' = Deleted(bs) /\ rec' = Idle /\ queued' = TRUE
    /\ UNCHANGED <<chb, cache, listed, course, mixed>>

\* The list is read again: as long as it has backups the object stays.
RemoveFinalizer ==
    /\ rec.pc = "left"
    /\ \/ /\ Listed = {} /\ rec.chb = chb /\ NoFault
          /\ chb' = Gone /\ UNCHANGED queued
       \/ /\ ((Listed # {} \/ rec.chb # chb) /\ NoFault) \/ Fault
          /\ queued' = TRUE /\ UNCHANGED chb
    /\ rec' = Idle
    /\ UNCHANGED <<cache, backups, listed, entries, scheduled, course, mixed>>

----------------------------------------------------------------------------
Worker ==
    \/ Reconcile \/ AddFinalizer \/ Cleanup \/ UpdateSchedule \/ UpdateLastSuccessful
    \/ ExecuteFinalizer \/ RemoveFinalizer

HotBackups == \E b \in Backups : BackupEnds(b) \/ GarbageCollect(b)

Next ==
    \/ Edit \/ Delete \/ SyncCache \/ SyncBackups \/ Restart
    \/ CreateHotBackup \/ UserDeletes \/ Worker \/ HotBackups

Spec == Init /\ [][Next]_vars

----------------------------------------------------------------------------
(* Properties.                                                             *)

\* The cron has no entry but the one the controller knows, so that replacing,
\* suspending and deleting stop every earlier schedule (updateSchedule,
\* removeSchedule), and none once the object is gone.
NoLeakedEntry ==
    /\ \A e \in entries : e.id = scheduled
    /\ ~chb.live => entries = {}

\* A backup that the clean-up of a history has deleted, never the one that is
\* restored from, has as many newer ones of its kind as the limit says which this
\* clean-up spares, however old its list was (cleanupResources,
\* deleteHotBackupHistory).  The newer ones may have been deleted by others: the
\* clean-up counts those as well.
Spared(s, b) == {c \in Backups : c > b /\ s \in backups[c].had /\ backups[c].by # s}

KeepsNewest ==
    \A s \in Ends, b \in Backups : backups[b].by = s =>
        /\ s = "Success" => b # course.restored
        /\ Cardinality(Spared(s, b)) >= Limit(s)

\* In the end a deleted object is gone, and the cron has the spec of the
\* object, or no entry when it is suspended, unless the annotation was saved
\* for a spec that came later, or the schedule does not parse.
CronHasSpec ==
    \/ ~chb.live
    \/ /\ ~chb.deleting
       /\ \/ mixed
          \/ IF chb.spec.suspend THEN entries = {}
             ELSE Parses(chb.spec) => \E e \in entries : e.spec = chb.spec

----------------------------------------------------------------------------
(* The inductive invariant.                                                *)

\* Of the specs and the annotation only the fields are looked at.
Objects == [live : BOOLEAN, deleting : BOOLEAN, fin : BOOLEAN,
            spec : Specs, ann : Specs \cup {None}]

PCs == {"idle", "final", "left", "finalizer", "cleanup", "schedule", "annotate"}

TypeInv ==
    /\ chb \in Objects /\ cache \in Objects
    /\ rec \in [pc : PCs, chb : Objects]

Ended(o) == ~o.live \/ o.deleting

Marked(o) == o.live /\ o.deleting

\* An object that cannot go without the worker.
Held(o) == o.live /\ o.fin

Usable(o) == o.live /\ ~o.deleting /\ o.fin

\* The cache follows the object, the worker the cache.
EndInv ==
    /\ Marked(cache) => Ended(chb)
    /\ rec.pc \in {"final", "left"} => Ended(chb) /\ Ended(cache)

HeldInv ==
    /\ Usable(cache) => Held(chb)
    /\ rec.pc \in {"cleanup", "schedule", "annotate"} => Held(chb)
    /\ entries # {} => Held(chb)

EntryInv ==
    /\ \A e \in entries : e.id = scheduled
    /\ rec.pc = "left" => entries = {}

\* Who adds the finalizer has read an object that was there.
LiveCopy == rec.pc = "finalizer" => rec.chb.live

Inv == TypeInv /\ EndInv /\ HeldInv /\ EntryInv

IsBackup(hb) == hb = [state |-> hb.state, had |-> hb.had, by |-> hb.by]

\* A state that a backup has, or had when it was listed, is one it has had.
ListInv ==
    /\ backups = [b \in Backups |-> backups[b]]
    /\ \A b \in Backups : /\ IsBackup(backups[b])
                          /\ backups[b].state \in Ends => backups[b].state \in backups[b].had
                          /\ listed[b].state \in Ends => listed[b].state \in backups[b].had

\* What may become of a backup.
Follows(hb, to) ==
    /\ IsBackup(to) /\ hb.had \subseteq to.had
    /\ to.state \in Ends => to.state \in to.had

\* An object that keeps its life keeps its finalizer and its deletion.
Keeps(o, e) == (Ended(o) => Ended(e)) /\ (Held(o) => Held(e))

============================================================================
