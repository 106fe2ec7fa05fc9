----------------------- MODULE WanReplication_proofs -----------------------
(***************************************************************************)
(* No publisher is forgotten and no Map released while it may replicate,   *)
(* for any WanReplications, Maps and specs and any number of edits, failed *)
(* calls and restarts.                                                     *)
(*                                                                         *)
(* An entry of the status goes when it says Terminating, and that it says  *)
(* only once the queue is cleared.  The danger is a reconciliation with an *)
(* old copy that starts the publisher again in between: it would have no   *)
(* entry for it, while the entry at the API server is about to go.  The    *)
(* invariant says why there is none: an entry becomes Terminating only     *)
(* when the cache already has one with a publisher, and the cache never    *)
(* goes back to an earlier version.                                        *)
(***************************************************************************)
EXTENDS WanReplication, TLAPS

----------------------------------------------------------------------------
(* Objects.                                                                *)

\* An object that a user creates, or that is gone, has no entry.
LEMMA NewWan ==
    ASSUME NEW l \in {"new", "live", "gone"}, NEW s \in SUBSET (Maps \cup {Hz})
    PROVE  /\ Wan(l, s) \in WanObjects
           /\ \A m \in Maps : Wan(l, s).st[m] = "none"
BY DEF Wan, WanObjects, Entries

LEMMA MapFields == NewMap \in MapObjects /\ NoMap \in MapObjects
BY DEF NewMap, NoMap, MapObjects

LEMMA IdleFields == Idle \in Workers /\ Idle.pc = "idle"
<1>1. (CHOOSE w \in Wans : TRUE) \in Wans
  BY ConstantsAssumption
<1>2. Wan("new", {}) \in WanObjects
  BY NewWan
<1> QED
  BY <1>1, <1>2, MapFields DEF Idle, Workers, PCs, Loops

\* The status of an object has an entry for every Map.
LEMMA EntriesOf ==
    ASSUME NEW o \in WanObjects
    PROVE  o.st \in [Maps -> Entries] /\ o.fin \in BOOLEAN
BY DEF WanObjects

\* The Map controller leaves the finalizer of the WAN alone.
LEMMA SettledFields ==
    ASSUME NEW m \in MapObjects
    PROVE  Settled(m) \in MapObjects /\ Settled(m).wanFin = m.wanFin
<1>1. CASE m.deleting /\ ~m.own /\ ~m.wanFin
  BY <1>1, MapFields DEF Settled, NoMap, MapObjects
<1>2. CASE ~(m.deleting /\ ~m.own /\ ~m.wanFin)
  BY <1>2 DEF Settled
<1> QED
  BY <1>1, <1>2

\* The types of what the worker holds.
LEMMA Types ==
    ASSUME TypeOK
    PROVE  /\ rec \in Workers /\ rec.pc \in PCs /\ w0 \in Wans
           /\ rec.wan \in WanObjects /\ rec.base \in WanObjects
           /\ rec.maps \in [Maps -> MapObjects] /\ rec.curMap \in MapObjects
           /\ rec.todo \subseteq Maps
           /\ rec.wan.st \in [Maps -> Entries] /\ rec.base.st \in [Maps -> Entries]
           /\ wan[w0] \in WanObjects
<1>1. rec \in Workers
  BY DEF TypeOK
<1>2. /\ rec.pc \in PCs /\ rec.name \in Wans /\ rec.wan \in WanObjects /\ rec.base \in WanObjects
      /\ rec.maps \in [Maps -> MapObjects] /\ rec.curMap \in MapObjects
      /\ rec.todo \subseteq Maps
  BY <1>1 DEF Workers
<1> QED
  BY <1>1, <1>2, EntriesOf DEF TypeOK, w0

----------------------------------------------------------------------------
(* What a step does to the status.                                         *)

\* The step takes no publisher out of the status of w that may replicate.
Kept(w) ==
    \A m \in Maps : Published(wan[w].st[m]) /\ ~Published(wan'[w].st[m])
                        => pub[w][m] = "cleared"

\* The worker may write o.
Sound(o) ==
    /\ o.life # "new"
    /\ \A m \in Maps : o.st[m] = "Terminating" =>
           pub[w0][m] = "cleared" /\ Published(wanCache[w0].st[m])
    /\ ~o.fin => \A m \in Maps : ~Published(o.st[m])
    /\ \A m \in Maps : Published(wan[w0].st[m]) /\ ~Published(o.st[m])
                           => pub[w0][m] = "cleared"

Preserved ==
    /\ wan' \in [Wans -> WanObjects] /\ wanCache' \in [Wans -> WanObjects]
    /\ \A w \in Wans : StatusInv(w)' /\ Kept(w)

\* Who leaves status, finalizer and publishers alone forgets nothing.
LEMMA SameStatus ==
    ASSUME NEW w \in Wans, StatusInv(w),
           wan'[w].st = wan[w].st, wan'[w].fin = wan[w].fin, wan'[w].life = wan[w].life,
           wanCache'[w] \in {wanCache[w], wan[w]}, pub'[w] = pub[w]
    PROVE  StatusInv(w)' /\ Kept(w)
BY DEF StatusInv, Kept, Published

\* A step that leaves the objects and the publishers alone.
LEMMA Untouched ==
    ASSUME Inv, UNCHANGED <<wan, wanCache, pub>>
    PROVE  Preserved
<1>1. \A w \in Wans : StatusInv(w)' /\ Kept(w)
  BY SameStatus DEF Inv
<1> QED
  BY <1>1 DEF Preserved, Inv, TypeOK

\* The worker writes its object.
LEMMA Written ==
    ASSUME Inv, NEW o \in WanObjects, Sound(o),
           wan' = [wan EXCEPT ![w0] = o], UNCHANGED <<wanCache, pub>>
    PROVE  Preserved
<1>1. w0 \in Wans /\ wan \in [Wans -> WanObjects] /\ wanCache \in [Wans -> WanObjects]
  BY Types DEF Inv, TypeOK
<1>2. wan'[w0] = o /\ wan' \in [Wans -> WanObjects]
  BY <1>1
<1>3. ASSUME NEW w \in Wans, w = w0 PROVE StatusInv(w)' /\ Kept(w)
  <2>1. /\ \A m \in Maps : wan'[w].st[m] = "Terminating" =>
               pub'[w][m] = "cleared" /\ Published(wanCache'[w].st[m])
        /\ ~wan'[w].fin => \A m \in Maps : ~Published(wan'[w].st[m])
        /\ wan'[w].life # "new"
    BY <1>2, <1>3 DEF Sound
  <2>2. Kept(w)
    BY <1>2, <1>3 DEF Sound, Kept
  <2> QED
    BY <2>1, <2>2 DEF StatusInv, Published
<1>4. ASSUME NEW w \in Wans, w # w0 PROVE StatusInv(w)' /\ Kept(w)
  BY <1>1, <1>4, SameStatus DEF Inv
<1> QED
  BY <1>1, <1>2, <1>3, <1>4 DEF Preserved

----------------------------------------------------------------------------
(* What a step does to the worker.                                         *)

\* A worker that is idle has nothing to keep in mind.
LEMMA Ends ==
    ASSUME rec' = Idle
    PROVE  rec' \in Workers /\ WorkerInv'
BY IdleFields DEF WorkerInv

\* The worker's copy stays what it is while the users write and the cache
\* follows.
LEMMA SameWorker ==
    ASSUME Inv, UNCHANGED <<rec, pub>>, wan'[w0].st = wan[w0].st,
           wanCache'[w0] \in {wanCache[w0], wan[w0]}
    PROVE  WorkerInv'
<1> SUFFICES ASSUME rec.pc # "idle" PROVE WorkerInv'
  BY DEF WorkerInv
<1>1. CopyInv /\ ReadInv /\ StopInv /\ TodoInv /\ rec.wan.life = "live"
      /\ (rec.pc # "finalizer" => rec.wan.fin)
  BY DEF Inv, WorkerInv
<1>2. CopyInv'
  BY <1>1 DEF CopyInv, Entry, w0
<1>3. ReadInv'
  <2>1. CASE wanCache'[w0] = wanCache[w0]
    BY <1>1, <2>1 DEF ReadInv, Entry, w0
  <2>2. CASE wanCache'[w0] = wan[w0]
    BY <1>1, <2>2 DEF ReadInv, Entry, w0
  <2> QED
    BY <2>1, <2>2
<1>4. StopInv' /\ TodoInv'
  BY <1>1 DEF StopInv, TodoInv, Entry, w0
<1> QED
  BY <1>1, <1>2, <1>3, <1>4 DEF WorkerInv

\* The object that the worker works for goes, and its entries with it.
LEMMA WorkerOfGone ==
    ASSUME Inv, UNCHANGED <<rec, pub>>, wanCache'[w0] = wanCache[w0],
           \A m \in Maps : wan'[w0].st[m] = "none"
    PROVE  WorkerInv'
<1> SUFFICES ASSUME rec.pc # "idle" PROVE WorkerInv'
  BY DEF WorkerInv
<1>1. CopyInv /\ ReadInv /\ StopInv /\ TodoInv /\ rec.wan.life = "live"
      /\ (rec.pc # "finalizer" => rec.wan.fin)
  BY DEF Inv, WorkerInv
<1>2. CopyInv'
  BY <1>1 DEF CopyInv, Entry, w0
<1>3. \A m \in Maps : Published(rec.base.st[m]) => wan'[w0].st # rec.base.st
  BY DEF Published
<1>4. ReadInv'
  BY <1>1, <1>3 DEF ReadInv, Entry, w0
<1>5. StopInv' /\ TodoInv'
  BY <1>1 DEF StopInv, TodoInv, Entry, w0
<1> QED
  BY <1>1, <1>2, <1>4, <1>5 DEF WorkerInv

----------------------------------------------------------------------------
(* The users, the caches and the restarts.                                 *)

\* A user edits and deletes, and neither touches the status.
LEMMA UserWrites ==
    ASSUME Inv, NEW w \in Wans, NEW o \in WanObjects, wan' = [wan EXCEPT ![w] = o],
           UNCHANGED <<wanCache, pub, rec>>,
           \/ o.st = wan[w].st /\ o.fin = wan[w].fin /\ o.life = wan[w].life
           \/ ~wan[w].fin /\ ~o.fin /\ \A m \in Maps : o.st[m] = "none"
    PROVE  Preserved /\ WorkerInv'
<1>1. /\ wan \in [Wans -> WanObjects] /\ wanCache \in [Wans -> WanObjects] /\ w0 \in Wans
      /\ \A v \in Wans : StatusInv(v)
  BY Types DEF Inv, TypeOK
<1>2. /\ wan' \in [Wans -> WanObjects] /\ wan'[w] = o
      /\ \A v \in Wans : v # w => wan'[v] = wan[v]
  BY <1>1
<1>3. ASSUME NEW v \in Wans, v # w PROVE StatusInv(v)' /\ Kept(v)
  BY <1>1, <1>2, <1>3, SameStatus
<1>4. CASE o.st = wan[w].st /\ o.fin = wan[w].fin /\ o.life = wan[w].life
  <2>1. StatusInv(w)' /\ Kept(w)
    BY <1>1, <1>2, <1>4, SameStatus
  <2>2. wan'[w0].st = wan[w0].st
    BY <1>1, <1>2, <1>4
  <2> QED
    BY <1>1, <1>2, <1>3, <2>1, <2>2, SameWorker DEF Preserved
<1>5. CASE ~wan[w].fin /\ ~o.fin /\ \A m \in Maps : o.st[m] = "none"
  <2>1. \A m \in Maps : ~Published(wan[w].st[m])
    BY <1>1, <1>5 DEF StatusInv
  <2>2. StatusInv(w)' /\ Kept(w)
    BY <1>2, <1>5, <2>1 DEF StatusInv, Kept, Published
  <2>3. CASE w = w0
    BY <1>1, <1>2, <1>3, <1>5, <2>2, <2>3, WorkerOfGone DEF Preserved
  <2>4. CASE w # w0
    <3>1. wan'[w0].st = wan[w0].st
      BY <1>1, <1>2, <2>4
    <3> QED
      BY <1>1, <1>2, <1>3, <2>2, <3>1, SameWorker DEF Preserved
  <2> QED
    BY <2>3, <2>4
<1> QED
  BY <1>4, <1>5

LEMMA UserStep ==
    ASSUME Inv, NEW w \in Wans, NEW s \in SUBSET (Maps \cup {Hz}),
           Create(w, s) \/ Edit(w, s) \/ Delete(w)
    PROVE  Preserved /\ WorkerInv'
<1>1. /\ wan \in [Wans -> WanObjects] /\ wan[w] \in WanObjects /\ StatusInv(w)
  BY DEF Inv, TypeOK
<1>2. UNCHANGED <<wanCache, pub, rec>>
  BY DEF Create, Edit, Delete, seen
<1>3. CASE Create(w, s)
  <2>1. wan' = [wan EXCEPT ![w] = Wan("live", s)] /\ ~wan[w].fin
    BY <1>1, <1>3 DEF Create, StatusInv
  <2>2. Wan("live", s) \in WanObjects /\ ~Wan("live", s).fin
        /\ \A m \in Maps : Wan("live", s).st[m] = "none"
    BY <1>1, NewWan DEF Wan
  <2> QED
    BY <1>2, <2>1, <2>2, UserWrites
<1>4. CASE Edit(w, s)
  <2> DEFINE o == [wan[w] EXCEPT !.spec = s]
  <2>1. wan' = [wan EXCEPT ![w] = o]
    BY <1>4 DEF Edit
  <2>2. o \in WanObjects /\ o.st = wan[w].st /\ o.fin = wan[w].fin /\ o.life = wan[w].life
    BY <1>1 DEF WanObjects
  <2> HIDE DEF o
  <2> QED
    BY <1>2, <2>1, <2>2, UserWrites
<1>5. CASE Delete(w) /\ wan[w].fin
  <2> DEFINE o == [wan[w] EXCEPT !.deleting = TRUE]
  <2>1. wan' = [wan EXCEPT ![w] = o]
    BY <1>5 DEF Delete
  <2>2. o \in WanObjects /\ o.st = wan[w].st /\ o.fin = wan[w].fin /\ o.life = wan[w].life
    BY <1>1 DEF WanObjects
  <2> HIDE DEF o
  <2> QED
    BY <1>2, <2>1, <2>2, UserWrites
<1>6. CASE Delete(w) /\ ~wan[w].fin
  <2>1. wan' = [wan EXCEPT ![w] = Wan("gone", {})]
    BY <1>6 DEF Delete
  <2>2. Wan("gone", {}) \in WanObjects /\ ~Wan("gone", {}).fin
        /\ \A m \in Maps : Wan("gone", {}).st[m] = "none"
    BY NewWan DEF Wan
  <2> QED
    BY <1>2, <1>6, <2>1, <2>2, UserWrites
<1> QED
  BY <1>3, <1>4, <1>5, <1>6

LEMMA SyncWanStep ==
    ASSUME Inv, NEW w \in Wans, SyncWan(w)
    PROVE  Preserved /\ WorkerInv'
<1>1. /\ wan \in [Wans -> WanObjects] /\ wanCache \in [Wans -> WanObjects] /\ w0 \in Wans
      /\ \A v \in Wans : StatusInv(v)
  BY Types DEF Inv, TypeOK
<1>2. UNCHANGED <<wan, pub, rec>> /\ wanCache' = [wanCache EXCEPT ![w] = wan[w]]
  BY DEF SyncWan, kube
<1>3. \A v \in Wans : wanCache'[v] \in {wanCache[v], wan[v]}
  BY <1>1, <1>2
<1>4. \A v \in Wans : StatusInv(v)' /\ Kept(v)
  BY <1>1, <1>2, <1>3, SameStatus
<1>5. WorkerInv'
  BY <1>1, <1>2, <1>3, SameWorker
<1> QED
  BY <1>1, <1>2, <1>4, <1>5 DEF Preserved

LEMMA RestartStep ==
    ASSUME Inv, Restart
    PROVE  Preserved /\ WorkerInv'
<1>1. /\ wan \in [Wans -> WanObjects] /\ \A v \in Wans : StatusInv(v)
  BY DEF Inv, TypeOK
<1>2. UNCHANGED <<wan, pub>> /\ wanCache' = wan /\ rec' = Idle
  BY DEF Restart, kube
<1>3. \A v \in Wans : StatusInv(v)' /\ Kept(v)
  BY <1>1, <1>2, SameStatus
<1> QED
  BY <1>1, <1>2, <1>3, Ends DEF Preserved

----------------------------------------------------------------------------
(* What the worker may write, and how it goes on.                          *)

\* The worker goes on with the copy it has.
LEMMA Moves ==
    ASSUME Inv, rec.pc \notin {"idle", "finalizer"}, UNCHANGED <<wan, wanCache>>,
           rec'.name = rec.name, rec'.wan = rec.wan, rec'.base = rec.base,
           rec.pc \in {"start", "protect"} => rec'.pc \in {"start", "protect"},
           StopInv', TodoInv'
    PROVE  WorkerInv'
<1>1. CopyInv /\ ReadInv /\ rec.wan.life = "live" /\ rec.wan.fin
  BY DEF Inv, WorkerInv
<1>2. CopyInv'
  BY <1>1 DEF CopyInv, Entry, w0
<1>3. ReadInv'
  BY <1>1 DEF ReadInv, Entry, w0
<1> QED
  BY <1>1, <1>2, <1>3 DEF WorkerInv

\* The worker goes on with the copy it wrote.
LEMMA MovesOn ==
    ASSUME Inv, rec.pc \notin {"idle", "finalizer"}, ~WanConflict,
           NEW o, o.life = "live", o.fin, wan'[w0] = o, UNCHANGED wanCache,
           rec'.name = rec.name, rec'.wan = o, rec'.base = o,
           rec.pc \in {"start", "protect"} => rec'.pc \in {"start", "protect"},
           \A m \in Maps : Published(o.st[m]) => Published(Entry(m)),
           StopInv', TodoInv'
    PROVE  WorkerInv'
<1>1. ReadInv
  BY DEF Inv, WorkerInv
<1>2. CopyInv'
  BY DEF CopyInv, Entry, w0, Published
<1>3. wan[w0] = rec.base
  BY DEF WanConflict
<1>4. ReadInv'
  BY <1>1, <1>3 DEF ReadInv, Entry, w0
<1> QED
  BY <1>2, <1>4 DEF WorkerInv

\* It may write what takes an entry away only if it says Terminating, and makes
\* one say so only if the publisher is cleared.
LEMMA SoundCopy ==
    ASSUME Inv, rec.pc # "idle", ~WanConflict, NEW o \in WanObjects, o.life # "new",
           ~o.fin => \A m \in Maps : ~Published(o.st[m]),
           \A m \in Maps :
              /\ \/ o.st[m] # "Terminating" \/ Entry(m) = "Terminating"
                 \/ pub[w0][m] = "cleared" /\ Published(wanCache[w0].st[m])
              /\ Published(Entry(m)) /\ ~Published(o.st[m]) => Entry(m) = "Terminating"
    PROVE  Sound(o)
<1>1. CopyInv /\ StatusInv(w0)
  BY Types DEF Inv, WorkerInv
<1>2. wan[w0] = rec.base
  BY DEF WanConflict
<1>3. \A m \in Maps : Entry(m) = "Terminating" =>
          pub[w0][m] = "cleared" /\ Published(wanCache[w0].st[m])
  BY <1>1, <1>2 DEF CopyInv, StatusInv
<1>4. \A m \in Maps : Published(wan[w0].st[m]) => Published(Entry(m))
  BY <1>1, <1>2 DEF CopyInv
<1> QED
  BY <1>3, <1>4 DEF Sound

\* The worker changes the state of a publisher.
LEMMA PubChanges ==
    ASSUME Inv, NEW m \in Maps, NEW p \in Publishers, pub' = [pub EXCEPT ![w0][m] = p],
           UNCHANGED <<wan, wanCache>>, wan[w0].st[m] # "Terminating" \/ p = "cleared"
    PROVE  /\ Preserved /\ pub' \in [Wans -> [Maps -> Publishers]]
           /\ pub'[w0][m] = p
<1>1. /\ wan \in [Wans -> WanObjects] /\ wanCache \in [Wans -> WanObjects] /\ w0 \in Wans
      /\ pub \in [Wans -> [Maps -> Publishers]]
      /\ \A v \in Wans : StatusInv(v)
  BY Types DEF Inv, TypeOK
<1>2. /\ pub' \in [Wans -> [Maps -> Publishers]] /\ pub'[w0][m] = p
      /\ \A v \in Wans : v # w0 => pub'[v] = pub[v]
      /\ \A k \in Maps : k # m => pub'[w0][k] = pub[w0][k]
  BY <1>1
<1>3. ASSUME NEW v \in Wans, v # w0 PROVE StatusInv(v)' /\ Kept(v)
  BY <1>1, <1>2, <1>3, SameStatus
<1>4. ASSUME NEW v \in Wans, v = w0 PROVE StatusInv(v)' /\ Kept(v)
  <2>1. ASSUME NEW k \in Maps, wan[v].st[k] = "Terminating" PROVE pub'[v][k] = "cleared"
    BY <1>1, <1>2, <1>4, <2>1 DEF StatusInv
  <2> QED
    BY <1>1, <2>1 DEF StatusInv, Kept
<1> QED
  BY <1>1, <1>2, <1>3, <1>4 DEF Preserved

----------------------------------------------------------------------------
(* The steps of the worker.                                                *)

StepInv ==
    /\ Preserved /\ WorkerInv'
    /\ rec' \in Workers /\ pub' \in [Wans -> [Maps -> Publishers]]

\* A worker that gives up leaves the objects alone.
LEMMA EndStep ==
    ASSUME Inv, rec' = Idle, UNCHANGED <<wan, wanCache, pub>>
    PROVE  StepInv
<1>1. Preserved
  BY Untouched
<1> QED
  BY <1>1, Ends DEF StepInv, Inv, TypeOK

\* A last write of a sound copy.
LEMMA EndWrite ==
    ASSUME Inv, NEW o \in WanObjects, Sound(o), rec' = Idle,
           wan' = [wan EXCEPT ![w0] = o], UNCHANGED <<wanCache, pub>>
    PROVE  StepInv
<1>1. Preserved
  BY Written
<1> QED
  BY <1>1, Ends DEF StepInv, Inv, TypeOK

\* A write of the WanReplication that fails, or conflicts.
LEMMA WanErrorStep ==
    ASSUME Inv, WanError, UNCHANGED <<wanCache, pub>>
    PROVE  StepInv
BY EndStep DEF WanError, End

\* A failure that is reported in the status; a conflict is swallowed.
LEMMA ReportedStep ==
    ASSUME Inv, NEW o \in WanObjects, ~WanConflict => Sound(o), ReportedWanError(o),
           UNCHANGED <<wanCache, pub>>
    PROVE  StepInv
<1>1. CASE WanError
  BY <1>1, WanErrorStep
<1>2. CASE ~WanConflict /\ wan' = [wan EXCEPT ![w0] = o] /\ rec' = Idle
  BY <1>2, EndWrite
<1> QED
  BY <1>1, <1>2 DEF ReportedWanError, End

\* A call to the cluster that fails.
LEMMA ClusterErrorStep == ASSUME Inv, ClusterError PROVE StepInv
BY EndStep DEF ClusterError, End, kube, seen

LEMMA ReconcileStep ==
    ASSUME Inv, NEW w \in Wans, Reconcile(w)
    PROVE  StepInv
<1> DEFINE c == wanCache[w]
           pc == IF c.fin THEN "leftover" ELSE "finalizer"
<1>1. c \in WanObjects /\ StatusInv(w) /\ c.life = "live" /\ c.fin \in BOOLEAN
  BY EntriesOf DEF Inv, TypeOK, Reconcile
<1>2. /\ UNCHANGED <<wan, wanCache, pub>>
      /\ rec' = [Idle EXCEPT !.pc = pc, !.name = w, !.wan = c, !.base = c, !.todo = Leftovers(c)]
  BY DEF Reconcile, Internal, kube, seen
<1>3. /\ rec' \in Workers /\ rec'.pc = pc /\ rec'.name = w /\ rec'.wan = c /\ rec'.base = c
      /\ rec'.todo = Leftovers(c)
  <2>1. pc \in PCs /\ Leftovers(c) \subseteq Maps
    BY DEF PCs, Leftovers
  <2> QED
    BY <1>1, <1>2, <2>1, IdleFields DEF Workers
<1>4. CopyInv'
  BY <1>1, <1>2, <1>3 DEF CopyInv, StatusInv, Entry, w0, Published
<1>5. ReadInv'
  BY <1>2, <1>3 DEF ReadInv, Entry, w0
<1>6. StopInv' /\ TodoInv'
  BY <1>3 DEF StopInv, TodoInv, Stopping, Leftovers, Entry
<1>7. WorkerInv'
  BY <1>1, <1>3, <1>4, <1>5, <1>6 DEF WorkerInv
<1> QED
  BY <1>2, <1>3, <1>7, Untouched DEF StepInv, Inv, TypeOK

LEMMA AddFinalizerStep == ASSUME Inv, AddFinalizer PROVE StepInv
<1>1. UNCHANGED <<wanCache, pub>> /\ rec.pc = "finalizer"
  BY DEF AddFinalizer, seen
<1>2. CASE WanError
  BY <1>1, <1>2, WanErrorStep
<1>3. CASE ~WanConflict /\ wan' = [wan EXCEPT ![w0] = [rec.wan EXCEPT !.fin = TRUE]] /\ End
  <2> DEFINE o == [rec.wan EXCEPT !.fin = TRUE]
  <2>1. rec.wan \in WanObjects /\ rec.wan.life = "live"
    BY <1>1, Types DEF Inv, WorkerInv
  <2>2. o \in WanObjects /\ o.life = "live" /\ o.fin /\ o.st = rec.wan.st
    BY <2>1 DEF WanObjects
  <2>3. wan' = [wan EXCEPT ![w0] = o]
    BY <1>3
  <2> HIDE DEF o
  <2>4. Sound(o)
    BY <1>1, <1>3, <2>2, SoundCopy DEF Entry
  <2> QED
    BY <1>1, <1>3, <2>2, <2>3, <2>4, EndWrite DEF End
<1> QED
  BY <1>2, <1>3 DEF AddFinalizer

\* The write of an entry: what deleteLeftoverMapsFromStatus,
\* updateWanMapStatus and deleteWanMapStatus have in common.
LEMMA EntryCopy ==
    ASSUME Inv, rec.pc \notin {"idle", "finalizer"}, NEW m \in Maps,
           NEW e \in {"none", "Terminating"},
           \/ Entry(m) = "Terminating"
           \/ e = "none" /\ ~Published(Entry(m))
           \/ e = "Terminating" /\ pub[w0][m] = "cleared" /\ Published(Entry(m)) /\ ReadInv
              /\ rec.pc \notin {"start", "protect"}
    PROVE  /\ WithEntry(m, e) \in WanObjects
           /\ WithEntry(m, e).life = "live" /\ WithEntry(m, e).fin
           /\ WithEntry(m, e).st[m] = e
           /\ \A k \in Maps : k # m => WithEntry(m, e).st[k] = Entry(k)
           /\ \A k \in Maps : Published(WithEntry(m, e).st[k]) => Published(Entry(k))
           /\ ~WanConflict => Sound(WithEntry(m, e))
<1> DEFINE o == WithEntry(m, e)
<1>1. rec.wan \in WanObjects /\ rec.wan.life = "live" /\ rec.wan.fin /\ e \in Entries
  BY Types DEF Inv, WorkerInv, Entries
<1>2. /\ o \in WanObjects /\ o.fin = rec.wan.fin /\ o.st[m] = e
      /\ \A k \in Maps : k # m => o.st[k] = Entry(k)
  BY <1>1 DEF WithEntry, Entry, WanObjects
<1>3. o.life = "live"
  BY <1>1 DEF WithEntry, WanObjects
<1> HIDE DEF o
<1>4. \A k \in Maps : Published(o.st[k]) => Published(Entry(k))
  BY <1>2 DEF Published
<1>5. ASSUME ~WanConflict PROVE Sound(o)
  <2>0. wan[w0].st = rec.base.st
    BY <1>5 DEF WanConflict
  <2>1. e = "Terminating" => \/ Entry(m) = "Terminating"
                             \/ pub[w0][m] = "cleared" /\ Published(wanCache[w0].st[m])
    BY <2>0 DEF ReadInv
  <2>2. e = "none" => ~Published(Entry(m)) \/ Entry(m) = "Terminating"
    OBVIOUS
  <2>3. ~Published("none") /\ Published("Terminating")
    BY DEF Published
  <2> QED
    BY <1>1, <1>2, <1>3, <1>5, <2>1, <2>2, <2>3, SoundCopy
<1> QED
  BY <1>1, <1>2, <1>3, <1>4, <1>5 DEF o

\* A step that changes nothing but the place of the worker.
LEMMA Goes ==
    ASSUME Inv, rec.pc \notin {"idle", "finalizer"}, UNCHANGED <<wan, wanCache, pub>>,
           rec' \in Workers,
           rec'.name = rec.name, rec'.wan = rec.wan, rec'.base = rec.base,
           rec.pc \in {"start", "protect"} => rec'.pc \in {"start", "protect"},
           StopInv', TodoInv'
    PROVE  StepInv
<1>1. WorkerInv'
  BY Moves
<1>2. Preserved
  BY Untouched
<1> QED
  BY <1>1, <1>2 DEF StepInv, Inv, TypeOK

\* A status update, after which the worker goes on as a says or ends.
LEMMA WriteStep ==
    ASSUME Inv, rec.pc \notin {"idle", "finalizer"},
           NEW o \in WanObjects, o.life = "live", o.fin, ~WanConflict => Sound(o),
           \A m \in Maps : Published(o.st[m]) => Published(Entry(m)),
           NEW a \in Workers, WriteWan(o, a), UNCHANGED <<wanCache, pub>>,
           a # Idle =>
              /\ a.name = rec.name /\ a.pc \notin {"stop", "clear", "owner", "mark", "start"}
              /\ rec.pc \in {"start", "protect"} => a.pc \in {"start", "protect"}
              /\ a.pc = "leftover" => \A m \in a.todo : o.st[m] = "Terminating"
              /\ a.pc \in {"unprotect", "drop"} =>
                    /\ a.cur \in Maps /\ a.loop \in Loops
                    /\ ~Published(o.st[a.cur]) \/ o.st[a.cur] = "Terminating"
              /\ a.pc = "unprotect" => pub[w0][a.cur] = "cleared"
    PROVE  StepInv
<1>1. ~WanConflict /\ wan' = [wan EXCEPT ![w0] = o]
  BY DEF WriteWan
<1>2. CASE a = Idle
  <2>1. rec' = Idle
    BY <1>2 DEF WriteWan
  <2> QED
    BY <1>1, <2>1, EndWrite
<1>3. CASE a # Idle
  <2>1. rec' = [a EXCEPT !.wan = o, !.base = o]
    BY <1>3 DEF WriteWan
  <2>2. /\ rec' \in Workers /\ rec'.wan = o /\ rec'.base = o
        /\ rec'.name = rec.name /\ rec'.pc = a.pc /\ rec'.todo = a.todo
        /\ rec'.cur = a.cur /\ rec'.loop = a.loop
    BY <1>3, <2>1 DEF Workers
  <2>3. wan'[w0] = o /\ w0' = w0
    BY <1>1, <2>2, Types DEF Inv, TypeOK, w0
  <2>4. TodoInv'
    BY <1>3, <2>2 DEF TodoInv, Entry
  <2>5. StopInv'
    BY <1>3, <2>2, <2>3 DEF StopInv, Stopping, Entry
  <2>6. WorkerInv'
    BY <1>1, <1>3, <2>2, <2>3, <2>4, <2>5, MovesOn
  <2>7. Preserved
    BY <1>1, Written
  <2> QED
    BY <2>2, <2>6, <2>7 DEF StepInv, Inv, TypeOK
<1> QED
  BY <1>2, <1>3

LEMMA DeleteLeftoverStep ==
    ASSUME Inv, NEW m \in Maps, DeleteLeftover(m)
    PROVE  StepInv
<1> DEFINE o == WithEntry(m, "none")
           a == IF mapCache[m].live THEN [rec EXCEPT !.todo = @ \ {m}] ELSE Idle
<1>1. UNCHANGED <<wanCache, pub>> /\ rec.pc = "leftover" /\ m \in rec.todo
  BY DEF DeleteLeftover, seen
<1>2. \A k \in rec.todo : Entry(k) = "Terminating"
  BY <1>1 DEF Inv, WorkerInv, TodoInv
<1>3. /\ o \in WanObjects /\ o.life = "live" /\ o.fin
      /\ \A k \in Maps : k # m => o.st[k] = Entry(k)
      /\ \A k \in Maps : Published(o.st[k]) => Published(Entry(k))
      /\ ~WanConflict => Sound(o)
  BY <1>1, <1>2, EntryCopy
<1>4. a \in Workers /\ (a # Idle => /\ a.name = rec.name /\ a.pc = "leftover"
                                   /\ a.todo = rec.todo \ {m})
  BY <1>1, Types, IdleFields DEF Inv, Workers
<1>5. CASE WriteWan(o, a)
  <2>1. a # Idle => \A k \in a.todo : o.st[k] = "Terminating"
    BY <1>2, <1>3, <1>4, Types DEF Inv
  <2> HIDE DEF o, a
  <2> QED
    BY <1>1, <1>3, <1>4, <1>5, <2>1, WriteStep
<1>6. CASE ReportedWanError(o)
  <2> HIDE DEF o
  <2> QED
    BY <1>1, <1>3, <1>6, ReportedStep
<1> QED
  BY <1>5, <1>6 DEF DeleteLeftover

LEMMA GroupMapsStep == ASSUME Inv, GroupMaps PROVE StepInv
<1>1. UNCHANGED <<wan, wanCache, pub>> /\ rec.pc = "leftover"
  BY DEF GroupMaps, LeftoversDone, Internal, kube, seen
<1>2. CASE rec' = Idle
  BY <1>1, <1>2, EndStep
<1>3. CASE rec' = [rec EXCEPT
                !.pc = "removed",
                !.maps = [m \in Maps |-> IF m \in InSpec THEN mapCache[m] ELSE NoMap],
                !.todo = EntryMaps \ InSpec]
  <2>1. [m \in Maps |-> IF m \in InSpec THEN mapCache[m] ELSE NoMap] \in [Maps -> MapObjects]
    BY MapFields DEF Inv, TypeOK
  <2>2. EntryMaps \ InSpec \subseteq Maps
    BY DEF EntryMaps
  <2>3. /\ rec' \in Workers /\ rec'.pc = "removed"
        /\ rec'.name = rec.name /\ rec'.wan = rec.wan /\ rec'.base = rec.base
    BY <1>3, <2>1, <2>2, Types DEF Inv, Workers, PCs, Loops
  <2>4. StopInv' /\ TodoInv'
    BY <2>3 DEF StopInv, TodoInv, Stopping
  <2> QED
    BY <1>1, <2>3, <2>4, Goes
<1> QED
  BY <1>2, <1>3 DEF GroupMaps, End

LEMMA ListPublishedStep == ASSUME Inv, ListPublished PROVE StepInv
<1> DEFINE published == {m \in Maps : Published(Entry(m))}
           maps == [m \in Maps |-> IF m \in published THEN mapCache[m] ELSE NoMap]
<1>1. UNCHANGED <<wan, wanCache, pub>> /\ rec.pc = "leftover"
  BY DEF ListPublished, LeftoversDone, Internal, kube, seen
<1>2. CASE rec' = Idle
  BY <1>1, <1>2, EndStep
<1>3. CASE rec' = [rec EXCEPT !.pc = "all", !.maps = maps, !.todo = EntryMaps]
  <2>1. maps \in [Maps -> MapObjects]
    BY MapFields DEF Inv, TypeOK
  <2>2. EntryMaps \subseteq Maps
    BY DEF EntryMaps
  <2> HIDE DEF maps
  <2>3. /\ rec' \in Workers /\ rec'.pc = "all"
        /\ rec'.name = rec.name /\ rec'.wan = rec.wan /\ rec'.base = rec.base
    BY <1>3, <2>1, <2>2, Types DEF Inv, Workers, PCs, Loops
  <2>4. StopInv' /\ TodoInv'
    BY <2>3 DEF StopInv, TodoInv, Stopping
  <2> QED
    BY <1>1, <2>3, <2>4, Goes
<1> QED
  BY <1>2, <1>3 DEF ListPublished, End

----------------------------------------------------------------------------
(* stopWanReplicationMap.                                                  *)

LEMMA StopMapStep ==
    ASSUME Inv, NEW m \in Maps, NEW c \in MapObjects, rec.pc \in Loops, StopMap(m, c),
           UNCHANGED <<wan, wanCache, pub>>
    PROVE  StepInv
<1> DEFINE pc == CASE Entry(m) = "none"     -> rec.pc
                   [] Published(Entry(m))   -> "stop"
                   [] OTHER                 -> "drop"
<1>1. rec' = [rec EXCEPT !.pc = pc, !.todo = @ \ {m}, !.cur = m, !.curMap = c, !.loop = rec.pc]
  BY DEF StopMap
<1>2. \/ pc = rec.pc
      \/ pc = "stop" /\ Published(Entry(m))
      \/ pc = "drop" /\ ~Published(Entry(m))
  <2>1. Entry(m) = "none" => pc = rec.pc
    BY DEF Published
  <2>2. Published(Entry(m)) => pc = "stop"
    BY DEF Published
  <2>3. Entry(m) # "none" /\ ~Published(Entry(m)) => pc = "drop"
    OBVIOUS
  <2> HIDE DEF pc
  <2> QED
    BY <2>1, <2>2, <2>3
<1> HIDE DEF pc
<1>3. /\ pc \in PCs
      /\ \/ pc \in Loops
         \/ pc = "stop" /\ Published(Entry(m))
         \/ pc = "drop" /\ ~Published(Entry(m))
  BY <1>2 DEF PCs
<1>4. /\ rec' \in Workers /\ rec'.pc = pc /\ rec'.cur = m /\ rec'.loop = rec.pc
      /\ rec'.name = rec.name /\ rec'.wan = rec.wan /\ rec'.base = rec.base
  BY <1>1, <1>3, Types DEF Inv, Workers, PCs
<1>5. StopInv' /\ TodoInv'
  BY <1>3, <1>4 DEF StopInv, TodoInv, Stopping, Loops, Entry
<1> QED
  BY <1>4, <1>5, Goes DEF Loops

\* The three loops that stop a publisher begin in the same way.
LEMMA StopStep ==
    ASSUME Inv, NEW m \in Maps, StopRemoved(m) \/ StopTerminating(m) \/ StopPublished(m)
    PROVE  StepInv
<1>1. CASE ClusterError
  BY <1>1, ClusterErrorStep
<1>2. CASE ~ClusterError
  <2>1. UNCHANGED <<wan, wanCache, pub>> /\ rec.pc \in Loops
    BY <1>2 DEF StopRemoved, StopTerminating, StopPublished, Internal, kube, seen, Loops
  <2>2. StopMap(m, mapCache[m]) \/ StopMap(m, rec.maps[m]) \/ rec' = Idle
    BY <1>2 DEF StopRemoved, StopTerminating, StopPublished, End
  <2>3. mapCache[m] \in MapObjects /\ rec.maps[m] \in MapObjects
    BY Types DEF Inv, TypeOK
  <2> QED
    BY <2>1, <2>2, <2>3, StopMapStep, EndStep
<1> QED
  BY <1>1, <1>2

LEMMA ChangeWanStateStep == ASSUME Inv, ChangeWanState PROVE StepInv
<1>1. CASE ClusterError
  BY <1>1, ClusterErrorStep
<1>2. CASE ~ClusterError
  <2> DEFINE p == IF pub[w0][rec.cur] = "cleared" THEN pub[w0][rec.cur] ELSE "stopped"
  <2>1. /\ UNCHANGED <<wan, wanCache>> /\ rec.pc = "stop" /\ pub' = [pub EXCEPT ![w0][rec.cur] = p]
        /\ rec' = [rec EXCEPT !.pc = "clear"]
    BY <1>2 DEF ChangeWanState, kube, seen
  <2>2. rec.cur \in Maps /\ rec.loop \in Loops /\ Published(Entry(rec.cur)) /\ StatusInv(w0)
    BY <2>1, Types DEF Inv, WorkerInv, StopInv, Stopping
  <2>3. p \in Publishers /\ (wan[w0].st[rec.cur] # "Terminating" \/ p = "cleared")
    BY <2>2 DEF Publishers, StatusInv
  <2> HIDE DEF p
  <2>4. Preserved /\ pub' \in [Wans -> [Maps -> Publishers]]
    BY <2>1, <2>2, <2>3, PubChanges
  <2>5. /\ rec' \in Workers /\ rec'.pc = "clear" /\ rec'.cur = rec.cur /\ rec'.loop = rec.loop
        /\ rec'.name = rec.name /\ rec'.wan = rec.wan /\ rec'.base = rec.base
    BY <2>1, Types DEF Inv, Workers, PCs
  <2>6. StopInv' /\ TodoInv'
    BY <2>2, <2>5 DEF StopInv, TodoInv, Entry
  <2>7. WorkerInv'
    BY <2>1, <2>5, <2>6, Moves
  <2> QED
    BY <2>4, <2>5, <2>7 DEF StepInv
<1> QED
  BY <1>1, <1>2

LEMMA ClearWanQueueStep == ASSUME Inv, ClearWanQueue PROVE StepInv
<1>1. CASE ClusterError
  BY <1>1, ClusterErrorStep
<1>2. CASE ~ClusterError
  <2>1. PICK pc \in {"owner", "mark"} :
          /\ UNCHANGED <<wan, wanCache>> /\ rec.pc = "clear"
          /\ pub' = [pub EXCEPT ![w0][rec.cur] = "cleared"]
          /\ rec' = [rec EXCEPT !.pc = pc]
    BY <1>2 DEF ClearWanQueue, kube, seen
  <2>2. rec.cur \in Maps /\ rec.loop \in Loops /\ Published(Entry(rec.cur))
    BY <2>1, Types DEF Inv, WorkerInv, StopInv, Stopping
  <2>3. "cleared" \in Publishers
    BY DEF Publishers
  <2>4. /\ Preserved /\ pub' \in [Wans -> [Maps -> Publishers]]
        /\ pub'[w0][rec.cur] = "cleared"
    BY <2>1, <2>2, <2>3, PubChanges
  <2>5. /\ rec' \in Workers /\ rec'.pc = pc /\ rec'.cur = rec.cur /\ rec'.loop = rec.loop
        /\ rec'.name = rec.name /\ rec'.wan = rec.wan /\ rec'.base = rec.base
    BY <2>1, Types DEF Inv, Workers, PCs
  <2>6. StopInv' /\ TodoInv'
    BY <2>2, <2>4, <2>5 DEF StopInv, TodoInv, Entry, w0
  <2>7. WorkerInv'
    BY <2>1, <2>5, <2>6, Moves
  <2> QED
    BY <2>4, <2>5, <2>7 DEF StepInv
<1> QED
  BY <1>1, <1>2

\* The updates of the Map: from one step of the stopping to a later one.
LEMMA UpdateMapStep ==
    ASSUME Inv, NEW n \in MapObjects, NEW pc \in {"mark", "drop"}, UpdateMap(n, pc),
           rec.pc = IF pc = "mark" THEN "owner" ELSE "unprotect",
           UNCHANGED <<wan, wanCache, pub>>
    PROVE  StepInv
<1>1. CASE rec' = Idle
  BY <1>1, EndStep
<1>2. CASE rec' = [rec EXCEPT !.curMap = n, !.pc = pc]
  <2>1. /\ rec' \in Workers /\ rec'.pc = pc /\ rec'.cur = rec.cur /\ rec'.loop = rec.loop
        /\ rec'.name = rec.name /\ rec'.wan = rec.wan /\ rec'.base = rec.base
    BY <1>2, Types DEF Inv, Workers, PCs
  <2>2. StopInv
    BY DEF Inv, WorkerInv
  <2>3. StopInv' /\ TodoInv'
    BY <2>1, <2>2 DEF StopInv, TodoInv, Stopping, Entry, w0
  <2> QED
    BY <2>1, <2>3, Goes
<1> QED
  BY <1>1, <1>2 DEF UpdateMap, End

LEMMA RemoveOwnerReferenceStep == ASSUME Inv, RemoveOwnerReference PROVE StepInv
<1> DEFINE n == [rec.curMap EXCEPT !.owners = @ \ {w0}]
<1>1. UNCHANGED <<wan, wanCache, pub>> /\ rec.pc = "owner" /\ UpdateMap(n, "mark")
  BY DEF RemoveOwnerReference, seen
<1>2. n \in MapObjects
  BY Types DEF Inv, MapObjects
<1> HIDE DEF n
<1> QED
  BY <1>1, <1>2, UpdateMapStep

LEMMA RemoveWanRepFinalizerStep == ASSUME Inv, RemoveWanRepFinalizer PROVE StepInv
<1> DEFINE n == [rec.curMap EXCEPT !.wanFin = FALSE]
<1>1. UNCHANGED <<wan, wanCache, pub>> /\ rec.pc = "unprotect" /\ UpdateMap(n, "drop")
  BY DEF RemoveWanRepFinalizer, seen
<1>2. n \in MapObjects
  BY Types DEF Inv, MapObjects
<1> HIDE DEF n
<1> QED
  BY <1>1, <1>2, UpdateMapStep

LEMMA MarkTerminatingStep == ASSUME Inv, MarkTerminating PROVE StepInv
<1> DEFINE m == rec.cur
           o == WithEntry(m, "Terminating")
           pc == IF rec.curMap.wanFin THEN "unprotect" ELSE "drop"
           a == [rec EXCEPT !.pc = pc]
<1>1. UNCHANGED <<wanCache, pub>> /\ rec.pc = "mark"
  BY DEF MarkTerminating, seen
<1>2. /\ m \in Maps /\ rec.loop \in Loops /\ Published(Entry(m)) /\ pub[w0][m] = "cleared"
      /\ ReadInv
  BY <1>1 DEF Inv, WorkerInv, StopInv, Stopping
<1>3. /\ o \in WanObjects /\ o.life = "live" /\ o.fin /\ o.st[m] = "Terminating"
      /\ \A k \in Maps : Published(o.st[k]) => Published(Entry(k))
      /\ ~WanConflict => Sound(o)
  BY <1>1, <1>2, EntryCopy
<1>4. /\ a \in Workers /\ a.pc \in {"unprotect", "drop"} /\ a.name = rec.name
      /\ a.cur = m /\ a.loop = rec.loop
  BY Types DEF Inv, Workers, PCs
<1>5. CASE WriteWan(o, a)
  <2> HIDE DEF o, a, m
  <2> QED
    BY <1>1, <1>2, <1>3, <1>4, <1>5, WriteStep
<1>6. CASE ReportedWanError(o)
  <2> HIDE DEF o
  <2> QED
    BY <1>1, <1>3, <1>6, ReportedStep
<1> QED
  BY <1>5, <1>6 DEF MarkTerminating

LEMMA DeleteWanMapStatusStep == ASSUME Inv, DeleteWanMapStatus PROVE StepInv
<1> DEFINE m == rec.cur
           o == WithEntry(m, "none")
           a == [rec EXCEPT !.pc = rec.loop, !.loop = "idle", !.cur = Idle.cur, !.curMap = NoMap]
<1>1. UNCHANGED <<wanCache, pub>> /\ rec.pc = "drop"
  BY DEF DeleteWanMapStatus, seen
<1>2. /\ m \in Maps /\ rec.loop \in Loops
      /\ ~Published(Entry(m)) \/ Entry(m) = "Terminating"
  BY <1>1 DEF Inv, WorkerInv, StopInv, Stopping
<1>3. /\ o \in WanObjects /\ o.life = "live" /\ o.fin
      /\ \A k \in Maps : Published(o.st[k]) => Published(Entry(k))
      /\ ~WanConflict => Sound(o)
  BY <1>1, <1>2, EntryCopy
<1>4. a \in Workers /\ a.pc \in Loops /\ a.name = rec.name
  BY <1>2, Types, MapFields DEF Inv, Workers, PCs
<1>5. CASE WriteWan(o, a)
  <2> HIDE DEF o, a
  <2> QED
    BY <1>1, <1>3, <1>4, <1>5, WriteStep DEF Loops
<1>6. CASE ReportedWanError(o)
  <2> HIDE DEF o
  <2> QED
    BY <1>1, <1>3, <1>6, ReportedStep
<1> QED
  BY <1>5, <1>6 DEF DeleteWanMapStatus

----------------------------------------------------------------------------
(* The stages of the reconciliation, and the end of a deletion.            *)

LEMMA CleanupTerminatingStep == ASSUME Inv, CleanupTerminating PROVE StepInv
<1> DEFINE todo == {m \in Copied : rec.maps[m].state = "Terminating"}
<1>1. /\ UNCHANGED <<wan, wanCache, pub>> /\ rec.pc = "removed"
      /\ rec' = [rec EXCEPT !.pc = "terminating", !.todo = todo]
  BY DEF CleanupTerminating, Internal, kube, seen
<1>2. todo \subseteq Maps
  BY DEF Copied
<1> HIDE DEF todo
<1>3. /\ rec' \in Workers /\ rec'.pc = "terminating"
      /\ rec'.name = rec.name /\ rec'.wan = rec.wan /\ rec'.base = rec.base
  BY <1>1, <1>2, Types DEF Inv, Workers, PCs, Loops
<1>4. StopInv' /\ TodoInv'
  BY <1>3 DEF StopInv, TodoInv, Stopping
<1> QED
  BY <1>1, <1>3, <1>4, Goes

LEMMA CheckConnectivityStep == ASSUME Inv, CheckConnectivity PROVE StepInv
<1> DEFINE todo == {m \in Copied : ~Published(Entry(m)) /\ rec.maps[m].state = "Success"}
<1>1. CASE ClusterError
  BY <1>1, ClusterErrorStep
<1>2. CASE ~ClusterError
  <2>1. /\ UNCHANGED <<wan, wanCache, pub>> /\ rec.pc = "terminating"
        /\ rec' = [rec EXCEPT !.pc = "start", !.todo = todo]
    BY <1>2 DEF CheckConnectivity, Internal, kube, seen
  <2>2. todo \subseteq Maps /\ \A m \in todo : ~Published(Entry(m))
    BY DEF Copied
  <2> HIDE DEF todo
  <2>3. /\ rec' \in Workers /\ rec'.pc = "start" /\ rec'.todo = todo
        /\ rec'.name = rec.name /\ rec'.wan = rec.wan /\ rec'.base = rec.base
    BY <2>1, <2>2, Types DEF Inv, Workers, PCs
  <2>4. StopInv' /\ TodoInv'
    BY <2>2, <2>3 DEF StopInv, TodoInv, Stopping, Entry
  <2> QED
    BY <2>1, <2>3, <2>4, Goes
<1> QED
  BY <1>1, <1>2

\* The publisher that is started has no entry that says it is being stopped.
LEMMA ApplyWanReplicationStep ==
    ASSUME Inv, NEW m \in Maps, ApplyWanReplication(m)
    PROVE  StepInv
<1>1. UNCHANGED <<wan, wanCache>> /\ rec.pc = "start" /\ m \in rec.todo
  BY DEF ApplyWanReplication, kube, seen
<1>2. /\ CopyInv /\ TodoInv /\ rec.wan.life = "live" /\ rec.wan.fin
      /\ pub \in [Wans -> [Maps -> Publishers]]
  BY <1>1 DEF Inv, WorkerInv, TypeOK
<1>3. ~Published(Entry(m)) /\ wan[w0].st[m] # "Terminating"
  BY <1>1, <1>2 DEF TodoInv, CopyInv
<1>4. PICK e \in {"Persisting", "Failed"} :
        /\ rec' = [rec EXCEPT !.todo = @ \ {m}, !.wan.st[m] = e]
        /\ \/ pub' = pub
           \/ pub' = [pub EXCEPT ![w0][m] = "running"]
  BY DEF ApplyWanReplication
<1>5. /\ rec' \in Workers /\ rec'.pc = "start" /\ rec'.todo = rec.todo \ {m}
      /\ rec'.name = rec.name /\ rec'.base = rec.base
      /\ rec'.wan = [rec.wan EXCEPT !.st[m] = e]
  <2>1. e \in Entries /\ rec.wan \in WanObjects /\ rec \in Workers
    BY Types DEF Inv, Entries
  <2>2. [rec.wan EXCEPT !.st[m] = e] \in WanObjects
    BY <2>1 DEF WanObjects
  <2> QED
    BY <1>1, <1>4, <2>1, <2>2 DEF Workers
<1>6. /\ rec'.wan.life = "live" /\ rec'.wan.fin /\ rec'.wan.st[m] = e
      /\ \A k \in Maps : k # m => rec'.wan.st[k] = rec.wan.st[k]
  BY <1>2, <1>5, Types DEF Inv, WanObjects
<1>7. CopyInv'
  <2> SUFFICES ASSUME NEW k \in Maps
               PROVE  /\ ~Published(rec'.wan.st[k]) =>
                            ~Published(rec.base.st[k]) /\ wan[w0].st[k] # "Terminating"
                      /\ rec'.wan.st[k] = "Terminating" => rec.base.st[k] = "Terminating"
    BY <1>1, <1>5 DEF CopyInv, Entry, w0
  <2>1. CASE k = m
    BY <1>2, <1>3, <1>6, <2>1 DEF CopyInv
  <2>2. CASE k # m
    BY <1>2, <1>6, <2>2 DEF CopyInv, Entry
  <2> QED
    BY <2>1, <2>2
<1>8. ReadInv' /\ StopInv'
  BY <1>5 DEF ReadInv, StopInv, Stopping
<1>9. TodoInv'
  BY <1>1, <1>2, <1>5, <1>6, Types DEF Inv, TodoInv, Entry
<1>10. WorkerInv'
  BY <1>5, <1>6, <1>7, <1>8, <1>9 DEF WorkerInv
<1>11. Preserved /\ pub' \in [Wans -> [Maps -> Publishers]]
  <2>1. CASE pub' = pub
    BY <1>1, <1>2, <2>1, Untouched
  <2>2. CASE pub' = [pub EXCEPT ![w0][m] = "running"]
    <3>1. "running" \in Publishers
      BY DEF Publishers
    <3> QED
      BY <1>1, <1>3, <2>2, <3>1, PubChanges
  <2> QED
    BY <1>4, <2>1, <2>2
<1> QED
  BY <1>5, <1>10, <1>11 DEF StepInv

\* The copy with new entries in it.
LEMMA CopySound ==
    ASSUME Inv, rec.pc \in {"start", "protect"}, ~WanConflict
    PROVE  Sound(rec.wan)
<1>1. rec.wan \in WanObjects /\ rec.wan.life = "live" /\ rec.wan.fin
  BY Types DEF Inv, WorkerInv
<1> QED
  BY <1>1, SoundCopy DEF Entry

LEMMA PatchStartedStep == ASSUME Inv, PatchStarted PROVE StepInv
<1> DEFINE todo == {m \in Maps : Published(Entry(m))}
           a == [rec EXCEPT !.pc = "protect", !.todo = todo]
<1>1. UNCHANGED <<wanCache, pub>> /\ rec.pc = "start"
  BY DEF PatchStarted, seen
<1>2. rec.wan \in WanObjects /\ rec.wan.life = "live" /\ rec.wan.fin
  BY <1>1, Types DEF Inv, WorkerInv
<1>3. /\ a \in Workers /\ a.pc = "protect" /\ a.name = rec.name /\ a.wan = rec.wan
      /\ a.base = rec.base /\ a # Idle
  BY Types, IdleFields DEF Inv, Workers, PCs
<1>4. CASE WriteWan(rec.wan, a)
  <2> HIDE DEF a
  <2> QED
    BY <1>1, <1>2, <1>3, <1>4, CopySound, WriteStep DEF Entry
<1>5. CASE WanConflict /\ rec' = [a EXCEPT !.wan = rec.wan] /\ UNCHANGED wan
  <2> HIDE DEF a
  <2>1. /\ rec' \in Workers /\ rec'.pc = "protect" /\ rec'.name = rec.name
        /\ rec'.wan = rec.wan /\ rec'.base = rec.base
    BY <1>2, <1>3, <1>5 DEF Workers
  <2>2. StopInv' /\ TodoInv'
    BY <2>1 DEF StopInv, TodoInv, Stopping
  <2> QED
    BY <1>1, <1>5, <2>1, <2>2, Goes
<1>6. CASE rec' = Idle /\ UNCHANGED wan
  BY <1>1, <1>6, EndStep
<1> QED
  BY <1>3, <1>4, <1>5, <1>6 DEF PatchStarted, PatchWan, End

LEMMA AddWanRepFinalizerStep ==
    ASSUME Inv, NEW m \in Maps, AddWanRepFinalizer(m)
    PROVE  StepInv
<1>1. UNCHANGED <<wan, wanCache, pub>> /\ rec.pc = "protect"
  BY DEF AddWanRepFinalizer, seen
<1>2. rec' = Idle \/ rec' = [rec EXCEPT !.todo = @ \ {m}]
  BY DEF AddWanRepFinalizer, End
<1>3. CASE rec' = [rec EXCEPT !.todo = @ \ {m}]
  <2>1. /\ rec' \in Workers /\ rec'.pc = "protect" /\ rec'.name = rec.name
        /\ rec'.wan = rec.wan /\ rec'.base = rec.base
    BY <1>1, <1>3, Types DEF Inv, Workers
  <2>2. StopInv' /\ TodoInv'
    BY <2>1 DEF StopInv, TodoInv, Stopping
  <2> QED
    BY <1>1, <2>1, <2>2, Goes
<1> QED
  BY <1>1, <1>2, <1>3, EndStep

LEMMA ValidateStep == ASSUME Inv, ValidateWanConfigPersistence PROVE StepInv
<1> DEFINE st == [m \in Maps |-> IF rec.wan.st[m] = "Persisting" /\ InSecret(m)
                                 THEN "Success" ELSE rec.wan.st[m]]
           o == [rec.wan EXCEPT !.st = st]
<1>1. UNCHANGED <<wanCache, pub>> /\ rec.pc = "protect"
  BY DEF ValidateWanConfigPersistence, seen
<1>2. rec.wan \in WanObjects /\ rec.wan.life = "live" /\ rec.wan.fin
  BY <1>1, Types DEF Inv, WorkerInv
<1>3. /\ st \in [Maps -> Entries]
      /\ \A m \in Maps : \/ st[m] = Entry(m)
                         \/ Entry(m) = "Persisting" /\ st[m] = "Success"
  <2>1. rec.wan.st \in [Maps -> Entries] /\ "Success" \in Entries
    BY <1>2, EntriesOf DEF Entries
  <2> QED
    BY <2>1 DEF Entry
<1>4. PatchWan(o, Idle) \/ ReportedWanError(o)
  BY DEF ValidateWanConfigPersistence
<1> HIDE DEF st
<1>5. o \in WanObjects /\ o.life = "live" /\ o.fin /\ o.st = st
  BY <1>2, <1>3 DEF WanObjects
<1> HIDE DEF o
<1>6. \A m \in Maps : o.st[m] = Entry(m) \/ o.st[m] = "Success"
  BY <1>3, <1>5
<1>7. Published("Success")
  BY DEF Published
<1>8. ~WanConflict => Sound(o)
  BY <1>1, <1>5, <1>6, <1>7, SoundCopy
<1>9. CASE ReportedWanError(o)
  BY <1>1, <1>5, <1>8, <1>9, ReportedStep
<1>10. CASE WanConflict /\ rec' = Idle /\ UNCHANGED wan
  BY <1>1, <1>10, EndStep
<1>11. CASE ~WanConflict /\ wan' = [wan EXCEPT ![w0] = o] /\ rec' = Idle
  BY <1>1, <1>5, <1>8, <1>11, EndWrite
<1> QED
  BY <1>4, <1>9, <1>10, <1>11 DEF PatchWan, WriteWan

LEMMA RemoveFinalizerStep == ASSUME Inv, RemoveFinalizer PROVE StepInv
<1> DEFINE o == Wan("gone", {})
<1>1. UNCHANGED <<wanCache, pub>> /\ rec.pc = "all" /\ rec' = Idle
  BY DEF RemoveFinalizer, seen, End
<1>2. CASE UNCHANGED wan
  BY <1>1, <1>2, EndStep
<1>3. CASE EntryMaps = {} /\ ~WanConflict /\ wan' = [wan EXCEPT ![w0] = o]
  <2>1. o \in WanObjects /\ o.life = "gone" /\ \A m \in Maps : o.st[m] = "none"
    BY NewWan DEF Wan
  <2>2. \A m \in Maps : Entry(m) = "none"
    BY <1>3 DEF EntryMaps
  <2> HIDE DEF o
  <2>3. Sound(o)
    BY <1>1, <1>3, <2>1, <2>2, SoundCopy DEF Published
  <2> QED
    BY <1>1, <1>3, <2>1, <2>3, EndWrite
<1> QED
  BY <1>2, <1>3 DEF RemoveFinalizer

----------------------------------------------------------------------------
(* What a step does to the Maps.                                           *)

\* A Map loses WanRepMapFinalizer only when the worker has cleared the queue of
\* its publisher.
Released ==
    \A m \in Maps : map[m].wanFin /\ ~map'[m].wanFin => pub[w0][m] = "cleared"

MapStep == map' \in [Maps -> MapObjects] /\ Released

\* A step that leaves the Maps alone.
LEMMA SameMaps == ASSUME Inv, UNCHANGED map PROVE MapStep
BY DEF Inv, TypeOK, MapStep, Released

\* A write of one Map that takes the finalizer away only after the queue is
\* cleared.
LEMMA MapWritten ==
    ASSUME Inv, NEW m \in Maps, NEW n \in MapObjects, map' = [map EXCEPT ![m] = n],
           map[m].wanFin => n.wanFin \/ pub[w0][m] = "cleared"
    PROVE  MapStep
<1>1. map \in [Maps -> MapObjects]
  BY DEF Inv, TypeOK
<1>2. map' \in [Maps -> MapObjects] /\ map'[m] = n /\ \A k \in Maps : k # m => map'[k] = map[k]
  BY <1>1
<1>3. Released
  BY <1>2 DEF Released
<1> QED
  BY <1>2, <1>3 DEF MapStep

LEMMA OthersMapStep ==
    ASSUME Inv, NEW m \in Maps,
           DeleteMap(m) \/ GarbageCollect(m) \/ MapApplied(m) \/ MapTerminating(m)
           \/ MapFinalizer(m)
    PROVE  MapStep
<1>1. map[m] \in MapObjects
  BY DEF Inv, TypeOK
<1>2. CASE DeleteMap(m) \/ GarbageCollect(m)
  <2> DEFINE n == [map[m] EXCEPT !.deleting = TRUE]
  <2>1. map' = [map EXCEPT ![m] = n]
    BY <1>2 DEF DeleteMap, GarbageCollect
  <2>2. n \in MapObjects /\ n.wanFin = map[m].wanFin
    BY <1>1 DEF MapObjects
  <2> HIDE DEF n
  <2> QED
    BY <2>1, <2>2, MapWritten
<1>3. CASE MapApplied(m) \/ MapTerminating(m)
  <2>1. PICK x \in {"Success", "Terminating"} : map' = [map EXCEPT ![m].state = x]
    BY <1>3 DEF MapApplied, MapTerminating
  <2> DEFINE n == [map[m] EXCEPT !.state = x]
  <2>2. map' = [map EXCEPT ![m] = n]
    BY <2>1
  <2>3. n \in MapObjects /\ n.wanFin = map[m].wanFin
    BY <1>1 DEF MapObjects
  <2> HIDE DEF n
  <2> QED
    BY <2>2, <2>3, MapWritten
<1>4. CASE MapFinalizer(m)
  <2> DEFINE n == [map[m] EXCEPT !.own = FALSE]
  <2>1. map' = [map EXCEPT ![m] = Settled(n)]
    BY <1>4 DEF MapFinalizer
  <2>2. n \in MapObjects /\ n.wanFin = map[m].wanFin
    BY <1>1 DEF MapObjects
  <2> HIDE DEF n
  <2> QED
    BY <2>1, <2>2, SettledFields, MapWritten
<1> QED
  BY <1>2, <1>3, <1>4

LEMMA UpdateMapMaps ==
    ASSUME Inv, rec.cur \in Maps, NEW n \in MapObjects, NEW pc, UpdateMap(n, pc),
           n.wanFin = rec.curMap.wanFin \/ pub[w0][rec.cur] = "cleared"
    PROVE  MapStep
<1>1. CASE UNCHANGED map
  BY <1>1, SameMaps
<1>2. CASE rec.curMap = map[rec.cur] /\ map' = [map EXCEPT ![rec.cur] = Settled(n)]
  BY <1>2, SettledFields, MapWritten
<1> QED
  BY <1>1, <1>2 DEF UpdateMap, MapConflict

LEMMA RemoveOwnerReferenceMaps == ASSUME Inv, RemoveOwnerReference PROVE MapStep
<1> DEFINE n == [rec.curMap EXCEPT !.owners = @ \ {w0}]
<1>1. rec.pc = "owner" /\ UpdateMap(n, "mark")
  BY DEF RemoveOwnerReference
<1>2. n \in MapObjects /\ n.wanFin = rec.curMap.wanFin
  BY Types DEF Inv, MapObjects
<1>3. rec.cur \in Maps
  BY <1>1 DEF Inv, WorkerInv, StopInv, Stopping
<1> HIDE DEF n
<1> QED
  BY <1>1, <1>2, <1>3, UpdateMapMaps

LEMMA RemoveWanRepFinalizerMaps == ASSUME Inv, RemoveWanRepFinalizer PROVE MapStep
<1> DEFINE n == [rec.curMap EXCEPT !.wanFin = FALSE]
<1>1. rec.pc = "unprotect" /\ UpdateMap(n, "drop")
  BY DEF RemoveWanRepFinalizer
<1>2. n \in MapObjects
  BY Types DEF Inv, MapObjects
<1>3. rec.cur \in Maps /\ pub[w0][rec.cur] = "cleared"
  BY <1>1 DEF Inv, WorkerInv, StopInv, Stopping
<1> HIDE DEF n
<1> QED
  BY <1>1, <1>2, <1>3, UpdateMapMaps

LEMMA AddWanRepFinalizerMaps ==
    ASSUME Inv, NEW m \in Maps, AddWanRepFinalizer(m)
    PROVE  MapStep
<1> DEFINE c == rec.maps[m]
           n == [c EXCEPT !.wanFin = TRUE, !.owners = @ \cup {w0}]
<1>1. map' = map \/ map' = [map EXCEPT ![m] = n]
  BY DEF AddWanRepFinalizer
<1>2. n \in MapObjects /\ n.wanFin
  <2>1. c \in MapObjects /\ w0 \in Wans
    BY Types DEF Inv
  <2> QED
    BY <2>1 DEF MapObjects
<1> HIDE DEF n
<1> QED
  BY <1>1, <1>2, SameMaps, MapWritten

----------------------------------------------------------------------------
(* All steps.                                                              *)

\* The actions of the others that do not concern the worker.
Aside ==
    \/ \E m \in Maps : \/ DeleteMap(m) \/ GarbageCollect(m) \/ SyncMap(m)
                       \/ MapApplied(m) \/ MapTerminating(m) \/ MapFinalizer(m)
    \/ SyncSecret \/ BuildConfig \/ WriteSecret

\* The Map and Hazelcast controllers do not touch the WanReplications.
LEMMA AsideUnchanged == Aside => UNCHANGED <<wan, wanCache, pub, rec>>
BY DEF Aside, DeleteMap, GarbageCollect, SyncMap, MapApplied, MapTerminating, MapFinalizer,
       SyncSecret, BuildConfig, WriteSecret, kube, seen

LEMMA Unmoved == ASSUME Inv, UNCHANGED <<wan, wanCache, pub, rec>> PROVE StepInv
<1>1. Preserved
  BY Untouched
<1>2. w0 \in Wans /\ wanCache'[w0] = wanCache[w0]
  BY Types DEF Inv
<1>3. WorkerInv'
  BY <1>2, SameWorker
<1> QED
  BY <1>1, <1>3 DEF StepInv, Inv, TypeOK

LEMMA WorkerStep == ASSUME Inv, Worker PROVE StepInv
BY AddFinalizerStep, GroupMapsStep, ListPublishedStep, DeleteLeftoverStep, StopStep,
   ApplyWanReplicationStep, AddWanRepFinalizerStep, ChangeWanStateStep, ClearWanQueueStep,
   RemoveOwnerReferenceStep, MarkTerminatingStep, RemoveWanRepFinalizerStep,
   DeleteWanMapStatusStep, CleanupTerminatingStep, CheckConnectivityStep, PatchStartedStep,
   ValidateStep, RemoveFinalizerStep
DEF Worker

LEMMA AnyStep == ASSUME Inv, [Next]_vars PROVE StepInv
<1>1. CASE UNCHANGED vars
  BY <1>1, Unmoved DEF vars, kube, seen
<1>2. CASE Aside
  BY <1>2, AsideUnchanged, Unmoved
<1>3. ASSUME NEW w \in Wans, NEW s \in SUBSET (Maps \cup {Hz}),
             Create(w, s) \/ Edit(w, s) \/ Delete(w)
      PROVE  StepInv
  <2>1. UNCHANGED <<pub, rec>>
    BY <1>3 DEF Create, Edit, Delete
  <2> QED
    BY <1>3, <2>1, UserStep DEF StepInv, Inv, TypeOK
<1>4. ASSUME NEW w \in Wans, Delete(w) \/ \E s \in Specs : Create(w, s) \/ Edit(w, s)
      PROVE  StepInv
  <2>1. {} \in SUBSET (Maps \cup {Hz}) /\ \A s \in Specs : s \in SUBSET (Maps \cup {Hz})
    BY ConstantsAssumption
  <2>2. CASE Delete(w)
    BY <1>3, <2>1, <2>2
  <2> QED
    BY <1>3, <1>4, <2>1, <2>2
<1>5. ASSUME NEW w \in Wans, SyncWan(w) PROVE StepInv
  <2>1. UNCHANGED <<pub, rec>>
    BY <1>5 DEF SyncWan
  <2> QED
    BY <1>5, <2>1, SyncWanStep DEF StepInv, Inv, TypeOK
<1>6. CASE Restart
  <2>1. UNCHANGED pub /\ rec' = Idle
    BY <1>6 DEF Restart
  <2> QED
    BY <1>6, <2>1, IdleFields, RestartStep DEF StepInv, Inv, TypeOK
<1> QED
  BY <1>1, <1>2, <1>4, <1>5, <1>6, ReconcileStep, WorkerStep DEF Next, Aside

\* Nor do the users of a WanReplication touch the Maps.
LEMMA MapsKept ==
    ASSUME \/ \E w \in Wans : \/ \E s \in Specs : Create(w, s) \/ Edit(w, s)
                              \/ Delete(w) \/ SyncWan(w) \/ Reconcile(w)
           \/ SyncSecret \/ BuildConfig \/ WriteSecret
    PROVE  UNCHANGED <<map, mapCache>>
BY DEF Create, Edit, Delete, SyncWan, Reconcile, SyncSecret, BuildConfig, WriteSecret, Internal,
       kube, seen

\* Of the steps of the worker, three write a Map.
LEMMA WorkerMaps ==
    ASSUME Inv, Worker
    PROVE  MapStep /\ UNCHANGED mapCache
<1>1. CASE \/ AddFinalizer \/ GroupMaps \/ ListPublished
           \/ \E m \in Maps : \/ DeleteLeftover(m) \/ StopRemoved(m) \/ StopTerminating(m)
                              \/ StopPublished(m) \/ ApplyWanReplication(m)
  <2>1. UNCHANGED <<map, mapCache>>
    BY <1>1 DEF AddFinalizer, GroupMaps, ListPublished, DeleteLeftover, StopRemoved,
       StopTerminating, StopPublished, ApplyWanReplication, Internal, ClusterError, kube, seen
  <2> QED
    BY <2>1, SameMaps
<1>2. CASE \/ ChangeWanState \/ ClearWanQueue \/ MarkTerminating \/ DeleteWanMapStatus
           \/ CleanupTerminating \/ CheckConnectivity \/ PatchStarted
           \/ ValidateWanConfigPersistence \/ RemoveFinalizer
  <2>1. UNCHANGED <<map, mapCache>>
    BY <1>2 DEF ChangeWanState, ClearWanQueue, MarkTerminating, DeleteWanMapStatus,
       CleanupTerminating, CheckConnectivity, PatchStarted, ValidateWanConfigPersistence,
       RemoveFinalizer, Internal, ClusterError, kube, seen
  <2> QED
    BY <2>1, SameMaps
<1>3. CASE RemoveOwnerReference
  BY <1>3, RemoveOwnerReferenceMaps DEF RemoveOwnerReference, seen
<1>4. CASE RemoveWanRepFinalizer
  BY <1>4, RemoveWanRepFinalizerMaps DEF RemoveWanRepFinalizer, seen
<1>5. ASSUME NEW m \in Maps, AddWanRepFinalizer(m) PROVE MapStep /\ UNCHANGED mapCache
  BY <1>5, AddWanRepFinalizerMaps DEF AddWanRepFinalizer, seen
<1> QED
  BY <1>1, <1>2, <1>3, <1>4, <1>5 DEF Worker

LEMMA AnyMapStep ==
    ASSUME Inv, [Next]_vars
    PROVE  MapStep /\ mapCache' \in [Maps -> MapObjects]
<1>1. map \in [Maps -> MapObjects] /\ mapCache \in [Maps -> MapObjects]
  BY DEF Inv, TypeOK
<1>2. CASE UNCHANGED <<map, mapCache>>
  BY <1>1, <1>2, SameMaps
<1>3. CASE Restart
  BY <1>1, <1>3, SameMaps DEF Restart, kube
<1>4. ASSUME NEW m \in Maps, SyncMap(m) PROVE MapStep /\ mapCache' \in [Maps -> MapObjects]
  BY <1>1, <1>4, SameMaps DEF SyncMap, kube
<1>5. ASSUME NEW m \in Maps,
             DeleteMap(m) \/ GarbageCollect(m) \/ MapApplied(m) \/ MapTerminating(m)
             \/ MapFinalizer(m)
      PROVE  MapStep /\ mapCache' \in [Maps -> MapObjects]
  <2>1. UNCHANGED mapCache
    BY <1>5 DEF DeleteMap, GarbageCollect, MapApplied, MapTerminating, MapFinalizer, seen
  <2> QED
    BY <1>1, <1>5, <2>1, OthersMapStep
<1>6. CASE Worker
  BY <1>1, <1>6, WorkerMaps
<1>7. CASE UNCHANGED vars
  BY <1>2, <1>7 DEF vars, kube, seen
<1> QED
  BY <1>2, <1>3, <1>4, <1>5, <1>6, <1>7, MapsKept DEF Next

LEMMA InitInv == Init => Inv
<1> SUFFICES ASSUME Init PROVE Inv
  OBVIOUS
<1>1. Wan("new", {}) \in WanObjects /\ ~Wan("new", {}).fin
      /\ \A m \in Maps : Wan("new", {}).st[m] = "none"
  BY NewWan DEF Wan
<1>2. TypeOK
  BY <1>1, MapFields, IdleFields DEF Init, TypeOK, Publishers
<1>3. \A w \in Wans : StatusInv(w)
  <2>1. \A w \in Wans : wan[w] = Wan("new", {})
    BY DEF Init
  <2> QED
    BY <1>1, <2>1 DEF StatusInv, Published
<1>4. WorkerInv
  BY IdleFields DEF Init, WorkerInv
<1> QED
  BY <1>2, <1>3, <1>4 DEF Inv

LEMMA NextInv == Inv /\ [Next]_vars => Inv'
<1> SUFFICES ASSUME Inv, [Next]_vars PROVE Inv'
  OBVIOUS
<1>1. /\ rec' \in Workers /\ pub' \in [Wans -> [Maps -> Publishers]] /\ WorkerInv'
      /\ wan' \in [Wans -> WanObjects] /\ wanCache' \in [Wans -> WanObjects]
      /\ \A w \in Wans : StatusInv(w)'
  BY AnyStep DEF StepInv, Preserved
<1>2. map' \in [Maps -> MapObjects] /\ mapCache' \in [Maps -> MapObjects]
  BY AnyMapStep DEF MapStep
<1>3. TypeOK'
  BY <1>1, <1>2 DEF TypeOK
<1> QED
  BY <1>1, <1>3 DEF Inv

----------------------------------------------------------------------------
(* The theorems.                                                           *)

\* The invariant holds at all times.
THEOREM Inductive == Spec => []Inv
BY InitInv, NextInv, PTL DEF Spec

\* The status of a WanReplication loses the entry of a publisher, whether
\* stopWanReplicationMap, deleteLeftoverMapsFromStatus, a patch of the worker or
\* a user takes it away, only when that publisher was stopped and its queue
\* cleared.
THEOREM Remembered == Spec => NeverForgotten
<1>1. ASSUME Inv, [Next]_vars
      PROVE  \A w \in Wans, m \in Maps :
                 Published(wan[w].st[m]) /\ ~Published(wan'[w].st[m]) => pub[w][m] = "cleared"
  BY <1>1, AnyStep DEF StepInv, Preserved, Kept
<1> QED
  BY <1>1, Inductive, PTL DEF Spec, NeverForgotten

\* A Map loses WanRepMapFinalizer only when the WanReplication whose worker
\* takes it away has cleared the queue of its publisher.
THEOREM ReleasedWhenCleared ==
    Spec => [][\A m \in Maps : map[m].wanFin /\ ~map'[m].wanFin
                                   => pub[rec.name][m] = "cleared"]_vars
<1>1. ASSUME Inv, [Next]_vars
      PROVE  \A m \in Maps : map[m].wanFin /\ ~map'[m].wanFin => pub[rec.name][m] = "cleared"
  BY <1>1, AnyMapStep DEF MapStep, Released, w0
<1> QED
  BY <1>1, Inductive, PTL DEF Spec

\* With one WanReplication a Map loses WanRepMapFinalizer only when nothing
\* replicates it any more.  With several on one Map the code does not promise
\* that: each of them adds and removes the same finalizer.
THEOREM Stopped ==
    ASSUME \A v, w \in Wans : v = w
    PROVE  Spec => StoppedBeforeReleased
<1>1. ASSUME Inv, [Next]_vars
      PROVE  \A m \in Maps : map[m].wanFin /\ ~map'[m].wanFin
                                 => \A w \in Wans : pub[w][m] # "running"
  <2>1. w0 \in Wans
    BY <1>1, Types DEF Inv
  <2> QED
    BY <1>1, <2>1, AnyMapStep DEF MapStep, Released
<1> QED
  BY <1>1, Inductive, PTL DEF Spec, StoppedBeforeReleased

============================================================================
