----------------------------- MODULE MCClusters -----------------------------
(***************************************************************************)
(* Three instances of Hazelcast for TLC, of which every behaviour has one: *)
(* clusters of every kind with a lagging cache of cluster roles and a      *)
(* cluster with a resource that depends on it, which are deleted, and a    *)
(* cluster that is scaled.  The constants are those of the first: in the   *)
(* others no cache of cluster roles lags, and none is missed.              *)
(***************************************************************************)
EXTENDS MCHazelcast

CONSTANT Map

VARIABLE which

D == INSTANCE Hazelcast WITH
    Specs <- {[size |-> 1, smart |-> FALSE, kind |-> "enterprise"]},
    Dependents <- {Map}, Lagging <- {}

S == INSTANCE Hazelcast WITH
    Specs <- ScaledSpecs, MaxSize <- 2, MaxEdits <- 1, Lagging <- {}, Deleted <- FALSE

all == <<vars, which>>

AllInit ==
    \/ which = "kinds" /\ Init
    \/ which = "depended" /\ D!Init
    \/ which = "scaled" /\ S!Init

Of(w, A) == which = w /\ A /\ UNCHANGED which

AllNext == Of("kinds", Next) \/ Of("depended", D!Next) \/ Of("scaled", S!Next)

\* One of the three takes a step.
OneOf(A, B, C) == Of("kinds", A) \/ Of("depended", B) \/ Of("scaled", C)

AllSpec ==
    /\ AllInit /\ [][AllNext]_all
    /\ WF_all(OneOf(Reconcile, D!Reconcile, S!Reconcile))
    /\ WF_all(OneOf(Worker, D!Worker, S!Worker))
    /\ WF_all(OneOf(SyncCache, D!SyncCache, S!SyncCache))
    /\ WF_all(OneOf(SyncSts, D!SyncSts, S!SyncSts))
    /\ WF_all(OneOf(SyncServices, D!SyncServices, S!SyncServices))
    /\ WF_all(Of("depended", D!SyncDependents))
    /\ WF_all(Of("kinds", SyncRoles))
    /\ WF_all(OneOf(StsReady, D!StsReady, S!StsReady))
    /\ WF_all(Of("scaled", S!AssignAddress))
    /\ WF_all(Of("depended", D!CollectGarbage) \/ Of("kinds", CollectGarbage))
    /\ WF_all(OneOf(Reconnect, D!Reconnect, S!Reconnect))
    /\ WF_all(Of("depended", D!FinishDependent(Map)))

============================================================================
