-------------------------- MODULE MCDataStructures --------------------------
(***************************************************************************)
(* The controller of the data structures and the one of the maps, for TLC: *)
(* every behaviour is of one of them.  They share the names of what they   *)
(* have in common, and implement the same abstract specification.          *)
(***************************************************************************)
EXTENDS DataStructure

VARIABLES which, event

both == <<vars, which, event>>

Map == INSTANCE Map WITH map <- ds

BothInit ==
    \/ which = "ds" /\ Init /\ event = FALSE
    \/ which = "map" /\ Map!Init /\ secretCache = None

DsStep(A)  == which = "ds" /\ A /\ UNCHANGED <<which, event>>
MapStep(A) == which = "map" /\ A /\ UNCHANGED <<which, secretCache>>

BothNext == DsStep(Next) \/ MapStep(Map!Next)

BothSpec ==
    /\ BothInit /\ [][BothNext]_both
    /\ WF_both(DsStep(Reconcile) \/ MapStep(Map!Reconcile))
    /\ WF_both(DsStep(Worker) \/ MapStep(Map!Worker))
    /\ WF_both(DsStep(SyncCache) \/ MapStep(Map!SyncCache))
    /\ WF_both(DsStep(SyncSecret))
    /\ WF_both(DsStep(ResyncCache))
    /\ WF_both(DsStep(BuildConfig) \/ MapStep(Map!BuildConfig))
    /\ WF_both(DsStep(WriteSecret) \/ MapStep(Map!WriteSecret))
    /\ WF_both(DsStep(ClusterUp) \/ MapStep(Map!ClusterUp))

----------------------------------------------------------------------------
(* The spec of a data structure is protected as a whole: it is the field   *)
(* of a map that may not be updated.                                       *)

Spec1(n) == IF n = None THEN Map!None ELSE [Map!FirstSpec EXCEPT !.fixed = n - 1]

BothApplied == INSTANCE AppliedConfig WITH
    Specs <- Map!Specs, None <- Map!None, Admissible <- Map!Admissible,
    live <- ds.live,
    wanted  <- IF which = "map" THEN ds.spec ELSE Spec1(ds.spec),
    applied <- IF which = "map" THEN ds.ann ELSE Spec1(ds.ann)

\* The controllers implement AppliedConfig: no stale copy, swallowed conflict,
\* failed call or restart declares applied what the user does not want at that
\* moment or what may not follow (updateLastSuccessfulConfiguration and its DS
\* variant, ValidateMapSpec, ValidateSpecUpdate), and what may be applied is
\* applied in the end.
ImplementsAppliedConfig == BothApplied!FairSpec

\* What is taken for applied every member has got a configuration of, or has
\* started after that from the Secret (sendCodecRequest, ReconcileMapConfig:
\* the members with Success in the status are left out).
BothAppliedOnMembers == IF which = "map" THEN Map!AppliedOnMembers ELSE AppliedOnMembers

\* In the end the object is gone, or the Secret holds what was applied and the
\* state tells whether that is the spec (finalSetupDS, Reconcile of the maps,
\* filterPersistedMaps).
BothConverge == <>[](IF which = "map" THEN Map!Converged ELSE Converged)

============================================================================
