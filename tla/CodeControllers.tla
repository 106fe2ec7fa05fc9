-------------------------- MODULE CodeControllers --------------------------
(***************************************************************************)
(* The controllers of what the members run for users: the snapshots of Jet *)
(* jobs, and the namespaces with user code.                                *)
(***************************************************************************)
EXTENDS ControllerState, Naturals

CONSTANTS
    SnapshotEvents, NamespaceEvents, \* how many edits, failed calls and
                                     \* restarts each one meets
    Versions                         \* of UserCodeNamespace

ASSUME VersionsAssumption == Versions \subseteq Nat

Snapshot == INSTANCE JetJobSnapshot WITH
    jjs <- object, restarts <- flag,
    jetjob <- v1, exporting <- v2, task <- v3, exports <- v4,
    MaxEvents <- SnapshotEvents

Namespace == INSTANCE UserCodeNamespace WITH
    ucn <- object, hz <- v1, bundle <- v2, added <- v3, applied <- v4,
    MaxEvents <- NamespaceEvents

SnapshotInit  == which = "snapshot" /\ Snapshot!Init /\ v5 = 0
NamespaceInit == which = "namespace" /\ Namespace!Init /\ flag = FALSE /\ v5 = 0

\* A step of the controller of this behaviour.
SnapshotStep(A)  == which = "snapshot" /\ A /\ UNCHANGED <<which, v5>>
NamespaceStep(A) == which = "namespace" /\ A /\ UNCHANGED <<which, flag, v5>>

CodeInit == SnapshotInit \/ NamespaceInit
CodeNext == SnapshotStep(Snapshot!Next) \/ NamespaceStep(Namespace!Next)
CodeSpec == CodeInit /\ [][CodeNext]_vars

----------------------------------------------------------------------------
(* The properties of the controllers, in their behaviours.                 *)

\* Without a restart a snapshot is exported at most once for each resource,
\* whatever the cache shows and the writes do (exportSnapshot).
ExportedOnce == which = "snapshot" => Snapshot!ExportedOnce

\* A namespace that is Success since its last edit was applied, or once nothing is
\* left to do, is on every member in the version of its spec (downloadBundle,
\* applyConfig, InsertLastSuccessfullyAppliedSpec).
SuccessIsEverywhere == which = "namespace" => Namespace!SuccessIsEverywhere

============================================================================
