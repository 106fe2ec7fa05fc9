--------------------------- MODULE AppliedConfig ---------------------------
(***************************************************************************)
(* What the controllers of the data structures promise, whatever happens   *)
(* to their caches, calls and workers: a spec is declared applied, in one  *)
(* step, only while it is the one the user wants and only if it may follow *)
(* the one that was applied before; and what may be applied is applied.    *)
(***************************************************************************)
CONSTANTS
    Specs,             \* the specs
    None,              \* the annotation of an object that was never applied
    Admissible(_, _)   \* whether the second may be applied after the first

VARIABLES
    live,              \* whether the object exists
    wanted,            \* its spec
    applied            \* the last spec that was declared applied, or None

vars == <<live, wanted, applied>>

Init ==
    /\ live = TRUE
    /\ wanted \in Specs
    /\ applied = None

Edit ==
    /\ live
    /\ wanted' \in Specs
    /\ UNCHANGED <<live, applied>>

Apply ==
    /\ live /\ Admissible(applied, wanted)
    /\ applied' = wanted
    /\ UNCHANGED <<live, wanted>>

Remove ==
    /\ live
    /\ live' = FALSE
    /\ wanted' \in Specs /\ applied' = None

Next == Edit \/ Apply \/ Remove

Spec == Init /\ [][Next]_vars

FairSpec == Spec /\ WF_vars(Apply)

============================================================================
