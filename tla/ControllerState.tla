-------------------------- MODULE ControllerState --------------------------
(***************************************************************************)
(* The state of the controllers that share none with another one: every    *)
(* behaviour is of one of them.  The variables are the ones they all have, *)
(* and five that stand for the others of each.                             *)
(***************************************************************************)

CONSTANTS
    Members        \* the members of the cluster

VARIABLES which, object, cache, queued, rec, flag, events, v1, v2, v3, v4, v5

slots == <<v1, v2, v3, v4, v5>>
vars  == <<which, object, cache, queued, rec, flag, events, slots>>

============================================================================
