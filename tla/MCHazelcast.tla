---------------------------- MODULE MCHazelcast ----------------------------
(* Instances of Hazelcast for TLC.                                         *)
EXTENDS Hazelcast

Smart(n) == [size |-> n, smart |-> TRUE, kind |-> "enterprise"]

\* Scaling up and down with one service per pod.
ScaledSpecs == {Smart(1), Smart(2)}

\* One cluster of each kind, not exposed.
KindSpecs == {[size |-> 1, smart |-> FALSE, kind |-> k] : k \in Kinds}

============================================================================
