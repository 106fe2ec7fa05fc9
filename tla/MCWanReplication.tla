-------------------------- MODULE MCWanReplication --------------------------
(* Instances of WanReplication for TLC.                                    *)
EXTENDS WanReplication

CONSTANTS m1

\* Users name the Map or nothing.
MapSpecs == {{m1}, {}}

\* Users name the Hazelcast resource, which stands for its Maps, or nothing.
HzSpecs == {{Hz}, {}}

============================================================================
