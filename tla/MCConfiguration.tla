--------------------------- MODULE MCConfiguration ---------------------------
(***************************************************************************)
(* What the operator computes from a spec, for TLC: the pods of a cluster  *)
(* and the messages to its members.  Every behaviour is of one of the two. *)
(***************************************************************************)
EXTENDS ClusterPods, Protocol

VARIABLE sends      \* whether this is a behaviour of messages

both == <<vars, messages, sends>>

Endpoint(n, p, k) == [name |-> n, port |-> p, ports |-> k]

\* None, two side by side, two that overlap by one port (in both orders), two
\* with one name, one without a name, and one on the port of the members.
MCNetworks ==
    {<<>>,
     <<Endpoint("b", 5712, 1), Endpoint("a", 5710, 2)>>,
     <<Endpoint("a", 5710, 2), Endpoint("b", 5711, 1)>>,
     <<Endpoint("b", 5711, 1), Endpoint("a", 5710, 2)>>,
     <<Endpoint("a", 5710, 1), Endpoint("a", 5720, 1)>>,
     <<Endpoint("a", 5710, 1), Endpoint("", 5720, 1)>>,
     <<Endpoint("a", 5701, 2)>>}

\* A newer member appends a string, or a structure that holds a list.
MCExtra == {<<DataFrame("extra")>>,
            <<BeginFrame, DataFrame("extra"), BeginFrame, DataFrame("extra"), EndFrame, EndFrame>>}

\* The messages do not depend on the cluster: with them it is one of its
\* initial states.
BothInit ==
    /\ Init /\ NoMessages
    /\ \/ sends = FALSE
       \/ sends = TRUE /\ Tiered(spec)

BothNext == \/ ~sends /\ Next /\ UNCHANGED <<messages, sends>>
            \/ sends /\ Exchange /\ UNCHANGED <<vars, sends>>

BothSpec == BothInit /\ [][BothNext]_both
============================================================================
