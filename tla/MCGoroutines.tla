----------------------------- MODULE MCGoroutines -----------------------------
(***************************************************************************)
(* Goroutines for TLC, with the fairness of its two specifications.        *)
(***************************************************************************)
EXTENDS Goroutines

MCCourse == <<"missing", "up">>

\* The worker, the caches and the goroutines go on, and the cluster gets ready;
\* members and agents may hang.
EitherFairSpec ==
    /\ EitherSpec
    /\ WF_vars(which = "transfer" /\ Main)
    /\ WF_jetVars(which = "jet" /\ Jet!Worker)
    /\ WF_jetVars(which = "jet" /\ Jet!Ticker)
    /\ WF_jetVars(which = "jet" /\ (Jet!SyncCache \/ Jet!Comes \/ Jet!Goroutines))
    /\ \A m \in Members :
           /\ WF_vars(which = "transfer" /\ Goroutine(m))
           /\ SF_vars(which = "transfer" /\ Pause(m) /\ gpc'[m] = GivenUp)
===============================================================================
