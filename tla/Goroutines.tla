----------------------------- MODULE Goroutines -----------------------------
(***************************************************************************)
(* The work that goes on in goroutines while Reconcile returns: the        *)
(* transfer of a backup, or the submission and the polling of a Jet job.   *)
(* They share no state, so every behaviour is of one of them.              *)
(***************************************************************************)
EXTENDS BackupTransfer, Sequences

CONSTANTS
    JetEvents, JetRuns, JetCalls,  \* the bounds of JetJob
    UserStates,                    \* the states the user wants a job in
    HzCourse                       \* the states its Hazelcast goes through

VARIABLES which, job, cache, queued, hz, runs, calls, checker, summaries, rec,
          mixed, edits, mishaps

jetVars == <<job, cache, queued, hz, runs, calls, checker, summaries, rec, mixed, edits, mishaps>>
allVars == <<which, vars, jetVars>>

Jet == INSTANCE JetJob WITH
    todo <- summaries, MaxEvents <- JetEvents, MaxRuns <- JetRuns, MaxCalls <- JetCalls

\* The states are those the API has, and the cluster is created once.
ASSUME JetAssumption ==
    /\ JetEvents \in Nat
    /\ UserStates \subseteq Jet!States \ {"none"}
    /\ HzCourse \in Seq(Jet!HzStates) /\ HzCourse # <<>>
    /\ \A k \in 1 .. Len(HzCourse) - 1 : Jet!Follows(HzCourse[k], HzCourse[k + 1])

EitherInit ==
    /\ which \in {"transfer", "jet"}
    /\ Init /\ (which = "jet" => external)
    /\ Jet!Init

TransferStep(A) == which = "transfer" /\ A /\ UNCHANGED <<which, jetVars>>
JetStep(A) == which = "jet" /\ A /\ UNCHANGED <<which, vars>>

EitherNext == TransferStep(Next) \/ JetStep(Jet!Next)

EitherSpec == EitherInit /\ [][EitherNext]_allVars

----------------------------------------------------------------------------
(* The properties of JetJob.                                               *)

\* A JetJob that is gone has stopped its job, unless it never learned its id
\* (executeFinalizer, stopJetExecution).
JobGoneIsStopped == which = "jet" => Jet!GoneIsStopped

\* As long as a job is stored for the checker, the checker polls: neither the
\* end of its last job nor its start by two goroutines loses it (runChecker).
CheckerRuns == which = "jet" => Jet!CheckerRuns

\* Once the user stops, the job is in the state the JetJob wants, also after it
\* was suspended and resumed, or the JetJob is gone (applyJetJob, and the
\* requeue of what could not be done yet).
JobObeyed == <>[](which = "jet" => Jet!ObeyedOrExcused)
=============================================================================
