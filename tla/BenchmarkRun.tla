---------------------------- MODULE BenchmarkRun ----------------------------
(***************************************************************************)
(* A benchmark run: an evaluation for each pair of model and dataset.  What *)
(* RunOfParts leaves open - completion, retry, loss - the way Benchmarker, *)
(* BenchmarksService and finalizeBenchmarkOnLost do it.                    *)
(***************************************************************************)
EXTENDS RunOfParts

TERMINAL_STATUSES == FINAL \cup {"CANCELLED"}

\* Mutant of CompleteEvaluation: the evaluation is committed before its metrics are stored.
CompleteFirst(p, k) ==
    /\ executions[p][k].phase = "done"
    /\ partStatus[p] = "RUNNING"
    /\ ~PartLocked(p)
    /\ partStatus' = [partStatus EXCEPT ![p] = "COMPLETED"]
    /\ GoTo(p, k, "error")
    /\ UNCHANGED <<runStatus, artifact, open, retries>>

\* _complete: the metrics artifact, then the evaluation, only from RUNNING.
CompleteEvaluation(p, k) ==
    /\ executions[p][k].phase = "done"
    /\ artifact[p] = 0
    /\ partStatus[p] = "RUNNING"
    /\ WorkerTransacts(p, k, "COMPLETED", "SUCCEEDED")
    /\ UNCHANGED <<runStatus, partStatus, artifact, retries>>

\* uq_primary_artifact_per_owner refuses a second metrics artifact, or the
\* evaluation left RUNNING: an error, also when it is STOPPING.
EvaluationRejected(p, k) ==
    /\ executions[p][k].phase = "done"
    /\ artifact[p] # 0 \/ partStatus[p] # "RUNNING"
    /\ GoTo(p, k, "error")
    /\ UNCHANGED <<runStatus, partStatus, artifact, open, retries>>

\* retry(): every evaluation again.  The metrics columns are cleared, the metrics
\* artifact stays.
RetryEvaluations ==
    /\ runStatus \in TERMINAL_STATUSES
    /\ RetryParts(Parts)
    /\ UNCHANGED artifact

\* The rule of the scheduler, to which a STOPPED evaluation is pending.
LostVerdict(ps) ==
    IF \E p \in Parts : ps[p] \notin {"COMPLETED", "FAILED", "CANCELLED"} THEN "none"
    ELSE IF \A p \in Parts : ps[p] # "FAILED" THEN "COMPLETED"
    ELSE IF \E p \in Parts : ps[p] = "COMPLETED" THEN "PARTIALLY_FAILED"
    ELSE "FAILED"

\* finalizeBenchmarkOnLost: an evaluation that is STOPPING is left alone.
LoseEvaluation(p, k) ==
    \/ /\ partStatus[p] \in {"QUEUED", "RUNNING"}
       /\ LoseAndEnd(p, k, "FAILED", LostVerdict(Seen(p, "FAILED")))
    \/ /\ partStatus[p] \notin {"QUEUED", "RUNNING"}
       /\ LoseOnly(p, k)

EvaluationLossCommits == \E t \in open : t.by = "scheduler" /\ Commit(t, {"RUNNING"})

BenchmarkNext ==
    \/ StopRunning \/ CancelQueued \/ RetryEvaluations
    \/ \E a \in Attempts :
          LET p == a[1] k == a[2]
          IN  Deliver(p, k) \/ Work(p, k) \/ Fault(p, k)
                 \/ CompleteEvaluation(p, k) \/ EvaluationRejected(p, k) \/ LoseEvaluation(p, k)
    \/ WorkerCommits \/ EvaluationLossCommits
=============================================================================
