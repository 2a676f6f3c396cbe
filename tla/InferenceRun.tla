---------------------------- MODULE InferenceRun ----------------------------
(***************************************************************************)
(* An inference run: one model against several source datasets.  What      *)
(* RunOfParts leaves open - completion, retry, loss - the way inferencer,  *)
(* InferenceService and finalizeInferenceOnLost do it, and deletion.       *)
(***************************************************************************)
EXTENDS RunOfParts

RETRYABLE_RUN == {"PARTIALLY_FAILED", "FAILED", "CANCELLED", "STOPPED"}

RETRYABLE_DATASET == {"FAILED", "STOPPED", "CANCELLED"}

\* _complete: dataset and ZIP in one transaction, only from RUNNING.
CompleteDataset(p, k) ==
    /\ executions[p][k].phase = "done"
    /\ partStatus[p] = "RUNNING"
    /\ WorkerTransacts(p, k, "COMPLETED", "SUCCEEDED")
    /\ UNCHANGED <<runStatus, partStatus, artifact, retries>>

\* The dataset left RUNNING: a stop is honoured, anything else is an error.
DatasetRejected(p, k) ==
    /\ executions[p][k].phase = "done"
    /\ partStatus[p] # "RUNNING"
    /\ GoTo(p, k, IF partStatus[p] = "STOPPING" THEN "stop" ELSE "error")
    /\ UNCHANGED <<runStatus, partStatus, artifact, open, retries>>

\* Mutant of RetryDatasets: every dataset again, as for a benchmark.
RetryAllDatasets ==
    /\ runStatus \in RETRYABLE_RUN
    /\ RetryParts(Parts)
    /\ UNCHANGED artifact

\* retry(): the datasets that did not complete.
RetryDatasets ==
    /\ runStatus \in RETRYABLE_RUN
    /\ LET D == {p \in Parts : partStatus[p] \in RETRYABLE_DATASET}
       IN  D # {} /\ RetryParts(D)
    /\ UNCHANGED artifact

\* deleteRun: what is QUEUED is cancelled with it, the ZIPs are removed.
DeleteRun ==
    /\ runStatus \notin {"RUNNING", "STOPPING", "DELETED"}
    /\ \A p \in Parts : ~PartLocked(p)
    /\ runStatus' = "DELETED"
    /\ partStatus' = QueuedCancelled
    /\ artifact' = [p \in Parts |-> 0]
    /\ UNCHANGED <<executions, open, retries>>

\* Mutant of LoseDataset: a dataset that is STOPPING is left alone, as for a benchmark.
LoseNotStopping(p, k) ==
    \/ /\ partStatus[p] \in {"QUEUED", "RUNNING"}
       /\ LoseAndEnd(p, k, "FAILED", Verdict(Seen(p, "FAILED")))
    \/ /\ partStatus[p] \notin {"QUEUED", "RUNNING"}
       /\ LoseOnly(p, k)

\* finalizeInferenceOnLost.  The status is read first, without a lock: a stop that
\* commits before the update finds the dataset FAILED all the same.
LoseDataset(p, k) ==
    \/ /\ partStatus[p] \in {"QUEUED", "RUNNING", "STOPPING"}
       /\ \E to \in IF partStatus[p] = "STOPPING" THEN {"STOPPED", "FAILED"} ELSE {"FAILED"} :
             LoseAndEnd(p, k, to, Verdict(Seen(p, to)))
    \/ /\ partStatus[p] \in ENDED
       /\ LoseOnly(p, k)

\* Mutant of DatasetLossCommits: a run that is stopping is left to its workers.
LossCommitsRunning == \E t \in open : t.by = "scheduler" /\ Commit(t, {"RUNNING"})

DatasetLossCommits == \E t \in open : t.by = "scheduler" /\ Commit(t, {"RUNNING", "STOPPING"})

InferenceNext ==
    \/ StopRunning \/ CancelQueued \/ RetryDatasets \/ DeleteRun
    \/ \E a \in Attempts :
          LET p == a[1] k == a[2]
          IN  Deliver(p, k) \/ Work(p, k) \/ Fault(p, k)
                 \/ CompleteDataset(p, k) \/ DatasetRejected(p, k) \/ LoseDataset(p, k)
    \/ WorkerCommits \/ DatasetLossCommits
=============================================================================
