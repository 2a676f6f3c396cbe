---------------------------- MODULE TrainingJobs ----------------------------
(***************************************************************************)
(* The training pipeline: the rows of training_jobs and job_executions in  *)
(* PostgreSQL, and the three programs that write them - the API (create,   *)
(* retry, stop), the training workers (claim, train, register, fail) and   *)
(* the scheduler (reconcile, retry, promote).  A step is one committed     *)
(* database transaction, or one decision a worker takes from what it read  *)
(* before it opens the next one.                                           *)
(*                                                                         *)
(* Delivery of dispatch events is abstracted here: an ASSIGNED execution   *)
(* may be handed to a worker at any time, and to one worker at a time      *)
(* (module Dispatch takes the outbox and the stream apart).                *)
(***************************************************************************)
EXTENDS Naturals, Sequences, FiniteSets

CONSTANTS
    Jobs,                \* training_jobs.id
    MaxTrainingAttempts, \* MAX_TRAINING_ATTEMPTS of the scheduler
    NumWorkers,          \* consumers of the training-worker group
    MaxRetries,          \* bound: how often users call retry() in a behaviour
    HeartbeatsMayFail    \* TRUE: a heartbeat thread may miss the stale timeout

ASSUME ConstantsAssumption ==
    /\ MaxTrainingAttempts \in Nat \ {0}
    /\ NumWorkers \in Nat
    /\ MaxRetries \in Nat
    /\ HeartbeatsMayFail \in BOOLEAN

VARIABLES
    jobStatus,    \* training_jobs.status ("ABSENT" before the insert)
    failureCode,  \* training_jobs.failure_code
    resultModel,  \* training_jobs.result_model_id: the attempt that made it, or 0
    dependsOn,    \* training_job_dependencies
    executions,   \* job_executions of the job in attempt order, each with the
                  \* progress of the worker process that claimed it
    bestModel,    \* the attempt whose BEST_MODEL artifact and model row exist, or 0
    reconciling,  \* the reconcile transaction in flight (at most one)
    picked,       \* rest of the candidate list of retryFailedTrainingJobs
    retries       \* calls of retry() so far, bounded by MaxRetries

vars == <<jobStatus, failureCode, resultModel, dependsOn, executions,
          bestModel, reconciling, picked, retries>>

-----------------------------------------------------------------------------
TERMINAL == {"COMPLETED", "FAILED", "CANCELLED", "STOPPED"}

Active == {"PREPARING", "RUNNING", "STOPPING"}

JobStatus == TERMINAL \cup Active \cup {"ABSENT", "QUEUED", "BLOCKED"}

\* CLAIMED is overwritten by RUNNING inside the claim transaction and the
\* trainer never writes PREPARING to an execution.
ExecStatus == {"ASSIGNED", "RUNNING", "SUCCEEDED", "FAILED", "CANCELLED",
               "STOPPED", "LOST"}

RETRIABLE_FAILURE_CODES == {"STORAGE_TEMPORARY_FAILURE", "DATABASE_CONNECTION_FAILURE",
                            "NETWORK_TIMEOUT", "REDIS_TIMEOUT"}

FailureCode == RETRIABLE_FAILURE_CODES \cup
               {"none", "TRAINING_FAILED", "EXECUTION_LOST", "DEPENDENCY_FAILED"}

\* Where Trainer.run stands for one execution: not claimed; found the job not
\* QUEUED; claimed; in _train; TrainingStopped raised; in _store_and_register
\* or before _complete; an exception on its way to _fail; no process left.
Phase == {"idle", "refused", "claimed", "training", "stopRaised",
          "registering", "errorRaised", "storageErrorRaised", "gone"}

Execution == [status: ExecStatus, phase: Phase]

Init ==
    /\ jobStatus = [j \in Jobs |-> "ABSENT"]
    /\ failureCode = [j \in Jobs |-> "none"]
    /\ resultModel = [j \in Jobs |-> 0]
    /\ dependsOn = [j \in Jobs |-> {}]
    /\ executions = [j \in Jobs |-> << >>]
    /\ bestModel = [j \in Jobs |-> 0]
    /\ reconciling = {}
    /\ picked = {}
    /\ retries = 0

-----------------------------------------------------------------------------
(* Helpers *)

\* A new job_executions row: max(attempt_number) + 1, status ASSIGNED, written
\* in the same transaction as its dispatch event.
Dispatch(j) ==
    executions' = [executions EXCEPT ![j] =
                       Append(@, [status |-> "ASSIGNED", phase |-> "idle"])]

SetExecution(j, k, st, ph) ==
    executions' = [executions EXCEPT ![j] =
                       [@ EXCEPT ![k] = [status |-> st, phase |-> ph]]]

SetPhase(j, k, ph) == SetExecution(j, k, executions[j][k].status, ph)

InPhase(j, k, P) == k \in DOMAIN executions[j] /\ executions[j][k].phase \in P

DepsCompleted(D) == \A d \in D : jobStatus[d] = "COMPLETED"

\* The job ends FAILED with this failure_code.
FailJob(j, code) ==
    /\ jobStatus' = [jobStatus EXCEPT ![j] = "FAILED"]
    /\ failureCode' = [failureCode EXCEPT ![j] = code]

\* The reconcile transaction holds the row lock of the execution it marked.
RowLocked(j, k) == \E r \in reconciling : r.job = j /\ r.attempt = k

Busy == UNION { {j} \X {k \in DOMAIN executions[j] : InPhase(j, k, Phase \ {"idle", "gone"})}
                  : j \in Jobs }

WorkerFree == Cardinality(Busy) < NumWorkers

-----------------------------------------------------------------------------
(* The API: one transaction each, serialised by the lock on the job row *)

\* create() and clone(): the row is inserted, dispatched when every dependency
\* is COMPLETED and BLOCKED otherwise.  Dependencies are jobs that exist.
Create(j, D) ==
    /\ jobStatus[j] = "ABSENT"
    /\ \A d \in D : jobStatus[d] # "ABSENT"
    /\ dependsOn' = [dependsOn EXCEPT ![j] = D]
    /\ \/ /\ DepsCompleted(D)
          /\ jobStatus' = [jobStatus EXCEPT ![j] = "QUEUED"]
          /\ Dispatch(j)
       \/ /\ ~DepsCompleted(D)
          /\ jobStatus' = [jobStatus EXCEPT ![j] = "BLOCKED"]
          /\ UNCHANGED executions
    /\ UNCHANGED <<failureCode, resultModel, bestModel, reconciling, picked, retries>>

\* Mutant of Retry: the job is requeued on the strength of its old dispatch.
RetryWithoutDispatch(j) ==
    /\ retries < MaxRetries
    /\ jobStatus[j] \in TERMINAL
    /\ executions[j] # << >>
    /\ retries' = retries + 1
    /\ jobStatus' = [jobStatus EXCEPT ![j] = "QUEUED"]
    /\ failureCode' = [failureCode EXCEPT ![j] = "none"]
    /\ resultModel' = [resultModel EXCEPT ![j] = 0]
    /\ UNCHANGED <<dependsOn, executions, bestModel, reconciling, picked>>

\* retry(): an in-place restart of a terminal job.  The last attempt is read
\* with executeTakeFirstOrThrow, so a job that never had one is refused.
Retry(j) ==
    /\ retries < MaxRetries
    /\ jobStatus[j] \in TERMINAL
    /\ executions[j] # << >>
    /\ retries' = retries + 1
    /\ failureCode' = [failureCode EXCEPT ![j] = "none"]
    /\ resultModel' = [resultModel EXCEPT ![j] = 0]
    /\ \/ /\ DepsCompleted(dependsOn[j])
          /\ jobStatus' = [jobStatus EXCEPT ![j] = "QUEUED"]
          /\ Dispatch(j)
       \/ /\ ~DepsCompleted(dependsOn[j])
          /\ jobStatus' = [jobStatus EXCEPT ![j] = "BLOCKED"]
          /\ UNCHANGED executions
    /\ UNCHANGED <<dependsOn, bestModel, reconciling, picked>>

\* requestStop(): only a RUNNING job is stopped through its worker, an earlier
\* one is cancelled at once.
RequestStop(j) ==
    /\ \/ /\ jobStatus[j] = "RUNNING"
          /\ jobStatus' = [jobStatus EXCEPT ![j] = "STOPPING"]
       \/ /\ jobStatus[j] \in {"QUEUED", "PREPARING", "BLOCKED"}
          /\ jobStatus' = [jobStatus EXCEPT ![j] = "CANCELLED"]
    /\ UNCHANGED <<failureCode, resultModel, dependsOn, executions, bestModel,
                   reconciling, picked, retries>>

-----------------------------------------------------------------------------
(* Trainer.run *)

\* The claim transaction: ASSIGNED -> CLAIMED -> RUNNING and QUEUED -> PREPARING
\* together.
Claim(j, k) ==
    /\ InPhase(j, k, {"idle"})
    /\ executions[j][k].status = "ASSIGNED"
    /\ WorkerFree
    /\ jobStatus[j] = "QUEUED"
    /\ jobStatus' = [jobStatus EXCEPT ![j] = "PREPARING"]
    /\ SetExecution(j, k, "RUNNING", "claimed")
    /\ UNCHANGED <<failureCode, resultModel, dependsOn, bestModel, reconciling,
                   picked, retries>>

\* The job is not QUEUED: the claim is rolled back ...
ClaimRefused(j, k) ==
    /\ InPhase(j, k, {"idle"})
    /\ executions[j][k].status = "ASSIGNED"
    /\ WorkerFree
    /\ jobStatus[j] # "QUEUED"
    /\ SetPhase(j, k, "refused")
    /\ UNCHANGED <<jobStatus, failureCode, resultModel, dependsOn, bestModel,
                   reconciling, picked, retries>>

\* ... and a second transaction cancels the execution, whatever the job is by now.
CancelRefused(j, k) ==
    /\ InPhase(j, k, {"refused"})
    /\ SetExecution(j, k, "CANCELLED", "gone")
    /\ UNCHANGED <<jobStatus, failureCode, resultModel, dependsOn, bestModel,
                   reconciling, picked, retries>>

\* PREPARING -> RUNNING, guarded by the status of the job alone; otherwise
\* TRAINING_STATE_LOST is raised.
StartRunning(j, k) ==
    /\ InPhase(j, k, {"claimed"})
    /\ \/ /\ jobStatus[j] = "PREPARING"
          /\ jobStatus' = [jobStatus EXCEPT ![j] = "RUNNING"]
          /\ SetPhase(j, k, "training")
       \/ /\ jobStatus[j] # "PREPARING"
          /\ SetPhase(j, k, "errorRaised")
          /\ UNCHANGED jobStatus
    /\ UNCHANGED <<failureCode, resultModel, dependsOn, bestModel, reconciling,
                   picked, retries>>

\* _train returns best.pt, or _stop_check saw STOPPING at the end of an epoch.
\* A stop asked for after the last epoch goes unseen.
TrainEnds(j, k) ==
    /\ InPhase(j, k, {"training"})
    /\ \/ SetPhase(j, k, "registering")
       \/ jobStatus[j] = "STOPPING" /\ SetPhase(j, k, "stopRaised")
    /\ UNCHANGED <<jobStatus, failureCode, resultModel, dependsOn, bestModel,
                   reconciling, picked, retries>>

\* Any exception inside the try block; the upload of best.pt is the one place
\* that raises a retriable code.
RaiseError(j, k) ==
    /\ \/ InPhase(j, k, {"claimed", "training", "registering"}) /\ SetPhase(j, k, "errorRaised")
       \/ InPhase(j, k, {"registering"}) /\ SetPhase(j, k, "storageErrorRaised")
    /\ UNCHANGED <<jobStatus, failureCode, resultModel, dependsOn, bestModel,
                   reconciling, picked, retries>>

\* Mutant of Complete: no unique primary artifact per job.
CompleteAgain(j, k) ==
    /\ InPhase(j, k, {"registering"})
    /\ ~RowLocked(j, k)
    /\ jobStatus[j] = "RUNNING"
    /\ jobStatus' = [jobStatus EXCEPT ![j] = "COMPLETED"]
    /\ resultModel' = [resultModel EXCEPT ![j] = k]
    /\ bestModel' = [bestModel EXCEPT ![j] = k]
    /\ SetExecution(j, k, "SUCCEEDED", "gone")
    /\ UNCHANGED <<failureCode, dependsOn, reconciling, picked, retries>>

\* _complete, committed: artifact, model, job and execution in one transaction.
Complete(j, k) ==
    /\ InPhase(j, k, {"registering"})
    /\ ~RowLocked(j, k)
    /\ bestModel[j] = 0
    /\ jobStatus[j] = "RUNNING"
    /\ jobStatus' = [jobStatus EXCEPT ![j] = "COMPLETED"]
    /\ resultModel' = [resultModel EXCEPT ![j] = k]
    /\ bestModel' = [bestModel EXCEPT ![j] = k]
    /\ SetExecution(j, k, "SUCCEEDED", "gone")
    /\ UNCHANGED <<failureCode, dependsOn, reconciling, picked, retries>>

\* _complete, rolled back: the job already owns a primary artifact
\* (uq_primary_artifact_per_owner), or it left RUNNING (TRAINING_STATE_LOST).
CompleteRejected(j, k) ==
    /\ InPhase(j, k, {"registering"})
    /\ bestModel[j] # 0 \/ jobStatus[j] # "RUNNING"
    /\ SetPhase(j, k, "errorRaised")
    /\ UNCHANGED <<jobStatus, failureCode, resultModel, dependsOn, bestModel,
                   reconciling, picked, retries>>

\* Mutants of Fail: a stop on its way is taken for an end; a cancelled job is not.
FailOnlyRunning(j, k) ==
    /\ InPhase(j, k, {"errorRaised", "storageErrorRaised"})
    /\ ~RowLocked(j, k)
    /\ \/ jobStatus[j] = "RUNNING" /\ FailJob(j, "TRAINING_FAILED")
       \/ jobStatus[j] # "RUNNING" /\ UNCHANGED <<jobStatus, failureCode>>
    /\ SetExecution(j, k, "FAILED", "gone")
    /\ UNCHANGED <<resultModel, dependsOn, bestModel, reconciling, picked, retries>>

FailCancelled(j, k) ==
    /\ InPhase(j, k, {"errorRaised", "storageErrorRaised"})
    /\ ~RowLocked(j, k)
    /\ \/ jobStatus[j] # "COMPLETED" /\ FailJob(j, "TRAINING_FAILED")
       \/ jobStatus[j] = "COMPLETED" /\ UNCHANGED <<jobStatus, failureCode>>
    /\ SetExecution(j, k, "FAILED", "gone")
    /\ UNCHANGED <<resultModel, dependsOn, bestModel, reconciling, picked, retries>>

\* _fail: the job fails unless it is COMPLETED, CANCELLED or STOPPED; the
\* execution is written by id, whatever its status.
Fail(j, k) ==
    /\ InPhase(j, k, {"errorRaised", "storageErrorRaised"})
    /\ ~RowLocked(j, k)
    /\ LET code == IF InPhase(j, k, {"storageErrorRaised"})
                     THEN "STORAGE_TEMPORARY_FAILURE" ELSE "TRAINING_FAILED"
       IN \/ /\ jobStatus[j] \notin {"COMPLETED", "CANCELLED", "STOPPED"}
             /\ FailJob(j, code)
          \/ /\ jobStatus[j] \in {"COMPLETED", "CANCELLED", "STOPPED"}
             /\ UNCHANGED <<jobStatus, failureCode>>
    /\ SetExecution(j, k, "FAILED", "gone")
    /\ UNCHANGED <<resultModel, dependsOn, bestModel, reconciling, picked, retries>>

\* _stopped: the execution is written only when the job was still STOPPING.
Stopped(j, k) ==
    /\ InPhase(j, k, {"stopRaised"})
    /\ ~RowLocked(j, k)
    /\ \/ /\ jobStatus[j] = "STOPPING"
          /\ jobStatus' = [jobStatus EXCEPT ![j] = "STOPPED"]
          /\ SetExecution(j, k, "STOPPED", "gone")
       \/ /\ jobStatus[j] # "STOPPING"
          /\ SetPhase(j, k, "gone")
          /\ UNCHANGED jobStatus
    /\ UNCHANGED <<failureCode, resultModel, dependsOn, bestModel, reconciling,
                   picked, retries>>

\* The process dies, or _load, _fail or _stopped itself raises: the execution
\* stays RUNNING with nobody behind it.  Before the claim committed, the
\* message is still pending and is delivered again.
Crash(j, k) ==
    /\ \/ InPhase(j, k, {"refused"}) /\ SetPhase(j, k, "idle")
       \/ /\ InPhase(j, k, Phase \ {"idle", "refused", "gone"})
          /\ SetPhase(j, k, "gone")
    /\ UNCHANGED <<jobStatus, failureCode, resultModel, dependsOn, bestModel,
                   reconciling, picked, retries>>

-----------------------------------------------------------------------------
(* The scheduler: its stages run one after the other in one process *)

SchedulerIdle == reconciling = {} /\ picked = {}

\* Mutant of Stale: the query joins the jobs that are still active.
StaleOfActive(j, k) ==
    /\ k \in DOMAIN executions[j]
    /\ executions[j][k].status = "RUNNING"
    /\ jobStatus[j] \in Active
    /\ HeartbeatsMayFail \/ ~InPhase(j, k, {"training"})

\* Heartbeats cover _train alone: in every other phase of a long run the
\* timestamp only grows older.
Stale(j, k) ==
    /\ k \in DOMAIN executions[j]
    /\ executions[j][k].status = "RUNNING"
    /\ HeartbeatsMayFail \/ ~InPhase(j, k, {"training"})

\* reconcileStaleExecutions, first half of the transaction of one candidate:
\* mark the execution LOST (the row stays locked until the commit) and read
\* the status of the job without locking it.
ReconcileRead(j, k) ==
    /\ SchedulerIdle
    /\ Stale(j, k)
    /\ reconciling' = {[job |-> j, attempt |-> k, seen |-> jobStatus[j]]}
    /\ UNCHANGED <<jobStatus, failureCode, resultModel, dependsOn, executions,
                   bestModel, picked, retries>>

\* seen STOPPING: the stop is completed on the worker's behalf.
LostStops(r) ==
    /\ r.seen = "STOPPING"
    /\ jobStatus' = IF jobStatus[r.job] = "STOPPING"
                      THEN [jobStatus EXCEPT ![r.job] = "STOPPED"] ELSE jobStatus
    /\ SetExecution(r.job, r.attempt, "LOST", executions[r.job][r.attempt].phase)
    /\ UNCHANGED failureCode

\* Attempts exhausted, or the job is terminal already.
LostFails(r) ==
    /\ r.seen # "STOPPING"
    /\ \/ /\ r.attempt >= MaxTrainingAttempts
          /\ jobStatus[r.job] \notin TERMINAL
          /\ FailJob(r.job, "EXECUTION_LOST")
       \/ /\ jobStatus[r.job] \in TERMINAL
          /\ UNCHANGED <<jobStatus, failureCode>>
    /\ SetExecution(r.job, r.attempt, "LOST", executions[r.job][r.attempt].phase)

\* Mutant of LostRetries: one attempt past the limit.
LostRetriesOnceMore(r) ==
    /\ r.seen # "STOPPING"
    /\ r.attempt <= MaxTrainingAttempts
    /\ jobStatus[r.job] \notin TERMINAL
    /\ jobStatus' = [jobStatus EXCEPT ![r.job] = "QUEUED"]
    /\ failureCode' = [failureCode EXCEPT ![r.job] = "none"]
    /\ executions' = [executions EXCEPT ![r.job] =
           Append([@ EXCEPT ![r.attempt] =
                       [status |-> "LOST", phase |-> executions[r.job][r.attempt].phase]],
                  [status |-> "ASSIGNED", phase |-> "idle"])]

\* Requeued with a new attempt.
LostRetries(r) ==
    /\ r.seen # "STOPPING"
    /\ r.attempt < MaxTrainingAttempts
    /\ jobStatus[r.job] \notin TERMINAL
    /\ jobStatus' = [jobStatus EXCEPT ![r.job] = "QUEUED"]
    /\ failureCode' = [failureCode EXCEPT ![r.job] = "none"]
    /\ executions' = [executions EXCEPT ![r.job] =
           Append([@ EXCEPT ![r.attempt] =
                       [status |-> "LOST", phase |-> executions[r.job][r.attempt].phase]],
                  [status |-> "ASSIGNED", phase |-> "idle"])]

ReconcileCommit ==
    /\ \E r \in reconciling : LostStops(r) \/ LostFails(r) \/ LostRetries(r)
    /\ reconciling' = {}
    /\ UNCHANGED <<resultModel, dependsOn, bestModel, picked, retries>>

\* retryFailedTrainingJobs: the candidates are read once ...
SelectRetriable ==
    /\ SchedulerIdle
    /\ \E S \in SUBSET {j \in Jobs : /\ jobStatus[j] = "FAILED"
                                     /\ failureCode[j] \in RETRIABLE_FAILURE_CODES} :
          S # {} /\ picked' = S
    /\ UNCHANGED <<jobStatus, failureCode, resultModel, dependsOn, executions,
                   bestModel, reconciling, retries>>

\* ... and requeued one transaction after another; each checks the status
\* again, not the failure code.
RetryFailed(j) ==
    /\ j \in picked
    /\ picked' = picked \ {j}
    /\ \/ /\ Len(executions[j]) < MaxTrainingAttempts
          /\ jobStatus[j] = "FAILED"
          /\ jobStatus' = [jobStatus EXCEPT ![j] = "QUEUED"]
          /\ failureCode' = [failureCode EXCEPT ![j] = "none"]
          /\ Dispatch(j)
       \/ /\ Len(executions[j]) >= MaxTrainingAttempts \/ jobStatus[j] # "FAILED"
          /\ UNCHANGED <<jobStatus, failureCode, executions>>
    /\ UNCHANGED <<resultModel, dependsOn, bestModel, reconciling, retries>>

\* Mutant of Promote: a dependency that has not failed is taken for a completed one.
PromoteUnlessFailed(j) ==
    /\ SchedulerIdle
    /\ jobStatus[j] = "BLOCKED"
    /\ \A d \in dependsOn[j] : jobStatus[d] \notin {"FAILED", "CANCELLED", "STOPPED"}
    /\ jobStatus' = [jobStatus EXCEPT ![j] = "QUEUED"]
    /\ Dispatch(j)
    /\ UNCHANGED <<failureCode, resultModel, dependsOn, bestModel, reconciling,
                   picked, retries>>

\* Mutant of Promote: a dependency that was stopped or cancelled is waited for.
PromoteOrFail(j) ==
    /\ SchedulerIdle
    /\ jobStatus[j] = "BLOCKED"
    /\ \/ /\ \E d \in dependsOn[j] : jobStatus[d] = "FAILED"
          /\ FailJob(j, "DEPENDENCY_FAILED")
          /\ UNCHANGED executions
       \/ /\ DepsCompleted(dependsOn[j])
          /\ jobStatus' = [jobStatus EXCEPT ![j] = "QUEUED"]
          /\ Dispatch(j)
          /\ UNCHANGED failureCode
    /\ UNCHANGED <<resultModel, dependsOn, bestModel, reconciling, picked, retries>>

\* promoteBlockedTrainingJobs
Promote(j) ==
    /\ SchedulerIdle
    /\ jobStatus[j] = "BLOCKED"
    /\ \/ /\ \E d \in dependsOn[j] : jobStatus[d] \in {"FAILED", "CANCELLED", "STOPPED"}
          /\ FailJob(j, "DEPENDENCY_FAILED")
          /\ UNCHANGED executions
       \/ /\ DepsCompleted(dependsOn[j])
          /\ jobStatus' = [jobStatus EXCEPT ![j] = "QUEUED"]
          /\ Dispatch(j)
          /\ UNCHANGED failureCode
    /\ UNCHANGED <<resultModel, dependsOn, bestModel, reconciling, picked, retries>>

-----------------------------------------------------------------------------
Api(j) == Retry(j) \/ RequestStop(j) \/ \E D \in SUBSET (Jobs \ {j}) : Create(j, D)

\* The steps a live worker takes; Crash is apart because no fairness holds for it.
Work(j, k) ==
    \/ Claim(j, k) \/ ClaimRefused(j, k) \/ CancelRefused(j, k)
    \/ StartRunning(j, k) \/ TrainEnds(j, k) \/ RaiseError(j, k)
    \/ Complete(j, k) \/ CompleteRejected(j, k) \/ Fail(j, k) \/ Stopped(j, k)

Schedule(j) ==
    \/ ReconcileCommit \/ SelectRetriable \/ RetryFailed(j) \/ Promote(j)
    \/ \E k \in DOMAIN executions[j] : ReconcileRead(j, k)

Next ==
    \E j \in Jobs :
        \/ Api(j) \/ Schedule(j)
        \/ \E k \in DOMAIN executions[j] : Work(j, k) \/ Crash(j, k)

Spec == Init /\ [][Next]_vars

\* No job gets more attempts than this (AttemptsBounded).
AttemptBound == MaxTrainingAttempts + MaxRetries +
                    (IF MaxTrainingAttempts > 1 THEN MaxTrainingAttempts - 2 ELSE 0)

Attempts == {a \in Jobs \X (1 .. AttemptBound) : a[2] \in DOMAIN executions[a[1]]}

(* Fairness.  A live worker finishes what it does, a pending message is     *)
(* delivered, and refused claims are not crashed forever.  Every tick of the *)
(* scheduler goes through all candidates of all stages in a fixed order, so  *)
(* a stage is strongly fair although the others keep the scheduler busy; as  *)
(* no candidate comes up without end, strong fairness of some is enough.     *)
(* Nothing is assumed of users, of crashes, of the retry window or of the    *)
(* stale timeout of a live process.                                          *)
Fairness ==
    /\ WF_vars(ReconcileCommit)
    /\ SF_vars(\E j \in Jobs : Promote(j))
    /\ SF_vars(\E a \in Attempts : CancelRefused(a[1], a[2]))
    /\ SF_vars(\E a \in Attempts : InPhase(a[1], a[2], {"gone"}) /\ ReconcileRead(a[1], a[2]))
    /\ \A j \in Jobs :
          WF_vars(RetryFailed(j)) /\ \A k \in 1 .. AttemptBound : WF_vars(Work(j, k))

FairSpec == Spec /\ Fairness

-----------------------------------------------------------------------------
(* Properties *)

\* Every variable holds a value the schema admits.
TypeOK ==
    /\ jobStatus \in [Jobs -> JobStatus]
    /\ failureCode \in [Jobs -> FailureCode]
    /\ resultModel \in [Jobs -> Nat]
    /\ dependsOn \in [Jobs -> SUBSET Jobs]
    /\ executions \in [Jobs -> Seq(Execution)]
    /\ bestModel \in [Jobs -> Nat]
    /\ reconciling \subseteq [job : Jobs, attempt : Nat, seen : JobStatus]
    /\ picked \subseteq Jobs
    /\ retries \in Nat

LastExecution(j) == executions[j][Len(executions[j])]

\* A QUEUED job is never orphaned: whoever queued it (create, retry, promote,
\* reconcile, retryFailed) left a fresh ASSIGNED execution that no handler has
\* looked at, so its dispatch event still starts the job.
QueuedHasDispatch ==
    \A j \in Jobs : jobStatus[j] = "QUEUED" =>
        /\ executions[j] # << >>
        /\ LastExecution(j) = [status |-> "ASSIGNED", phase |-> "idle"]

\* A PREPARING, RUNNING or STOPPING job always has an execution in RUNNING, so
\* that a dead worker is found by reconcileStaleExecutions.  Executions end by
\* id and jobs by their own guards, several attempts may overlap, and still no
\* attempt may end and leave the job active with none behind it.
ActiveHasExecution ==
    \A j \in Jobs : jobStatus[j] \in Active =>
        \E k \in DOMAIN executions[j] : executions[j][k].status = "RUNNING"

\* A COMPLETED job has its model: result_model_id is set and points to what the
\* one SUCCEEDED execution registered.  Lost attempts that go on working cannot
\* register a second model for the job.
CompletedHasModel ==
    \A j \in Jobs :
        /\ jobStatus[j] = "COMPLETED" => resultModel[j] # 0 /\ resultModel[j] = bestModel[j]
        /\ \A k \in DOMAIN executions[j] :
              executions[j][k].status = "SUCCEEDED" <=> k = bestModel[j]

\* Crash loops end: the scheduler passes the limit by at most the early attempts
\* that are lost after later ones were added for other reasons, however failures,
\* losses, stops and late workers interleave.
AttemptsBounded == \A j \in Jobs : Len(executions[j]) <= AttemptBound

\* Every write of a status, by whichever program and however late, is one the table of
\* the API's state machine allows (training-state-machine.ts:12), or a requeue of the
\* scheduler together with a new attempt; finished jobs stay so until a user retries them,
\* FAILED ones until the scheduler requeues them; and a job gets one model, once.
Lifecycle == INSTANCE TrainingLifecycle WITH
    status <- jobStatus, needs <- dependsOn, attempts <- [j \in Jobs |-> Len(executions[j])],
    model <- bestModel, retries <- retries

FollowsLifecycle == Lifecycle!Spec

\* The first dispatch of a job waits for its dependencies, whatever the other
\* attempts of other jobs do meanwhile.
FirstDispatchWaits ==
    [][\A j \in Jobs :
          executions[j] = << >> /\ executions'[j] # << >> => DepsCompleted(dependsOn'[j])]_vars

\* Every submitted job comes to an end, through crashed workers, refused claims, stops and
\* retries - one that is BLOCKED too, however the job it waits for ends, is retried, lost
\* and ends once more.
JobsSettle == \A j \in Jobs : jobStatus[j] # "ABSENT" ~> jobStatus[j] \in TERMINAL

\* No execution stays ASSIGNED or RUNNING forever, not even one whose job went on without
\* it: as attempts are bounded, it is enough that a job is without such a one time and
\* again.
Resting(j) ==
    \A k \in DOMAIN executions[j] : executions[j][k].status \notin {"ASSIGNED", "RUNNING"}

ExecutionsSettle == \A j \in Jobs : []<>Resting(j)
=============================================================================
