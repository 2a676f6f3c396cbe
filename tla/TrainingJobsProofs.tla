------------------------- MODULE TrainingJobsProofs -------------------------
(***************************************************************************)
(* Proofs about TrainingJobs, for every set of jobs, every attempt limit,  *)
(* any number of workers and any number of user retries.                   *)
(***************************************************************************)
EXTENDS TrainingJobs, SequenceTheorems, FiniteSetTheorems, TLAPS

-----------------------------------------------------------------------------
(* The inductive invariant *)

\* What the progress of a process says about the row it works for: only a row
\* that nobody claimed is ASSIGNED, and a process that claimed one finds it
\* RUNNING or LOST until it ends it itself.
PhaseMatchesStatus ==
    \A j \in Jobs : \A k \in DOMAIN executions[j] :
        LET e == executions[j][k]
        IN /\ e.phase \in {"idle", "refused"} => e.status = "ASSIGNED"
           /\ e.phase \notin {"idle", "refused", "gone"} => e.status \in {"RUNNING", "LOST"}

\* The execution locked by a reconcile transaction stays RUNNING until the
\* commit; if the job was STOPPING when it was read and is active in another
\* status now, another attempt took it over.
LockedIsRunning ==
    \A r \in reconciling :
        /\ r.attempt \in DOMAIN executions[r.job]
        /\ executions[r.job][r.attempt].status = "RUNNING"
        /\ r.seen = "STOPPING" /\ jobStatus[r.job] \in {"PREPARING", "RUNNING"} =>
             \E m \in DOMAIN executions[r.job] :
                m # r.attempt /\ executions[r.job][m].status = "RUNNING"

\* The attempt that made the model is one of the job's executions.
BestModelIsExecution ==
    \A j \in Jobs : bestModel[j] = 0 \/ bestModel[j] \in DOMAIN executions[j]

IInv ==
    /\ TypeOK
    /\ QueuedHasDispatch
    /\ PhaseMatchesStatus
    /\ LockedIsRunning
    /\ ActiveHasExecution
    /\ CompletedHasModel
    /\ BestModelIsExecution

-----------------------------------------------------------------------------
(* How the two ways of writing job_executions change the table *)

\* Row k of job j becomes [st, ph]; no other row changes and none is added.
Rewrites(j, k, st, ph) ==
    /\ executions' \in [Jobs -> Seq(Execution)]
    /\ \A i \in Jobs : i # j => executions'[i] = executions[i]
    /\ Len(executions'[j]) = Len(executions[j])
    /\ DOMAIN executions'[j] = DOMAIN executions[j]
    /\ executions'[j][k] = [status |-> st, phase |-> ph]
    /\ \A m \in DOMAIN executions[j] : m # k => executions'[j][m] = executions[j][m]

\* Job j gets one more row, ASSIGNED and idle; no other row changes.
Appends(j) ==
    /\ executions' \in [Jobs -> Seq(Execution)]
    /\ \A i \in Jobs : i # j => executions'[i] = executions[i]
    /\ Len(executions'[j]) = Len(executions[j]) + 1
    /\ DOMAIN executions'[j] = DOMAIN executions[j] \cup {Len(executions[j]) + 1}
    /\ Len(executions[j]) + 1 \notin DOMAIN executions[j]
    /\ executions'[j][Len(executions[j]) + 1] = [status |-> "ASSIGNED", phase |-> "idle"]
    /\ \A m \in DOMAIN executions[j] : executions'[j][m] = executions[j][m]
    /\ executions'[j] # << >>

\* SetExecution writes one row.
LEMMA SetExecutionEffect ==
    ASSUME executions \in [Jobs -> Seq(Execution)],
           NEW j \in Jobs, NEW k \in DOMAIN executions[j],
           NEW st \in ExecStatus, NEW ph \in Phase,
           SetExecution(j, k, st, ph)
    PROVE  Rewrites(j, k, st, ph)
<1> DEFINE e == [status |-> st, phase |-> ph]
           s == executions[j]
           t == [s EXCEPT ![k] = e]
<1>1. e \in Execution
  BY DEF Execution
<1>2. s \in Seq(Execution)
  OBVIOUS
<1>3. /\ t \in Seq(Execution) /\ Len(t) = Len(s) /\ DOMAIN t = DOMAIN s
      /\ t[k] = e /\ \A m \in DOMAIN s : m # k => t[m] = s[m]
  BY <1>1, <1>2, ExceptSeq
<1>4. executions' = [executions EXCEPT ![j] = t]
  BY DEF SetExecution
<1>5. executions'[j] = t /\ \A i \in Jobs : i # j => executions'[i] = executions[i]
  BY <1>4
<1>6. executions' \in [Jobs -> Seq(Execution)]
  BY <1>3, <1>4
<1> QED
  BY <1>3, <1>5, <1>6 DEF Rewrites

\* Dispatch appends one row.
LEMMA DispatchEffect ==
    ASSUME executions \in [Jobs -> Seq(Execution)],
           NEW j \in Jobs, Dispatch(j)
    PROVE  Appends(j)
<1> DEFINE e == [status |-> "ASSIGNED", phase |-> "idle"]
           s == executions[j]
           t == Append(s, e)
<1>1. e \in Execution
  BY DEF Execution, ExecStatus, Phase
<1>2. s \in Seq(Execution)
  OBVIOUS
<1>3. /\ t \in Seq(Execution) /\ Len(t) = Len(s) + 1 /\ t # << >>
      /\ t[Len(s) + 1] = e /\ \A m \in 1 .. Len(s) : t[m] = s[m]
  BY <1>1, <1>2, AppendProperties
<1>4. DOMAIN s = 1 .. Len(s) /\ DOMAIN t = 1 .. Len(s) + 1 /\ Len(s) \in Nat
  BY <1>2, <1>3, LenProperties
<1>5. executions' = [executions EXCEPT ![j] = t]
  BY DEF Dispatch
<1>6. executions'[j] = t /\ \A i \in Jobs : i # j => executions'[i] = executions[i]
  BY <1>5
<1>7. executions' \in [Jobs -> Seq(Execution)]
  BY <1>3, <1>5
<1>8. DOMAIN t = DOMAIN s \cup {Len(s) + 1} /\ Len(s) + 1 \notin DOMAIN s
  BY <1>4
<1> QED
  BY <1>3, <1>6, <1>7, <1>8 DEF Appends

-----------------------------------------------------------------------------
(* One step that rewrites a row: what it owes each part of the invariant *)

\* A written row whose phase and status agree keeps PhaseMatchesStatus.
LEMMA RewriteKeepsPhases ==
    ASSUME IInv, NEW j \in Jobs, NEW k \in DOMAIN executions[j],
           NEW st, NEW ph, Rewrites(j, k, st, ph),
           ph \in {"idle", "refused"} => st = "ASSIGNED",
           ph \notin {"idle", "refused", "gone"} => st \in {"RUNNING", "LOST"}
    PROVE  PhaseMatchesStatus'
<1> SUFFICES ASSUME NEW i \in Jobs, NEW m \in DOMAIN executions'[i]
             PROVE  LET e == executions'[i][m]
                    IN /\ e.phase \in {"idle", "refused"} => e.status = "ASSIGNED"
                       /\ e.phase \notin {"idle", "refused", "gone"} => e.status \in {"RUNNING", "LOST"}
  BY DEF PhaseMatchesStatus
<1>1. CASE i = j /\ m = k
  BY <1>1 DEF Rewrites
<1>2. CASE ~(i = j /\ m = k)
  <2>1. m \in DOMAIN executions[i] /\ executions'[i][m] = executions[i][m]
    BY <1>2 DEF Rewrites
  <2> QED
    BY <2>1 DEF IInv, PhaseMatchesStatus
<1> QED
  BY <1>1, <1>2

\* A QUEUED job keeps its last row when the row written is not idle.
LEMMA RewriteKeepsDispatch ==
    ASSUME IInv, NEW j \in Jobs, NEW k \in DOMAIN executions[j],
           NEW st, NEW ph, Rewrites(j, k, st, ph),
           \A i \in Jobs : i # j => jobStatus'[i] = jobStatus[i],
           jobStatus'[j] = "QUEUED" =>
               jobStatus[j] = "QUEUED" /\ executions[j][k].phase # "idle"
    PROVE  QueuedHasDispatch'
<1> SUFFICES ASSUME NEW i \in Jobs, jobStatus'[i] = "QUEUED"
             PROVE  /\ executions'[i] # << >>
                    /\ executions'[i][Len(executions'[i])] = [status |-> "ASSIGNED", phase |-> "idle"]
  BY DEF QueuedHasDispatch, LastExecution
<1>1. /\ jobStatus[i] = "QUEUED"
      /\ executions[i] # << >>
      /\ executions[i][Len(executions[i])] = [status |-> "ASSIGNED", phase |-> "idle"]
  BY DEF IInv, QueuedHasDispatch, LastExecution
<1>2. CASE i # j
  BY <1>1, <1>2 DEF Rewrites
<1>3. CASE i = j
  <2>1. k # Len(executions[j])
    BY <1>1, <1>3
  <2>2. executions[j] \in Seq(Execution) /\ executions'[j] \in Seq(Execution)
    BY DEF IInv, TypeOK, Rewrites
  <2>3. Len(executions[j]) \in DOMAIN executions[j] /\ Len(executions[j]) > 0
    BY <1>1, <1>3, <2>2, LenProperties, EmptySeq
  <2>4. executions'[j] # << >>
    BY <2>2, <2>3 DEF Rewrites
  <2> QED
    BY <1>1, <1>3, <2>1, <2>3, <2>4 DEF Rewrites
<1> QED
  BY <1>2, <1>3

\* The row a reconcile transaction holds is not written by anybody else, and a
\* job that becomes or stays PREPARING or RUNNING keeps the attempt behind it.
LEMMA RewriteKeepsLocks ==
    ASSUME IInv, NEW j \in Jobs, NEW k \in DOMAIN executions[j],
           NEW st, NEW ph, Rewrites(j, k, st, ph),
           reconciling' = reconciling,
           \A i \in Jobs : i # j => jobStatus'[i] = jobStatus[i],
           RowLocked(j, k) => st = "RUNNING",
           jobStatus'[j] \in {"PREPARING", "RUNNING"} =>
               \/ /\ jobStatus[j] \in {"PREPARING", "RUNNING"}
                  /\ executions[j][k].status = "RUNNING" => st = "RUNNING"
               \/ st = "RUNNING" /\ executions[j][k].status # "RUNNING"
    PROVE  LockedIsRunning'
<1> SUFFICES ASSUME NEW r \in reconciling
             PROVE  /\ r.attempt \in DOMAIN executions'[r.job]
                    /\ executions'[r.job][r.attempt].status = "RUNNING"
                    /\ r.seen = "STOPPING" /\ jobStatus'[r.job] \in {"PREPARING", "RUNNING"} =>
                         \E m \in DOMAIN executions'[r.job] :
                            m # r.attempt /\ executions'[r.job][m].status = "RUNNING"
  BY DEF LockedIsRunning
<1>1. /\ r.job \in Jobs
      /\ r.attempt \in DOMAIN executions[r.job]
      /\ executions[r.job][r.attempt].status = "RUNNING"
      /\ r.seen = "STOPPING" /\ jobStatus[r.job] \in {"PREPARING", "RUNNING"} =>
           \E m \in DOMAIN executions[r.job] :
              m # r.attempt /\ executions[r.job][m].status = "RUNNING"
  BY DEF IInv, TypeOK, LockedIsRunning
<1>2. CASE r.job # j
  BY <1>1, <1>2 DEF Rewrites
<1>3. CASE r.job = j
  <2>1. r.attempt \in DOMAIN executions'[j]
    BY <1>1, <1>3 DEF Rewrites
  <2>2. executions'[j][r.attempt].status = "RUNNING"
    BY <1>1, <1>3 DEF Rewrites, RowLocked
  <2>3. ASSUME r.seen = "STOPPING", jobStatus'[j] \in {"PREPARING", "RUNNING"}
        PROVE  \E m \in DOMAIN executions'[j] :
                  m # r.attempt /\ executions'[j][m].status = "RUNNING"
    <3>1. CASE st = "RUNNING" /\ executions[j][k].status # "RUNNING"
      <4>1. k # r.attempt /\ k \in DOMAIN executions'[j] /\ executions'[j][k].status = "RUNNING"
        BY <1>1, <1>3, <3>1 DEF Rewrites
      <4> QED
        BY <4>1
    <3>2. CASE /\ jobStatus[j] \in {"PREPARING", "RUNNING"}
               /\ executions[j][k].status = "RUNNING" => st = "RUNNING"
      <4>1. PICK m \in DOMAIN executions[j] :
               m # r.attempt /\ executions[j][m].status = "RUNNING"
        BY <1>1, <1>3, <2>3, <3>2
      <4>2. m \in DOMAIN executions'[j] /\ executions'[j][m].status = "RUNNING"
        BY <3>2, <4>1 DEF Rewrites
      <4> QED
        BY <4>1, <4>2
    <3> QED
      BY <2>3, <3>1, <3>2
  <2> QED
    BY <1>3, <2>1, <2>2, <2>3
<1> QED
  BY <1>2, <1>3

\* A RUNNING row that is ended leaves no job active.
LEMMA RewriteKeepsActive ==
    ASSUME IInv, NEW j \in Jobs, NEW k \in DOMAIN executions[j],
           NEW st, NEW ph, Rewrites(j, k, st, ph),
           \A i \in Jobs : i # j => jobStatus'[i] = jobStatus[i],
           jobStatus'[j] \in Active =>
               \/ st = "RUNNING"
               \/ jobStatus[j] \in Active /\ executions[j][k].status # "RUNNING"
    PROVE  ActiveHasExecution'
<1> SUFFICES ASSUME NEW i \in Jobs, jobStatus'[i] \in Active
             PROVE  \E m \in DOMAIN executions'[i] : executions'[i][m].status = "RUNNING"
  BY DEF ActiveHasExecution
<1>1. CASE i = j /\ st = "RUNNING"
  <2>1. k \in DOMAIN executions'[j] /\ executions'[j][k].status = "RUNNING"
    BY <1>1 DEF Rewrites
  <2> QED
    BY <1>1, <2>1
<1>2. CASE i # j \/ st # "RUNNING"
  <2>1. PICK m \in DOMAIN executions[i] : executions[i][m].status = "RUNNING"
    BY <1>2 DEF IInv, ActiveHasExecution
  <2>2. m \in DOMAIN executions'[i] /\ executions'[i][m] = executions[i][m]
    BY <1>2, <2>1 DEF Rewrites
  <2> QED
    BY <2>1, <2>2
<1> QED
  BY <1>1, <1>2

\* No row but Complete's becomes SUCCEEDED, and none stops being it.
LEMMA RewriteKeepsCompleted ==
    ASSUME IInv, NEW j \in Jobs, NEW k \in DOMAIN executions[j],
           NEW st, NEW ph, Rewrites(j, k, st, ph),
           UNCHANGED <<resultModel, bestModel>>,
           \A i \in Jobs : jobStatus'[i] = "COMPLETED" => jobStatus[i] = "COMPLETED",
           st = "SUCCEEDED" <=> executions[j][k].status = "SUCCEEDED"
    PROVE  CompletedHasModel'
<1> SUFFICES ASSUME NEW i \in Jobs
             PROVE  /\ jobStatus'[i] = "COMPLETED" =>
                         resultModel'[i] # 0 /\ resultModel'[i] = bestModel'[i]
                    /\ \A m \in DOMAIN executions'[i] :
                          executions'[i][m].status = "SUCCEEDED" <=> m = bestModel'[i]
  BY DEF CompletedHasModel
<1>1. jobStatus'[i] = "COMPLETED" => resultModel'[i] # 0 /\ resultModel'[i] = bestModel'[i]
  BY DEF IInv, CompletedHasModel
<1>2. ASSUME NEW m \in DOMAIN executions'[i]
      PROVE  executions'[i][m].status = "SUCCEEDED" <=> m = bestModel'[i]
  <2>1. m \in DOMAIN executions[i]
    BY <1>2 DEF Rewrites
  <2>2. executions[i][m].status = "SUCCEEDED" <=> m = bestModel[i]
    BY <2>1 DEF IInv, CompletedHasModel
  <2>3. executions'[i][m].status = "SUCCEEDED" <=> executions[i][m].status = "SUCCEEDED"
    BY <2>1 DEF Rewrites
  <2> QED
    BY <2>2, <2>3
<1> QED
  BY <1>1, <1>2

\* A worker step other than Complete.
LEMMA WorkStep ==
    ASSUME IInv, NEW j \in Jobs, NEW k \in DOMAIN executions[j],
           NEW st \in ExecStatus, NEW ph \in Phase, SetExecution(j, k, st, ph),
           UNCHANGED <<resultModel, dependsOn, bestModel, reconciling, picked, retries>>,
           jobStatus' \in [Jobs -> JobStatus],
           failureCode' \in [Jobs -> FailureCode],
           \A i \in Jobs : i # j => jobStatus'[i] = jobStatus[i],
           jobStatus'[j] # jobStatus[j] => jobStatus'[j] \notin {"COMPLETED", "QUEUED"},
           jobStatus[j] = "QUEUED" => executions[j][k].phase # "idle" \/ jobStatus'[j] # "QUEUED",
           ph \in {"idle", "refused"} => st = "ASSIGNED",
           ph \notin {"idle", "refused", "gone"} => st \in {"RUNNING", "LOST"},
           RowLocked(j, k) => st = "RUNNING",
           st = "SUCCEEDED" <=> executions[j][k].status = "SUCCEEDED",
           jobStatus'[j] \in {"PREPARING", "RUNNING"} =>
               \/ /\ jobStatus[j] \in {"PREPARING", "RUNNING"}
                  /\ executions[j][k].status = "RUNNING" => st = "RUNNING"
               \/ st = "RUNNING" /\ executions[j][k].status # "RUNNING",
           jobStatus'[j] \in Active =>
               \/ st = "RUNNING"
               \/ jobStatus[j] \in Active /\ executions[j][k].status # "RUNNING"
    PROVE  IInv'
<1>1. Rewrites(j, k, st, ph)
  BY SetExecutionEffect DEF IInv, TypeOK
<1>2. TypeOK'
  BY <1>1 DEF IInv, TypeOK, Rewrites
<1>3. QueuedHasDispatch'
  BY <1>1, RewriteKeepsDispatch
<1>4. PhaseMatchesStatus'
  BY <1>1, RewriteKeepsPhases
<1>5. LockedIsRunning'
  BY <1>1, RewriteKeepsLocks
<1>6. ActiveHasExecution'
  BY <1>1, RewriteKeepsActive
<1>7. \A i \in Jobs : jobStatus'[i] = "COMPLETED" => jobStatus[i] = "COMPLETED"
  OBVIOUS
<1>8. CompletedHasModel'
  BY <1>1, <1>7, RewriteKeepsCompleted
<1>9. BestModelIsExecution'
  BY <1>1 DEF IInv, BestModelIsExecution, Rewrites
<1> QED
  BY <1>2, <1>3, <1>4, <1>5, <1>6, <1>8, <1>9 DEF IInv

\* What the typing of a row and the discipline of phases say about one row.
LEMMA RowFacts ==
    ASSUME IInv, NEW j \in Jobs, NEW k \in DOMAIN executions[j]
    PROVE  /\ executions[j][k].status \in ExecStatus
           /\ executions[j][k].phase \in Phase
           /\ executions[j][k].phase \in {"idle", "refused"} => executions[j][k].status = "ASSIGNED"
           /\ executions[j][k].phase \notin {"idle", "refused", "gone"} =>
                 executions[j][k].status \in {"RUNNING", "LOST"}
           /\ RowLocked(j, k) => executions[j][k].status = "RUNNING"
           /\ jobStatus \in [Jobs -> JobStatus]
           /\ failureCode \in [Jobs -> FailureCode]
<1>1. executions[j][k] \in Execution
  <2>1. executions[j] \in Seq(Execution)
    BY DEF IInv, TypeOK
  <2> QED
    BY <2>1, ElementOfSeq, LenProperties
<1>2. RowLocked(j, k) => executions[j][k].status = "RUNNING"
  BY DEF RowLocked, IInv, LockedIsRunning
<1>3. executions[j][k].status \in ExecStatus /\ executions[j][k].phase \in Phase
  BY <1>1 DEF Execution
<1> QED
  BY <1>2, <1>3 DEF IInv, TypeOK, PhaseMatchesStatus

\* Claiming an execution, and refusing one, keep the invariant.
LEMMA ClaimStep ==
    ASSUME IInv, NEW j \in Jobs, NEW k \in DOMAIN executions[j],
           Claim(j, k) \/ ClaimRefused(j, k) \/ CancelRefused(j, k)
    PROVE  IInv'
<1> USE RowFacts
<1>1. CASE Claim(j, k)
  <2>1. "RUNNING" \in ExecStatus /\ "claimed" \in Phase /\ "PREPARING" \in JobStatus
    BY DEF ExecStatus, Phase, JobStatus, Active
  <2> QED
    BY <1>1, <2>1, WorkStep DEF Claim, InPhase, Active
<1>2. CASE ClaimRefused(j, k)
  <2>1. "ASSIGNED" \in ExecStatus /\ "refused" \in Phase
    BY DEF ExecStatus, Phase
  <2> QED
    BY <1>2, <2>1, WorkStep DEF ClaimRefused, InPhase, SetPhase
<1>3. CASE CancelRefused(j, k)
  <2>1. "CANCELLED" \in ExecStatus /\ "gone" \in Phase
    BY DEF ExecStatus, Phase
  <2> QED
    BY <1>3, <2>1, WorkStep DEF CancelRefused, InPhase
<1> QED
  BY <1>1, <1>2, <1>3

\* The exits of _train and of the try block only move the process.
LEMMA PhaseStep ==
    ASSUME IInv, NEW j \in Jobs, NEW k \in DOMAIN executions[j],
           TrainEnds(j, k) \/ RaiseError(j, k) \/ CompleteRejected(j, k) \/ Crash(j, k)
    PROVE  IInv'
<1> USE RowFacts
<1>1. UNCHANGED <<jobStatus, failureCode, resultModel, dependsOn, bestModel,
                  reconciling, picked, retries>>
  BY DEF TrainEnds, RaiseError, CompleteRejected, Crash
<1>2. executions[j][k].phase # "idle"
  BY DEF TrainEnds, RaiseError, CompleteRejected, Crash, InPhase, Phase
<1>3. \/ /\ executions[j][k].phase = "refused" /\ SetPhase(j, k, "idle")
      \/ /\ executions[j][k].phase # "refused"
         /\ \E ph \in Phase \ {"idle", "refused"} :
               /\ executions[j][k].phase = "gone" => ph = "gone"
               /\ SetPhase(j, k, ph)
  BY DEF TrainEnds, RaiseError, CompleteRejected, Crash, InPhase, Phase
<1>4. CASE executions[j][k].phase = "refused" /\ SetPhase(j, k, "idle")
  <2>1. "idle" \in Phase
    BY DEF Phase
  <2> QED
    BY <1>1, <1>4, <2>1, WorkStep DEF SetPhase
<1>5. CASE executions[j][k].phase # "refused" /\
           \E ph \in Phase \ {"idle", "refused"} :
               /\ executions[j][k].phase = "gone" => ph = "gone"
               /\ SetPhase(j, k, ph)
  <2>1. PICK ph \in Phase \ {"idle", "refused"} :
               /\ executions[j][k].phase = "gone" => ph = "gone"
               /\ SetPhase(j, k, ph)
    BY <1>5
  <2> QED
    BY <1>1, <1>2, <1>5, <2>1, WorkStep DEF SetPhase
<1> QED
  BY <1>3, <1>4, <1>5

\* So do the transactions that start, fail and stop a job.
LEMMA JobStep ==
    ASSUME IInv, NEW j \in Jobs, NEW k \in DOMAIN executions[j],
           StartRunning(j, k) \/ Fail(j, k) \/ Stopped(j, k)
    PROVE  IInv'
<1> USE RowFacts
<1>1. CASE StartRunning(j, k)
  <2>1. {"training", "errorRaised"} \subseteq Phase /\ "RUNNING" \in JobStatus
    BY DEF Phase, JobStatus, Active
  <2>2. CASE jobStatus[j] = "PREPARING"
    BY <1>1, <2>1, <2>2, WorkStep DEF StartRunning, InPhase, SetPhase, Active
  <2>3. CASE jobStatus[j] # "PREPARING"
    BY <1>1, <2>1, <2>3, WorkStep DEF StartRunning, InPhase, SetPhase, Active
  <2> QED
    BY <2>2, <2>3
<1>2. CASE Fail(j, k)
  <2>1. "FAILED" \in ExecStatus /\ "gone" \in Phase /\ "FAILED" \in JobStatus
        /\ {"STORAGE_TEMPORARY_FAILURE", "TRAINING_FAILED"} \subseteq FailureCode
    BY DEF ExecStatus, Phase, JobStatus, TERMINAL, FailureCode, RETRIABLE_FAILURE_CODES
  <2>2. CASE jobStatus[j] \notin {"COMPLETED", "CANCELLED", "STOPPED"}
    BY <1>2, <2>1, <2>2, WorkStep DEF Fail, FailJob, InPhase, Active
  <2>3. CASE jobStatus[j] \in {"COMPLETED", "CANCELLED", "STOPPED"}
    BY <1>2, <2>1, <2>3, WorkStep DEF Fail, FailJob, InPhase, Active
  <2> QED
    BY <2>2, <2>3
<1>3. CASE Stopped(j, k)
  <2>1. "STOPPED" \in ExecStatus /\ "gone" \in Phase /\ "STOPPED" \in JobStatus
    BY DEF ExecStatus, Phase, JobStatus, TERMINAL
  <2>2. CASE jobStatus[j] = "STOPPING"
    BY <1>3, <2>1, <2>2, WorkStep DEF Stopped, InPhase, Active
  <2>3. CASE jobStatus[j] # "STOPPING"
    BY <1>3, <2>1, <2>3, WorkStep DEF Stopped, InPhase, SetPhase, Active
  <2> QED
    BY <2>2, <2>3
<1> QED
  BY <1>1, <1>2, <1>3

\* Complete makes k the one SUCCEEDED row of the job, and its result.
LEMMA CompleteStep ==
    ASSUME IInv, NEW j \in Jobs, NEW k \in DOMAIN executions[j], Complete(j, k)
    PROVE  IInv'
<1>1. /\ jobStatus' = [jobStatus EXCEPT ![j] = "COMPLETED"]
      /\ "COMPLETED" \in JobStatus /\ jobStatus \in [Jobs -> JobStatus]
      /\ "SUCCEEDED" \in ExecStatus /\ "gone" \in Phase
  BY DEF Complete, JobStatus, TERMINAL, ExecStatus, Phase, IInv, TypeOK
<1>2. /\ jobStatus'[j] = "COMPLETED"
      /\ \A i \in Jobs : i # j => jobStatus'[i] = jobStatus[i]
  BY <1>1
<1>3. Rewrites(j, k, "SUCCEEDED", "gone")
  BY <1>1, SetExecutionEffect DEF Complete, IInv, TypeOK
<1>4. k \in Nat /\ k # 0
  <2>1. executions[j] \in Seq(Execution)
    BY DEF IInv, TypeOK
  <2> QED
    BY <2>1, LenProperties
<1>5. TypeOK'
  BY <1>1, <1>3, <1>4 DEF Complete, IInv, TypeOK, Rewrites
<1>6. QueuedHasDispatch'
  BY <1>2, <1>3, RewriteKeepsDispatch
<1>7. PhaseMatchesStatus'
  BY <1>3, RewriteKeepsPhases
<1>8. LockedIsRunning'
  BY <1>2, <1>3, RewriteKeepsLocks DEF Complete
<1>9. ActiveHasExecution'
  BY <1>2, <1>3, RewriteKeepsActive DEF Active
<1>10. CompletedHasModel'
  <2> SUFFICES ASSUME NEW i \in Jobs
               PROVE  /\ jobStatus'[i] = "COMPLETED" =>
                           resultModel'[i] # 0 /\ resultModel'[i] = bestModel'[i]
                      /\ \A m \in DOMAIN executions'[i] :
                            executions'[i][m].status = "SUCCEEDED" <=> m = bestModel'[i]
    BY DEF CompletedHasModel
  <2>1. CASE i # j
    <3>1. /\ executions'[i] = executions[i] /\ jobStatus'[i] = jobStatus[i]
          /\ resultModel'[i] = resultModel[i] /\ bestModel'[i] = bestModel[i]
      BY <1>2, <1>3, <2>1 DEF Rewrites, Complete, IInv, TypeOK
    <3> QED
      BY <3>1 DEF IInv, CompletedHasModel
  <2>2. CASE i = j
    <3>1. resultModel'[j] = k /\ bestModel'[j] = k /\ bestModel[j] = 0
      BY DEF Complete, IInv, TypeOK
    <3>2. ASSUME NEW m \in DOMAIN executions'[j]
          PROVE  executions'[j][m].status = "SUCCEEDED" <=> m = k
      <4>1. m \in DOMAIN executions[j] /\ m # 0
        <5>1. executions[j] \in Seq(Execution)
          BY DEF IInv, TypeOK
        <5> QED
          BY <1>3, <3>2, <5>1, LenProperties DEF Rewrites
      <4>2. executions[j][m].status # "SUCCEEDED"
        BY <3>1, <4>1 DEF IInv, CompletedHasModel
      <4> QED
        BY <1>3, <4>1, <4>2 DEF Rewrites
    <3> QED
      BY <1>4, <2>2, <3>1, <3>2
  <2> QED
    BY <2>1, <2>2
<1>11. BestModelIsExecution'
  BY <1>3 DEF Complete, IInv, TypeOK, BestModelIsExecution, Rewrites
<1> QED
  BY <1>5, <1>6, <1>7, <1>8, <1>9, <1>10, <1>11 DEF IInv

\* Every step of a worker keeps the invariant.
LEMMA WorkInv ==
    ASSUME IInv, NEW j \in Jobs, NEW k \in DOMAIN executions[j], Work(j, k) \/ Crash(j, k)
    PROVE  IInv'
BY ClaimStep, PhaseStep, JobStep, CompleteStep DEF Work

-----------------------------------------------------------------------------
(* Steps that dispatch a job, and steps that change its status alone *)

\* A job that is queued with a fresh execution.
LEMMA AppendStep ==
    ASSUME IInv, NEW j \in Jobs, Dispatch(j),
           jobStatus' = [jobStatus EXCEPT ![j] = "QUEUED"],
           UNCHANGED <<bestModel, reconciling>>,
           failureCode' \in [Jobs -> FailureCode],
           resultModel' \in [Jobs -> Nat],
           \A i \in Jobs : i # j => resultModel'[i] = resultModel[i],
           dependsOn' \in [Jobs -> SUBSET Jobs], picked' \subseteq Jobs, retries' \in Nat
    PROVE  IInv'
<1>1. Appends(j)
  BY DispatchEffect DEF IInv, TypeOK
<1>2. /\ jobStatus' \in [Jobs -> JobStatus] /\ jobStatus'[j] = "QUEUED"
      /\ \A i \in Jobs : i # j => jobStatus'[i] = jobStatus[i]
  BY DEF IInv, TypeOK, JobStatus
<1>3. TypeOK'
  BY <1>1, <1>2 DEF IInv, TypeOK, Appends
<1>4. QueuedHasDispatch'
  BY <1>1, <1>2 DEF IInv, QueuedHasDispatch, LastExecution, Appends
<1>5. PhaseMatchesStatus'
  <2> SUFFICES ASSUME NEW i \in Jobs, NEW m \in DOMAIN executions'[i]
               PROVE  LET e == executions'[i][m]
                      IN /\ e.phase \in {"idle", "refused"} => e.status = "ASSIGNED"
                         /\ e.phase \notin {"idle", "refused", "gone"} => e.status \in {"RUNNING", "LOST"}
    BY DEF PhaseMatchesStatus
  <2>1. CASE i = j /\ m = Len(executions[j]) + 1
    BY <1>1, <2>1 DEF Appends
  <2>2. CASE ~(i = j /\ m = Len(executions[j]) + 1)
    <3>1. m \in DOMAIN executions[i] /\ executions'[i][m] = executions[i][m]
      BY <1>1, <2>2 DEF Appends
    <3> QED
      BY <3>1 DEF IInv, PhaseMatchesStatus
  <2> QED
    BY <2>1, <2>2
<1>6. LockedIsRunning'
  <2> SUFFICES ASSUME NEW r \in reconciling
               PROVE  /\ r.attempt \in DOMAIN executions'[r.job]
                      /\ executions'[r.job][r.attempt].status = "RUNNING"
                      /\ r.seen = "STOPPING" /\ jobStatus'[r.job] \in {"PREPARING", "RUNNING"} =>
                           \E m \in DOMAIN executions'[r.job] :
                              m # r.attempt /\ executions'[r.job][m].status = "RUNNING"
    BY DEF LockedIsRunning
  <2>1. /\ r.job \in Jobs
        /\ r.attempt \in DOMAIN executions[r.job]
        /\ executions[r.job][r.attempt].status = "RUNNING"
        /\ r.seen = "STOPPING" /\ jobStatus[r.job] \in {"PREPARING", "RUNNING"} =>
             \E m \in DOMAIN executions[r.job] :
                m # r.attempt /\ executions[r.job][m].status = "RUNNING"
    BY DEF IInv, TypeOK, LockedIsRunning
  <2>2. CASE r.job = j
    BY <1>1, <1>2, <2>1, <2>2 DEF Appends
  <2>3. CASE r.job # j
    BY <1>1, <1>2, <2>1, <2>3 DEF Appends
  <2> QED
    BY <2>2, <2>3
<1>7. ActiveHasExecution'
  <2> SUFFICES ASSUME NEW i \in Jobs, jobStatus'[i] \in Active
               PROVE  \E m \in DOMAIN executions'[i] : executions'[i][m].status = "RUNNING"
    BY DEF ActiveHasExecution
  <2>1. i # j /\ jobStatus'[i] = jobStatus[i] /\ executions'[i] = executions[i]
    BY <1>1, <1>2 DEF Active, Appends
  <2>2. \E m \in DOMAIN executions[i] : executions[i][m].status = "RUNNING"
    BY <2>1 DEF IInv, ActiveHasExecution
  <2> QED
    BY <2>1, <2>2
<1>8. CompletedHasModel'
  <2> SUFFICES ASSUME NEW i \in Jobs
               PROVE  /\ jobStatus'[i] = "COMPLETED" =>
                           resultModel'[i] # 0 /\ resultModel'[i] = bestModel'[i]
                      /\ \A m \in DOMAIN executions'[i] :
                            executions'[i][m].status = "SUCCEEDED" <=> m = bestModel'[i]
    BY DEF CompletedHasModel
  <2>1. jobStatus'[i] = "COMPLETED" => resultModel'[i] # 0 /\ resultModel'[i] = bestModel'[i]
    BY <1>2 DEF IInv, CompletedHasModel
  <2>2. ASSUME NEW m \in DOMAIN executions'[i]
        PROVE  executions'[i][m].status = "SUCCEEDED" <=> m = bestModel'[i]
    <3>1. CASE i = j /\ m = Len(executions[j]) + 1
      <4>1. m # bestModel[i]
        <5>1. executions[j] \in Seq(Execution) /\ m \notin DOMAIN executions[j] /\ m # 0
          BY <1>1, <3>1, LenProperties DEF IInv, TypeOK, Appends
        <5> QED
          BY <3>1, <5>1 DEF IInv, BestModelIsExecution
      <4> QED
        BY <1>1, <3>1, <4>1 DEF Appends
    <3>2. CASE ~(i = j /\ m = Len(executions[j]) + 1)
      <4>1. m \in DOMAIN executions[i] /\ executions'[i][m] = executions[i][m]
        BY <1>1, <3>2 DEF Appends
      <4> QED
        BY <4>1 DEF IInv, CompletedHasModel
    <3> QED
      BY <3>1, <3>2
  <2> QED
    BY <2>1, <2>2
<1>9. BestModelIsExecution'
  BY <1>1 DEF IInv, BestModelIsExecution, Appends
<1> QED
  BY <1>3, <1>4, <1>5, <1>6, <1>7, <1>8, <1>9 DEF IInv

\* A change of one job that no execution takes part in.
LEMMA StatusStep ==
    ASSUME IInv, NEW j \in Jobs,
           UNCHANGED <<executions, bestModel, reconciling>>,
           jobStatus' \in [Jobs -> JobStatus],
           \A i \in Jobs : i # j => jobStatus'[i] = jobStatus[i],
           jobStatus'[j] # jobStatus[j] =>
               jobStatus'[j] \notin {"QUEUED", "PREPARING", "RUNNING", "COMPLETED"},
           jobStatus'[j] \in Active => jobStatus[j] \in Active,
           failureCode' \in [Jobs -> FailureCode],
           resultModel' \in [Jobs -> Nat],
           \A i \in Jobs : resultModel'[i] # resultModel[i] => jobStatus'[i] # "COMPLETED",
           dependsOn' \in [Jobs -> SUBSET Jobs], picked' \subseteq Jobs, retries' \in Nat
    PROVE  IInv'
<1>1. TypeOK'
  BY DEF IInv, TypeOK
<1>2. QueuedHasDispatch'
  BY DEF IInv, QueuedHasDispatch, LastExecution
<1>3. PhaseMatchesStatus'
  BY DEF IInv, PhaseMatchesStatus
<1>4. LockedIsRunning'
  BY DEF IInv, TypeOK, LockedIsRunning
<1>5. ActiveHasExecution'
  BY DEF IInv, ActiveHasExecution
<1>6. CompletedHasModel'
  BY DEF IInv, CompletedHasModel
<1>7. BestModelIsExecution'
  BY DEF IInv, BestModelIsExecution
<1> QED
  BY <1>1, <1>2, <1>3, <1>4, <1>5, <1>6, <1>7 DEF IInv

-----------------------------------------------------------------------------
(* The API and the scheduler *)

\* The transactions of create, clone, retry and requestStop keep the invariant.
LEMMA ApiInv ==
    ASSUME IInv, NEW j \in Jobs, Api(j)
    PROVE  IInv'
<1> USE DEF IInv, TypeOK
<1>1. {"QUEUED", "BLOCKED", "CANCELLED", "STOPPING"} \subseteq JobStatus /\ "none" \in FailureCode
  BY DEF JobStatus, TERMINAL, Active, FailureCode
<1>2. ASSUME NEW D \in SUBSET (Jobs \ {j}), Create(j, D)
      PROVE  IInv'
  <2>1. CASE jobStatus' = [jobStatus EXCEPT ![j] = "QUEUED"] /\ Dispatch(j)
    BY <1>1, <1>2, <2>1, AppendStep DEF Create
  <2>2. CASE jobStatus' = [jobStatus EXCEPT ![j] = "BLOCKED"] /\ UNCHANGED executions
    BY <1>1, <1>2, <2>2, StatusStep DEF Create, Active
  <2> QED
    BY <1>2, <2>1, <2>2 DEF Create
<1>3. CASE Retry(j)
  <2>1. /\ failureCode' \in [Jobs -> FailureCode] /\ resultModel' \in [Jobs -> Nat]
        /\ \A i \in Jobs : i # j => resultModel'[i] = resultModel[i]
        /\ retries' \in Nat
    BY <1>1, <1>3 DEF Retry
  <2>2. CASE jobStatus' = [jobStatus EXCEPT ![j] = "QUEUED"] /\ Dispatch(j)
    BY <1>3, <2>1, <2>2, AppendStep DEF Retry
  <2>3. CASE jobStatus' = [jobStatus EXCEPT ![j] = "BLOCKED"] /\ UNCHANGED executions
    BY <1>1, <1>3, <2>1, <2>3, StatusStep DEF Retry, Active
  <2> QED
    BY <1>3, <2>2, <2>3 DEF Retry
<1>4. CASE RequestStop(j)
  <2>1. CASE jobStatus[j] = "RUNNING" /\ jobStatus' = [jobStatus EXCEPT ![j] = "STOPPING"]
    BY <1>1, <1>4, <2>1, StatusStep DEF RequestStop, Active
  <2>2. CASE jobStatus' = [jobStatus EXCEPT ![j] = "CANCELLED"]
    BY <1>1, <1>4, <2>2, StatusStep DEF RequestStop, Active
  <2> QED
    BY <1>4, <2>1, <2>2 DEF RequestStop
<1> QED
  BY <1>2, <1>3, <1>4 DEF Api

\* retryFailedTrainingJobs and promoteBlockedTrainingJobs keep the invariant.
LEMMA RequeueInv ==
    ASSUME IInv, NEW j \in Jobs, SelectRetriable \/ RetryFailed(j) \/ Promote(j)
    PROVE  IInv'
<1> USE DEF IInv, TypeOK
<1>1. "FAILED" \in JobStatus /\ {"none", "DEPENDENCY_FAILED"} \subseteq FailureCode
  BY DEF JobStatus, TERMINAL, FailureCode
<1>2. CASE SelectRetriable
  <2>1. picked' \subseteq Jobs
    BY <1>2 DEF SelectRetriable
  <2> QED
    BY <1>2, <2>1, StatusStep DEF SelectRetriable
<1>3. CASE RetryFailed(j)
  <2>1. CASE UNCHANGED <<jobStatus, failureCode, executions>>
    BY <1>3, <2>1, StatusStep DEF RetryFailed
  <2>2. CASE /\ jobStatus' = [jobStatus EXCEPT ![j] = "QUEUED"]
             /\ failureCode' = [failureCode EXCEPT ![j] = "none"]
             /\ Dispatch(j)
    BY <1>1, <1>3, <2>2, AppendStep DEF RetryFailed
  <2> QED
    BY <1>3, <2>1, <2>2 DEF RetryFailed
<1>4. CASE Promote(j)
  <2>1. CASE FailJob(j, "DEPENDENCY_FAILED") /\ UNCHANGED executions
    BY <1>1, <1>4, <2>1, StatusStep DEF Promote, FailJob, Active
  <2>2. CASE /\ jobStatus' = [jobStatus EXCEPT ![j] = "QUEUED"]
             /\ Dispatch(j)
             /\ UNCHANGED failureCode
    BY <1>4, <2>2, AppendStep DEF Promote
  <2> QED
    BY <1>4, <2>1, <2>2 DEF Promote
<1> QED
  BY <1>2, <1>3, <1>4

\* What a reconcile transaction knows of the row it holds when it commits.
LEMMA LockedFacts ==
    ASSUME IInv, NEW r \in reconciling
    PROVE  /\ r.job \in Jobs /\ r.attempt \in DOMAIN executions[r.job]
           /\ executions[r.job][r.attempt].status = "RUNNING"
           /\ executions[r.job][r.attempt].phase \in Phase \ {"idle", "refused"}
<1>1. /\ r.job \in Jobs /\ r.attempt \in DOMAIN executions[r.job]
      /\ executions[r.job][r.attempt].status = "RUNNING"
  BY DEF IInv, TypeOK, LockedIsRunning
<1>2. executions[r.job][r.attempt].phase \in Phase
  BY <1>1, RowFacts
<1>3. executions[r.job][r.attempt].phase \notin {"idle", "refused"}
  BY <1>1 DEF IInv, PhaseMatchesStatus
<1> QED
  BY <1>1, <1>2, <1>3

\* The first half of a reconcile transaction: the candidate is RUNNING, and a
\* job seen STOPPING is not PREPARING or RUNNING yet.
LEMMA ReconcileReadInv ==
    ASSUME IInv, NEW j \in Jobs, NEW k \in DOMAIN executions[j], ReconcileRead(j, k)
    PROVE  IInv'
<1>1. executions[j] \in Seq(Execution) /\ jobStatus[j] \in JobStatus
  BY DEF IInv, TypeOK
<1>2. k \in Nat
  BY <1>1, LenProperties
<1>3. reconciling' = {[job |-> j, attempt |-> k, seen |-> jobStatus[j]]}
  BY DEF ReconcileRead
<1>4. TypeOK'
  BY <1>1, <1>2, <1>3 DEF ReconcileRead, IInv, TypeOK
<1>5. LockedIsRunning'
  BY <1>3 DEF ReconcileRead, Stale, LockedIsRunning
<1>6. /\ QueuedHasDispatch' /\ PhaseMatchesStatus' /\ ActiveHasExecution'
      /\ CompletedHasModel' /\ BestModelIsExecution'
  BY DEF ReconcileRead, IInv, QueuedHasDispatch, LastExecution, PhaseMatchesStatus,
         ActiveHasExecution, CompletedHasModel, BestModelIsExecution
<1> QED
  BY <1>4, <1>5, <1>6 DEF IInv

\* The commit that ends the job or finds it ended: STOPPED, FAILED or nothing.
\* A job that stays active was seen STOPPING and has another attempt behind it.
LEMMA LostEndsInv ==
    ASSUME IInv, NEW r \in reconciling, LostStops(r) \/ LostFails(r), reconciling' = {},
           UNCHANGED <<resultModel, dependsOn, bestModel, picked, retries>>
    PROVE  IInv'
<1> DEFINE j == r.job
           k == r.attempt
           ph == executions[j][k].phase
<1>1. /\ j \in Jobs /\ k \in DOMAIN executions[j]
      /\ executions[j][k].status = "RUNNING"
      /\ ph \in Phase \ {"idle", "refused"} /\ "LOST" \in ExecStatus
  BY LockedFacts DEF ExecStatus
<1>2. Rewrites(j, k, "LOST", ph)
  BY <1>1, SetExecutionEffect DEF LostStops, LostFails, IInv, TypeOK
<1>3. /\ jobStatus' \in [Jobs -> JobStatus] /\ failureCode' \in [Jobs -> FailureCode]
      /\ \A i \in Jobs : i # j => jobStatus'[i] = jobStatus[i]
      /\ \/ jobStatus'[j] \in {"STOPPED", "FAILED"}
         \/ jobStatus'[j] = jobStatus[j] /\ jobStatus[j] \in TERMINAL
         \/ jobStatus'[j] = jobStatus[j] /\ r.seen = "STOPPING" /\ jobStatus[j] # "STOPPING"
  <2>1. /\ jobStatus \in [Jobs -> JobStatus] /\ failureCode \in [Jobs -> FailureCode]
        /\ {"STOPPED", "FAILED"} \subseteq JobStatus /\ "EXECUTION_LOST" \in FailureCode
    BY DEF IInv, TypeOK, JobStatus, TERMINAL, FailureCode
  <2>2. CASE LostStops(r)
    BY <1>1, <2>1, <2>2 DEF LostStops
  <2>3. CASE LostFails(r)
    BY <1>1, <2>1, <2>3 DEF LostFails, FailJob
  <2> QED
    BY <2>2, <2>3
<1>4. TypeOK'
  BY <1>2, <1>3 DEF IInv, TypeOK, Rewrites
<1>5. QueuedHasDispatch'
  BY <1>1, <1>2, <1>3, RewriteKeepsDispatch DEF TERMINAL
<1>6. PhaseMatchesStatus'
  BY <1>1, <1>2, RewriteKeepsPhases
<1>7. LockedIsRunning'
  BY DEF LockedIsRunning
<1>8. ActiveHasExecution'
  <2> SUFFICES ASSUME NEW i \in Jobs, jobStatus'[i] \in Active
               PROVE  \E m \in DOMAIN executions'[i] : executions'[i][m].status = "RUNNING"
    BY DEF ActiveHasExecution
  <2>1. CASE i # j
    BY <1>2, <1>3, <2>1 DEF IInv, ActiveHasExecution, Rewrites
  <2>2. CASE i = j
    <3>1. r.seen = "STOPPING" /\ jobStatus[j] \in {"PREPARING", "RUNNING"}
      BY <1>3, <2>2 DEF Active, TERMINAL
    <3>2. PICK m \in DOMAIN executions[j] : m # k /\ executions[j][m].status = "RUNNING"
      BY <3>1 DEF IInv, LockedIsRunning
    <3>3. m \in DOMAIN executions'[j] /\ executions'[j][m].status = "RUNNING"
      BY <1>2, <3>2 DEF Rewrites
    <3> QED
      BY <2>2, <3>3
  <2> QED
    BY <2>1, <2>2
<1>9. CompletedHasModel'
  <2>1. \A i \in Jobs : jobStatus'[i] = "COMPLETED" => jobStatus[i] = "COMPLETED"
    BY <1>3
  <2> QED
    BY <1>1, <1>2, <2>1, RewriteKeepsCompleted
<1>10. BestModelIsExecution'
  BY <1>2 DEF IInv, BestModelIsExecution, Rewrites
<1> QED
  BY <1>4, <1>5, <1>6, <1>7, <1>8, <1>9, <1>10 DEF IInv

\* The commit that requeues the job: one row becomes LOST, one is appended.
LEMMA LostRetriesInv ==
    ASSUME IInv, NEW r \in reconciling, LostRetries(r), reconciling' = {},
           UNCHANGED <<resultModel, dependsOn, bestModel, picked, retries>>
    PROVE  IInv'
<1> DEFINE j == r.job
           k == r.attempt
           s == executions[j]
           n == Len(s) + 1
           lost == [status |-> "LOST", phase |-> s[k].phase]
           fresh == [status |-> "ASSIGNED", phase |-> "idle"]
           u == [s EXCEPT ![k] = lost]
           t == Append(u, fresh)
<1>1. /\ j \in Jobs /\ k \in DOMAIN s /\ s[k].status = "RUNNING"
      /\ s[k].phase \in Phase \ {"idle", "refused"}
  BY LockedFacts
<1>2. s \in Seq(Execution) /\ s[k] \in Execution
  <2>1. s \in Seq(Execution)
    BY <1>1 DEF IInv, TypeOK
  <2> QED
    BY <1>1, <2>1, ElementOfSeq, LenProperties
<1>3. lost \in Execution /\ fresh \in Execution /\ lost.status = "LOST" /\ lost.phase = s[k].phase
  BY <1>1, <1>2 DEF Execution, ExecStatus, Phase
<1>4. /\ u \in Seq(Execution) /\ Len(u) = Len(s) /\ DOMAIN u = DOMAIN s
      /\ u[k] = lost /\ \A m \in DOMAIN s : m # k => u[m] = s[m]
  BY <1>1, <1>2, <1>3, ExceptSeq
<1>5. /\ t \in Seq(Execution) /\ Len(t) = n /\ t[n] = fresh /\ t # << >>
      /\ \A m \in 1 .. Len(u) : t[m] = u[m]
  BY <1>3, <1>4, AppendProperties
<1>6. /\ DOMAIN s = 1 .. Len(s) /\ DOMAIN t = 1 .. n /\ Len(s) \in Nat
      /\ DOMAIN t = DOMAIN s \cup {n} /\ n \notin DOMAIN s /\ n # 0
  BY <1>2, <1>5, LenProperties
<1>7. t[k] = lost /\ \A m \in DOMAIN s : m # k => t[m] = s[m]
  BY <1>1, <1>4, <1>5, <1>6
<1>8. executions' = [executions EXCEPT ![j] = t]
  BY DEF LostRetries
<1>9. /\ executions' \in [Jobs -> Seq(Execution)] /\ executions'[j] = t
      /\ \A i \in Jobs : i # j => executions'[i] = executions[i]
  BY <1>1, <1>5, <1>8 DEF IInv, TypeOK
<1>10. /\ jobStatus' \in [Jobs -> JobStatus] /\ jobStatus'[j] = "QUEUED"
       /\ failureCode' \in [Jobs -> FailureCode]
       /\ \A i \in Jobs : i # j => jobStatus'[i] = jobStatus[i]
  BY <1>1 DEF LostRetries, IInv, TypeOK, JobStatus, FailureCode
<1> HIDE DEF j, k, s, n, lost, fresh, u, t
<1>11. TypeOK'
  BY <1>9, <1>10 DEF IInv, TypeOK
<1>12. QueuedHasDispatch'
  BY <1>5, <1>9, <1>10 DEF IInv, QueuedHasDispatch, LastExecution, fresh
<1>13. PhaseMatchesStatus'
  <2> SUFFICES ASSUME NEW i \in Jobs, NEW m \in DOMAIN executions'[i]
               PROVE  LET e == executions'[i][m]
                      IN /\ e.phase \in {"idle", "refused"} => e.status = "ASSIGNED"
                         /\ e.phase \notin {"idle", "refused", "gone"} => e.status \in {"RUNNING", "LOST"}
    BY DEF PhaseMatchesStatus
  <2>1. CASE i # j
    BY <1>9, <2>1 DEF IInv, PhaseMatchesStatus
  <2>2. CASE i = j /\ m = n
    BY <1>5, <1>9, <2>2 DEF fresh
  <2>3. CASE i = j /\ m = k
    BY <1>1, <1>3, <1>7, <1>9, <2>3
  <2>4. CASE i = j /\ m # n /\ m # k
    BY <1>1, <1>6, <1>7, <1>9, <2>4 DEF IInv, PhaseMatchesStatus, s
  <2> QED
    BY <2>1, <2>2, <2>3, <2>4
<1>14. LockedIsRunning'
  BY DEF LockedIsRunning
<1>15. ActiveHasExecution'
  BY <1>9, <1>10 DEF IInv, ActiveHasExecution, Active
<1>16. CompletedHasModel'
  <2>1. ASSUME NEW i \in Jobs
        PROVE  jobStatus'[i] = "COMPLETED" => resultModel'[i] # 0 /\ resultModel'[i] = bestModel'[i]
    BY <1>10 DEF IInv, CompletedHasModel
  <2>2. ASSUME NEW i \in Jobs, NEW m \in DOMAIN executions'[i]
        PROVE  executions'[i][m].status = "SUCCEEDED" <=> m = bestModel'[i]
    <3>1. CASE i # j
      BY <1>9, <2>2, <3>1 DEF IInv, CompletedHasModel
    <3>2. CASE i = j /\ m = n
      BY <1>1, <1>5, <1>6, <1>9, <3>2 DEF IInv, BestModelIsExecution, fresh, s
    <3>3. CASE i = j /\ m = k
      BY <1>1, <1>3, <1>7, <1>9, <3>3 DEF IInv, CompletedHasModel, s
    <3>4. CASE i = j /\ m # n /\ m # k
      <4>1. m \in DOMAIN executions[i] /\ executions'[i][m] = executions[i][m]
        BY <1>6, <1>7, <1>9, <2>2, <3>4, <1>5 DEF s
      <4> QED
        BY <4>1 DEF IInv, CompletedHasModel
    <3> QED
      BY <3>1, <3>2, <3>3, <3>4
  <2> QED
    BY <2>1, <2>2 DEF CompletedHasModel
<1>17. BestModelIsExecution'
  BY <1>1, <1>6, <1>9 DEF IInv, BestModelIsExecution, s
<1> QED
  BY <1>11, <1>12, <1>13, <1>14, <1>15, <1>16, <1>17 DEF IInv

-----------------------------------------------------------------------------
(* The theorems *)

\* No job has been submitted: nothing to show but the types.
LEMMA InitInv == Init => IInv
<1> SUFFICES ASSUME Init PROVE IInv
  OBVIOUS
<1>1. \A j \in Jobs : executions[j] = << >> /\ jobStatus[j] = "ABSENT" /\ bestModel[j] = 0
  BY DEF Init
<1>2. TypeOK
  BY DEF Init, TypeOK, JobStatus, FailureCode
<1>3. QueuedHasDispatch /\ ActiveHasExecution
  BY <1>1 DEF QueuedHasDispatch, ActiveHasExecution, Active
<1>4. PhaseMatchesStatus /\ CompletedHasModel /\ BestModelIsExecution
  BY <1>1 DEF PhaseMatchesStatus, CompletedHasModel, BestModelIsExecution
<1>5. LockedIsRunning
  BY DEF Init, LockedIsRunning
<1> QED
  BY <1>2, <1>3, <1>4, <1>5 DEF IInv

\* Every step keeps the invariant.
LEMMA NextInv == IInv /\ [Next]_vars => IInv'
<1> SUFFICES ASSUME IInv, [Next]_vars PROVE IInv'
  OBVIOUS
<1>1. ASSUME NEW j \in Jobs, Api(j) PROVE IInv'
  BY <1>1, ApiInv
<1>2. ASSUME NEW j \in Jobs, Schedule(j) PROVE IInv'
  <2>1. CASE ReconcileCommit
    BY <2>1, LostEndsInv, LostRetriesInv DEF ReconcileCommit
  <2>2. CASE SelectRetriable \/ RetryFailed(j) \/ Promote(j)
    BY <2>2, RequeueInv
  <2>3. CASE \E k \in DOMAIN executions[j] : ReconcileRead(j, k)
    BY <2>3, ReconcileReadInv
  <2> QED
    BY <1>2, <2>1, <2>2, <2>3 DEF Schedule
<1>3. ASSUME NEW j \in Jobs, NEW k \in DOMAIN executions[j], Work(j, k) \/ Crash(j, k)
      PROVE  IInv'
  BY <1>3, WorkInv
<1>4. CASE UNCHANGED vars
  BY <1>4 DEF vars, IInv, TypeOK, QueuedHasDispatch, LastExecution, PhaseMatchesStatus,
              LockedIsRunning, ActiveHasExecution, CompletedHasModel, BestModelIsExecution
<1> QED
  BY <1>1, <1>2, <1>3, <1>4 DEF Next

\* The inductive invariant holds in every reachable state.
THEOREM Invariance == Spec => []IInv
BY InitInv, NextInv, PTL DEF Spec

\* Every variable keeps to the values of the schema.
THEOREM TypeCorrect == Spec => []TypeOK
<1>1. IInv => TypeOK
  BY DEF IInv
<1> QED
  BY <1>1, Invariance, PTL

\* No job is left QUEUED without a dispatch nobody has looked at.
THEOREM QueuedIsDispatched == Spec => []QueuedHasDispatch
<1>1. IInv => QueuedHasDispatch
  BY DEF IInv
<1> QED
  BY <1>1, Invariance, PTL

\* No job is left PREPARING, RUNNING or STOPPING without a RUNNING execution
\* for the scheduler to find.
THEOREM ActiveIsExecuted == Spec => []ActiveHasExecution
<1>1. IInv => ActiveHasExecution
  BY DEF IInv
<1> QED
  BY <1>1, Invariance, PTL

\* A COMPLETED job points to the model of its one SUCCEEDED execution.
THEOREM CompletedIsModelled == Spec => []CompletedHasModel
<1>1. IInv => CompletedHasModel
  BY DEF IInv
<1> QED
  BY <1>1, Invariance, PTL

-----------------------------------------------------------------------------
(* What a step may never do *)

\* One step rewrites a terminal status only by retry() or from the list that
\* retryFailedTrainingJobs picked.
LEMMA ReviveStep ==
    ASSUME IInv, [Next]_vars, NEW i \in Jobs,
           jobStatus[i] \in TERMINAL, jobStatus'[i] # jobStatus[i]
    PROVE  \/ retries' > retries
           \/ jobStatus[i] = "FAILED" /\ jobStatus'[i] = "QUEUED" /\ i \in picked
<1> USE DEF TERMINAL
<1>1. retries \in Nat /\ jobStatus \in [Jobs -> JobStatus]
  BY DEF IInv, TypeOK
<1>2. ASSUME NEW j \in Jobs, Api(j)
      PROVE  retries' > retries
  <2>1. CASE Retry(j)
    BY <1>1, <2>1 DEF Retry
  <2>2. CASE RequestStop(j)
    BY <1>1, <2>2 DEF RequestStop
  <2>3. CASE \E D \in SUBSET (Jobs \ {j}) : Create(j, D)
    BY <1>1, <2>3 DEF Create
  <2> QED
    BY <1>2, <2>1, <2>2, <2>3 DEF Api
<1>3. ASSUME NEW j \in Jobs, NEW k \in DOMAIN executions[j], Work(j, k) \/ Crash(j, k)
      PROVE  FALSE
  <2>1. CASE UNCHANGED jobStatus
    BY <2>1
  <2>2. CASE Claim(j, k) \/ StartRunning(j, k) \/ Complete(j, k) \/ Stopped(j, k)
    BY <1>1, <2>2 DEF Claim, StartRunning, Complete, Stopped
  <2>3. CASE Fail(j, k)
    BY <1>1, <2>3 DEF Fail, FailJob
  <2> QED
    BY <1>3, <2>1, <2>2, <2>3 DEF Work, Crash, ClaimRefused, CancelRefused, TrainEnds,
       RaiseError, CompleteRejected
<1>4. ASSUME NEW j \in Jobs, Schedule(j)
      PROVE  jobStatus[i] = "FAILED" /\ jobStatus'[i] = "QUEUED" /\ i \in picked
  <2>1. CASE ReconcileCommit
    <3>1. PICK r \in reconciling : LostStops(r) \/ LostFails(r) \/ LostRetries(r)
      BY <2>1 DEF ReconcileCommit
    <3>2. r.job \in Jobs
      BY DEF IInv, TypeOK
    <3> QED
      BY <1>1, <3>1, <3>2 DEF LostStops, LostFails, LostRetries, FailJob
  <2>2. CASE RetryFailed(j)
    BY <1>1, <2>2 DEF RetryFailed
  <2>3. CASE Promote(j)
    BY <1>1, <2>3 DEF Promote, FailJob
  <2>4. CASE UNCHANGED jobStatus
    BY <2>4
  <2> QED
    BY <1>4, <2>1, <2>2, <2>3, <2>4 DEF Schedule, SelectRetriable, ReconcileRead
<1> QED
  BY <1>2, <1>3, <1>4 DEF Next, vars

\* A terminal status is left only through retry(), or from FAILED by a pass of
\* retryFailedTrainingJobs that picked the job: no late worker and no lost
\* execution revives or rewrites a finished job.
OnlyRetriesRevive ==
    [][\A j \in Jobs :
          jobStatus[j] \in TERMINAL /\ jobStatus'[j] # jobStatus[j] =>
              \/ retries' > retries
              \/ jobStatus[j] = "FAILED" /\ jobStatus'[j] = "QUEUED" /\ j \in picked]_vars

\* A finished job stays as it is unless a user or a pass of
\* retryFailedTrainingJobs requeues it.
THEOREM FinishedStays == Spec => OnlyRetriesRevive
<1> DEFINE Revives ==
      \A j \in Jobs :
          jobStatus[j] \in TERMINAL /\ jobStatus'[j] # jobStatus[j] =>
              \/ retries' > retries
              \/ jobStatus[j] = "FAILED" /\ jobStatus'[j] = "QUEUED" /\ j \in picked
<1>1. IInv /\ [Next]_vars => [Revives]_vars
  BY ReviveStep
<1>2. Spec => [][Revives]_vars
  BY <1>1, Invariance, PTL DEF Spec
<1> QED
  BY <1>2 DEF OnlyRetriesRevive
-----------------------------------------------------------------------------
(* How many attempts a job gets *)

\* The early attempts that are over: those below the limit that are neither
\* waiting nor running.  The scheduler adds an attempt on its own account when
\* one of them is lost, or when the last one failed.
EarlyEnded(j) ==
    {k \in DOMAIN executions[j] :
        k < MaxTrainingAttempts /\ executions[j][k].status \notin {"ASSIGNED", "RUNNING"}}

\* The attempts a job has, and the one that its first insert or a retry() has
\* granted but promoteBlockedTrainingJobs has still to dispatch.
Due(j) == Len(executions[j]) + (IF jobStatus[j] \in {"ABSENT", "BLOCKED"} THEN 1 ELSE 0)

\* As long as no early attempt is over, only users add attempts.  After that
\* retryFailedTrainingJobs stops at the limit, and past the limit every attempt
\* is paid for by a user's retry or by the end of one more early attempt.
BoundOK(j) ==
    /\ EarlyEnded(j) = {} => Due(j) <= 1 + retries
    /\ EarlyEnded(j) # {} /\ Due(j) > MaxTrainingAttempts =>
           Due(j) <= MaxTrainingAttempts + retries + Cardinality(EarlyEnded(j)) - 1
    /\ failureCode[j] \in RETRIABLE_FAILURE_CODES \/ j \in picked =>
           EarlyEnded(j) # {} \/ Len(executions[j]) >= MaxTrainingAttempts

BoundInv == retries <= MaxRetries /\ \A j \in Jobs : BoundOK(j)

\* What one step does to the attempts of job j: none disappears or starts anew, and
\* a new one is granted by the end of a BLOCKED wait, by retry(), by the loss
\* of an early attempt, or by retryFailedTrainingJobs below the limit.
AttemptStep(j) ==
    /\ EarlyEnded(j) \subseteq EarlyEnded(j)'
    /\ Len(executions'[j]) >= Len(executions[j])
    /\ failureCode'[j] \in RETRIABLE_FAILURE_CODES \/ j \in picked' =>
           \/ failureCode[j] \in RETRIABLE_FAILURE_CODES \/ j \in picked
           \/ EarlyEnded(j)' # {} \/ Len(executions'[j]) >= MaxTrainingAttempts
    /\ \/ Due(j)' <= Due(j) /\ retries' >= retries
       \/ Due(j)' <= Due(j) + 1 /\ retries' >= retries + 1
       \/ Due(j)' <= Due(j) + 1 /\ retries' = retries /\ EarlyEnded(j)' # EarlyEnded(j)
       \/ Due(j)' <= MaxTrainingAttempts /\ retries' = retries /\ EarlyEnded(j)' # {}

\* The arithmetic of the bound: m the limit, d the attempts due, r the retries,
\* c the number of early attempts that are over.
LEMMA BoundArithmetic ==
    ASSUME NEW m \in Nat \ {0}, NEW d \in Nat, NEW d2 \in Nat, NEW r \in Nat, NEW r2 \in Nat,
           NEW c \in Nat, NEW c2 \in Nat,
           c <= c2, c2 <= m - 1,
           c = 0 => d <= 1 + r,
           c # 0 /\ d > m => d <= m + r + c - 1,
           \/ d2 <= d /\ r2 >= r
           \/ d2 <= d + 1 /\ r2 >= r + 1
           \/ d2 <= d + 1 /\ r2 = r /\ c2 > c
           \/ d2 <= m /\ r2 = r /\ c2 # 0
    PROVE  /\ c2 = 0 => d2 <= 1 + r2
           /\ c2 # 0 /\ d2 > m => d2 <= m + r2 + c2 - 1
OBVIOUS

\* The early attempts are fewer than the limit, and a larger set of them counts more.
LEMMA EarlySets ==
    ASSUME NEW A, NEW B, A \subseteq B, B \subseteq 1 .. MaxTrainingAttempts - 1
    PROVE  /\ Cardinality(A) \in Nat /\ Cardinality(B) \in Nat
           /\ Cardinality(A) <= Cardinality(B) /\ Cardinality(B) <= MaxTrainingAttempts - 1
           /\ A = {} <=> Cardinality(A) = 0
           /\ B = {} <=> Cardinality(B) = 0
           /\ A # B => Cardinality(A) < Cardinality(B)
<1> DEFINE I == 1 .. MaxTrainingAttempts - 1
<1>1. MaxTrainingAttempts \in Nat \ {0}
  BY ConstantsAssumption
<1>2. IsFiniteSet(I) /\ Cardinality(I) = MaxTrainingAttempts - 1
  BY <1>1, FS_Interval
<1>3. IsFiniteSet(B) /\ Cardinality(B) <= Cardinality(I)
  BY <1>2, FS_Subset
<1>4. /\ IsFiniteSet(A) /\ Cardinality(A) <= Cardinality(B)
      /\ Cardinality(A) = Cardinality(B) => A = B
  BY <1>3, FS_Subset
<1>5. Cardinality(A) \in Nat /\ Cardinality(B) \in Nat
  BY <1>3, <1>4, FS_CardinalityType
<1>6. (A = {} <=> Cardinality(A) = 0) /\ (B = {} <=> Cardinality(B) = 0)
  BY <1>3, <1>4, FS_EmptySet
<1> QED
  BY <1>2, <1>3, <1>4, <1>5, <1>6

\* Such a step keeps the bound of the job.
LEMMA AttemptStepKeepsBound ==
    ASSUME TypeOK, TypeOK', NEW j \in Jobs, BoundOK(j), AttemptStep(j)
    PROVE  BoundOK(j)'
<1>1. executions[j] \in Seq(Execution) /\ executions'[j] \in Seq(Execution)
  BY DEF TypeOK
<1>2. /\ Len(executions[j]) \in Nat /\ DOMAIN executions[j] = 1 .. Len(executions[j])
      /\ Len(executions'[j]) \in Nat /\ DOMAIN executions'[j] = 1 .. Len(executions'[j])
  BY <1>1, LenProperties
<1>3. retries \in Nat /\ retries' \in Nat /\ MaxTrainingAttempts \in Nat \ {0}
  BY ConstantsAssumption DEF TypeOK
<1>4. Due(j) \in Nat /\ Due(j)' \in Nat
  <2>1. Due(j) \in {Len(executions[j]) + 1, Len(executions[j]) + 0}
    BY DEF Due
  <2>2. Due(j)' \in {Len(executions'[j]) + 1, Len(executions'[j]) + 0}
    BY DEF Due
  <2> QED
    BY <1>2, <2>1, <2>2
<1>5. EarlyEnded(j) \subseteq EarlyEnded(j)'
  BY DEF AttemptStep
<1>6. EarlyEnded(j)' \subseteq 1 .. MaxTrainingAttempts - 1
  BY <1>2, <1>3 DEF EarlyEnded
<1>7. PICK c \in Nat, c2 \in Nat :
         /\ c = Cardinality(EarlyEnded(j)) /\ c2 = Cardinality(EarlyEnded(j)')
         /\ c <= c2 /\ c2 <= MaxTrainingAttempts - 1
         /\ EarlyEnded(j) = {} <=> c = 0
         /\ EarlyEnded(j)' = {} <=> c2 = 0
         /\ EarlyEnded(j) # EarlyEnded(j)' => c < c2
  BY <1>5, <1>6, EarlySets
<1>8. /\ c = 0 => Due(j) <= 1 + retries
      /\ c # 0 /\ Due(j) > MaxTrainingAttempts =>
             Due(j) <= MaxTrainingAttempts + retries + c - 1
  BY <1>7 DEF BoundOK
<1>9. \/ Due(j)' <= Due(j) /\ retries' >= retries
      \/ Due(j)' <= Due(j) + 1 /\ retries' >= retries + 1
      \/ Due(j)' <= Due(j) + 1 /\ retries' = retries /\ c2 > c
      \/ Due(j)' <= MaxTrainingAttempts /\ retries' = retries /\ c2 # 0
  BY <1>7 DEF AttemptStep
<1>10. /\ c2 = 0 => Due(j)' <= 1 + retries'
       /\ c2 # 0 /\ Due(j)' > MaxTrainingAttempts =>
              Due(j)' <= MaxTrainingAttempts + retries' + c2 - 1
  BY <1>3, <1>4, <1>7, <1>8, <1>9, BoundArithmetic
<1>11. failureCode'[j] \in RETRIABLE_FAILURE_CODES \/ j \in picked' =>
           EarlyEnded(j)' # {} \/ Len(executions'[j]) >= MaxTrainingAttempts
  <2>1. Len(executions'[j]) >= Len(executions[j])
    BY DEF AttemptStep
  <2>2. CASE EarlyEnded(j) # {} \/ Len(executions[j]) >= MaxTrainingAttempts
    BY <1>2, <1>3, <1>5, <2>1, <2>2
  <2>3. CASE ~(failureCode[j] \in RETRIABLE_FAILURE_CODES \/ j \in picked)
    BY <2>3 DEF AttemptStep
  <2> QED
    BY <2>2, <2>3 DEF BoundOK
<1> QED
  BY <1>7, <1>10, <1>11 DEF BoundOK

\* A rewritten row that does not come back to life keeps every early end.
LEMMA RewriteKeepsEnds ==
    ASSUME NEW j \in Jobs, NEW k \in DOMAIN executions[j], NEW st, NEW ph,
           Rewrites(j, k, st, ph),
           executions[j][k].status \notin {"ASSIGNED", "RUNNING"} =>
               st \notin {"ASSIGNED", "RUNNING"}
    PROVE  \A i \in Jobs : /\ EarlyEnded(i) \subseteq EarlyEnded(i)'
                           /\ Len(executions'[i]) = Len(executions[i])
<1> SUFFICES ASSUME NEW i \in Jobs
             PROVE  /\ EarlyEnded(i) \subseteq EarlyEnded(i)'
                    /\ Len(executions'[i]) = Len(executions[i])
  OBVIOUS
<1>1. CASE i # j
  BY <1>1 DEF Rewrites, EarlyEnded
<1>2. CASE i = j
  <2>1. ASSUME NEW m \in EarlyEnded(j) PROVE m \in EarlyEnded(j)'
    <3>1. /\ m \in DOMAIN executions[j] /\ m < MaxTrainingAttempts
          /\ executions[j][m].status \notin {"ASSIGNED", "RUNNING"}
      BY DEF EarlyEnded
    <3>2. m \in DOMAIN executions'[j] /\ executions'[j][m].status \notin {"ASSIGNED", "RUNNING"}
      BY <3>1 DEF Rewrites
    <3> QED
      BY <3>1, <3>2 DEF EarlyEnded
  <2> QED
    BY <1>2, <2>1 DEF Rewrites
<1> QED
  BY <1>1, <1>2

\* A new row is one attempt more and keeps every early end.
LEMMA AppendKeepsEnds ==
    ASSUME NEW j \in Jobs, Appends(j)
    PROVE  /\ \A i \in Jobs : EarlyEnded(i) \subseteq EarlyEnded(i)'
           /\ \A i \in Jobs : i # j => Len(executions'[i]) = Len(executions[i])
           /\ Len(executions'[j]) = Len(executions[j]) + 1
<1>1. ASSUME NEW i \in Jobs, NEW m \in EarlyEnded(i) PROVE m \in EarlyEnded(i)'
  <2>1. /\ m \in DOMAIN executions[i] /\ m < MaxTrainingAttempts
        /\ executions[i][m].status \notin {"ASSIGNED", "RUNNING"}
    BY <1>1 DEF EarlyEnded
  <2>2. m \in DOMAIN executions'[i] /\ executions'[i][m] = executions[i][m]
    BY <2>1 DEF Appends
  <2> QED
    BY <2>1, <2>2 DEF EarlyEnded
<1> QED
  BY <1>1 DEF Appends

\* A step that adds no attempt.
LEMMA CalmStep ==
    ASSUME TypeOK, TypeOK', NEW i \in Jobs,
           EarlyEnded(i) \subseteq EarlyEnded(i)',
           Len(executions'[i]) = Len(executions[i]),
           jobStatus'[i] \in {"ABSENT", "BLOCKED"} => jobStatus[i] \in {"ABSENT", "BLOCKED"},
           retries' >= retries,
           failureCode'[i] \in RETRIABLE_FAILURE_CODES \/ i \in picked' =>
               \/ failureCode[i] \in RETRIABLE_FAILURE_CODES \/ i \in picked
               \/ EarlyEnded(i)' # {} \/ Len(executions'[i]) >= MaxTrainingAttempts
    PROVE  AttemptStep(i)
<1>1. Len(executions[i]) \in Nat
  <2>1. executions[i] \in Seq(Execution)
    BY DEF TypeOK
  <2> QED
    BY <2>1, LenProperties
<1>2. Due(i)' <= Due(i)
  <2>1. CASE jobStatus[i] \in {"ABSENT", "BLOCKED"}
    BY <1>1, <2>1 DEF Due
  <2>2. CASE jobStatus[i] \notin {"ABSENT", "BLOCKED"}
    BY <1>1, <2>2 DEF Due
  <2> QED
    BY <2>1, <2>2
<1>3. Len(executions'[i]) >= Len(executions[i])
  BY <1>1
<1> QED
  BY <1>2, <1>3 DEF AttemptStep

\* What a worker's step does to the row it works for, and to its job.
LEMMA WorkEffect ==
    ASSUME IInv, NEW j \in Jobs, NEW k \in DOMAIN executions[j], Work(j, k) \/ Crash(j, k)
    PROVE  \E st \in ExecStatus, ph \in Phase :
             /\ Rewrites(j, k, st, ph)
             /\ executions[j][k].status \notin {"ASSIGNED", "RUNNING"} =>
                   st \notin {"ASSIGNED", "RUNNING"}
             /\ \A i \in Jobs : jobStatus'[i] \in {"ABSENT", "BLOCKED"} =>
                   jobStatus'[i] = jobStatus[i]
             /\ \A i \in Jobs : failureCode'[i] # failureCode[i] => i = j /\ st = "FAILED"
             /\ picked' = picked /\ retries' = retries
<1> DEFINE Effect(st, ph) ==
             /\ SetExecution(j, k, st, ph)
             /\ executions[j][k].status \notin {"ASSIGNED", "RUNNING"} =>
                   st \notin {"ASSIGNED", "RUNNING"}
             /\ \A i \in Jobs : jobStatus'[i] \in {"ABSENT", "BLOCKED"} =>
                   jobStatus'[i] = jobStatus[i]
             /\ \A i \in Jobs : failureCode'[i] # failureCode[i] => i = j /\ st = "FAILED"
             /\ picked' = picked /\ retries' = retries
<1> USE RowFacts
<1>1. CASE Claim(j, k)
  <2>1. "RUNNING" \in ExecStatus /\ "claimed" \in Phase
    BY DEF ExecStatus, Phase
  <2>2. Effect("RUNNING", "claimed")
    BY <1>1 DEF Claim
  <2>3. \E st \in ExecStatus, ph \in Phase : Effect(st, ph)
    BY <2>1, <2>2
  <2> QED
    BY <2>3, SetExecutionEffect DEF IInv, TypeOK
<1>2. CASE CancelRefused(j, k)
  <2>1. "CANCELLED" \in ExecStatus /\ "gone" \in Phase
    BY DEF ExecStatus, Phase
  <2>2. Effect("CANCELLED", "gone")
    BY <1>2 DEF CancelRefused
  <2>3. \E st \in ExecStatus, ph \in Phase : Effect(st, ph)
    BY <2>1, <2>2
  <2> QED
    BY <2>3, SetExecutionEffect DEF IInv, TypeOK
<1>3. CASE Complete(j, k)
  <2>1. "SUCCEEDED" \in ExecStatus /\ "gone" \in Phase
    BY DEF ExecStatus, Phase
  <2>2. Effect("SUCCEEDED", "gone")
    BY <1>3 DEF Complete
  <2>3. \E st \in ExecStatus, ph \in Phase : Effect(st, ph)
    BY <2>1, <2>2
  <2> QED
    BY <2>3, SetExecutionEffect DEF IInv, TypeOK
<1>4. CASE Fail(j, k)
  <2>1. "FAILED" \in ExecStatus /\ "gone" \in Phase
    BY DEF ExecStatus, Phase
  <2>2. Effect("FAILED", "gone")
    BY <1>4 DEF Fail, FailJob
  <2>3. \E st \in ExecStatus, ph \in Phase : Effect(st, ph)
    BY <2>1, <2>2
  <2> QED
    BY <2>3, SetExecutionEffect DEF IInv, TypeOK
<1>5. CASE Stopped(j, k) /\ jobStatus[j] = "STOPPING"
  <2>1. "STOPPED" \in ExecStatus /\ "gone" \in Phase
    BY DEF ExecStatus, Phase
  <2>2. Effect("STOPPED", "gone")
    BY <1>5 DEF Stopped
  <2>3. \E st \in ExecStatus, ph \in Phase : Effect(st, ph)
    BY <2>1, <2>2
  <2> QED
    BY <2>3, SetExecutionEffect DEF IInv, TypeOK
<1>6. CASE \/ ClaimRefused(j, k) \/ StartRunning(j, k) \/ TrainEnds(j, k) \/ RaiseError(j, k)
           \/ CompleteRejected(j, k) \/ Crash(j, k)
           \/ Stopped(j, k) /\ jobStatus[j] # "STOPPING"
  <2>1. \E ph \in Phase : SetPhase(j, k, ph)
    BY <1>6 DEF ClaimRefused, StartRunning, TrainEnds, RaiseError, CompleteRejected, Crash,
                Stopped, Phase
  <2>2. PICK ph \in Phase : SetPhase(j, k, ph)
    BY <2>1
  <2>3. /\ failureCode' = failureCode /\ picked' = picked /\ retries' = retries
        /\ \A i \in Jobs : jobStatus'[i] \in {"ABSENT", "BLOCKED"} => jobStatus'[i] = jobStatus[i]
    BY <1>6 DEF ClaimRefused, StartRunning, TrainEnds, RaiseError, CompleteRejected, Crash,
                Stopped
  <2>4. Effect(executions[j][k].status, ph)
    BY <2>2, <2>3 DEF SetPhase
  <2>5. \E st \in ExecStatus, p \in Phase : Effect(st, p)
    BY <2>4
  <2> QED
    BY <2>5, SetExecutionEffect DEF IInv, TypeOK
<1> QED
  BY <1>1, <1>2, <1>3, <1>4, <1>5, <1>6 DEF Work

\* A worker adds no attempt, and a job that fails with a retriable code has an
\* attempt that is over.
LEMMA WorkAttempts ==
    ASSUME IInv, IInv', NEW j \in Jobs, NEW k \in DOMAIN executions[j], Work(j, k) \/ Crash(j, k),
           NEW i \in Jobs
    PROVE  AttemptStep(i)
<1>1. PICK st \in ExecStatus, ph \in Phase :
             /\ Rewrites(j, k, st, ph)
             /\ executions[j][k].status \notin {"ASSIGNED", "RUNNING"} =>
                   st \notin {"ASSIGNED", "RUNNING"}
             /\ \A l \in Jobs : jobStatus'[l] \in {"ABSENT", "BLOCKED"} =>
                   jobStatus'[l] = jobStatus[l]
             /\ \A l \in Jobs : failureCode'[l] # failureCode[l] => l = j /\ st = "FAILED"
             /\ picked' = picked /\ retries' = retries
  BY WorkEffect
<1>2. TypeOK /\ TypeOK'
  BY DEF IInv
<1>3. EarlyEnded(i) \subseteq EarlyEnded(i)' /\ Len(executions'[i]) = Len(executions[i])
  BY <1>1, RewriteKeepsEnds
<1>4. failureCode'[i] \in RETRIABLE_FAILURE_CODES \/ i \in picked' =>
               \/ failureCode[i] \in RETRIABLE_FAILURE_CODES \/ i \in picked
               \/ EarlyEnded(i)' # {} \/ Len(executions'[i]) >= MaxTrainingAttempts
  <2>1. CASE failureCode'[i] = failureCode[i]
    BY <1>1, <2>1
  <2>2. CASE failureCode'[i] # failureCode[i]
    <3>1. i = j /\ st = "FAILED"
      BY <1>1, <2>2
    <3>2. k \in DOMAIN executions'[j] /\ executions'[j][k].status = "FAILED"
      BY <1>1, <3>1 DEF Rewrites
    <3>3. executions'[j] \in Seq(Execution)
      BY <1>2 DEF TypeOK
    <3>4. k \in 1 .. Len(executions'[j]) /\ Len(executions'[j]) \in Nat
      BY <3>2, <3>3, LenProperties
    <3>5. CASE k < MaxTrainingAttempts
      <4>1. k \in EarlyEnded(j)'
        BY <3>2, <3>5 DEF EarlyEnded
      <4> QED
        BY <3>1, <4>1
    <3>6. CASE ~(k < MaxTrainingAttempts)
      <4>1. Len(executions'[j]) >= MaxTrainingAttempts
        BY <3>4, <3>6, ConstantsAssumption
      <4> QED
        BY <3>1, <4>1
    <3> QED
      BY <3>5, <3>6
  <2> QED
    BY <2>1, <2>2
<1>5. jobStatus'[i] \in {"ABSENT", "BLOCKED"} => jobStatus[i] \in {"ABSENT", "BLOCKED"}
  BY <1>1
<1>6. retries' >= retries
  BY <1>1, <1>2 DEF TypeOK
<1> QED
  BY <1>2, <1>3, <1>4, <1>5, <1>6, CalmStep

\* The two values of Due, before and after a step.
LEMMA DueCases ==
    ASSUME NEW j
    PROVE  /\ jobStatus[j] \in {"ABSENT", "BLOCKED"} => Due(j) = Len(executions[j]) + 1
           /\ jobStatus[j] \notin {"ABSENT", "BLOCKED"} => Due(j) = Len(executions[j]) + 0
           /\ jobStatus'[j] \in {"ABSENT", "BLOCKED"} => Due(j)' = Len(executions'[j]) + 1
           /\ jobStatus'[j] \notin {"ABSENT", "BLOCKED"} => Due(j)' = Len(executions'[j]) + 0
<1>1. jobStatus[j] \in {"ABSENT", "BLOCKED"} => Due(j) = Len(executions[j]) + 1
  BY DEF Due
<1>2. jobStatus[j] \notin {"ABSENT", "BLOCKED"} => Due(j) = Len(executions[j]) + 0
  BY DEF Due
<1>3. jobStatus'[j] \in {"ABSENT", "BLOCKED"} => Due(j)' = Len(executions'[j]) + 1
  BY DEF Due
<1>4. jobStatus'[j] \notin {"ABSENT", "BLOCKED"} => Due(j)' = Len(executions'[j]) + 0
  BY DEF Due
<1> QED
  BY <1>1, <1>2, <1>3, <1>4

\* A dispatch grants job j one attempt more than it had; the others keep theirs.
LEMMA DispatchAttempts ==
    ASSUME IInv, IInv', NEW j \in Jobs, Dispatch(j),
           jobStatus' = [jobStatus EXCEPT ![j] = "QUEUED"],
           \A i \in Jobs : failureCode'[i] # failureCode[i] =>
               failureCode'[i] \notin RETRIABLE_FAILURE_CODES,
           picked' \subseteq picked, retries' >= retries,
           \/ jobStatus[j] \in {"ABSENT", "BLOCKED"}
           \/ retries' >= retries + 1
           \/ /\ Len(executions[j]) < MaxTrainingAttempts /\ retries' = retries
              /\ EarlyEnded(j) # {},
           NEW i \in Jobs
    PROVE  AttemptStep(i)
<1>1. TypeOK /\ TypeOK'
  BY DEF IInv
<1>2. Appends(j)
  BY <1>1, DispatchEffect DEF TypeOK
<1>3. /\ \A l \in Jobs : EarlyEnded(l) \subseteq EarlyEnded(l)'
      /\ \A l \in Jobs : l # j => Len(executions'[l]) = Len(executions[l])
      /\ Len(executions'[j]) = Len(executions[j]) + 1
  BY <1>2, AppendKeepsEnds
<1>4. failureCode'[i] \in RETRIABLE_FAILURE_CODES \/ i \in picked' =>
          failureCode[i] \in RETRIABLE_FAILURE_CODES \/ i \in picked
  OBVIOUS
<1>5. /\ jobStatus'[j] = "QUEUED"
      /\ \A l \in Jobs : l # j => jobStatus'[l] = jobStatus[l]
  BY <1>1 DEF TypeOK
<1>6. CASE i # j
  <2>1. Len(executions'[i]) = Len(executions[i])
    BY <1>3, <1>6
  <2>2. jobStatus'[i] \in {"ABSENT", "BLOCKED"} => jobStatus[i] \in {"ABSENT", "BLOCKED"}
    BY <1>5, <1>6
  <2> QED
    BY <1>1, <1>3, <1>4, <2>1, <2>2, CalmStep
<1>7. CASE i = j
  <2>1. executions[j] \in Seq(Execution)
    BY <1>1 DEF TypeOK
  <2>2. Len(executions[j]) \in Nat
    BY <2>1, LenProperties
  <2>3. Due(j)' = Len(executions[j]) + 1
    BY <1>3, <1>5, <2>2, DueCases
  <2>4. /\ EarlyEnded(j) \subseteq EarlyEnded(j)'
        /\ Len(executions'[j]) >= Len(executions[j])
    BY <1>3, <2>2
  <2>5. CASE jobStatus[j] \in {"ABSENT", "BLOCKED"}
    <3>1. Due(j) = Len(executions[j]) + 1
      BY <2>5, DueCases
    <3>2. Due(j)' <= Due(j)
      BY <2>2, <2>3, <3>1
    <3> QED
      BY <1>4, <1>7, <2>4, <3>2 DEF AttemptStep
  <2>6. CASE jobStatus[j] \notin {"ABSENT", "BLOCKED"} /\ retries' >= retries + 1
    <3>1. Due(j) = Len(executions[j])
      BY <2>2, <2>6, DueCases
    <3>2. Due(j)' <= Due(j) + 1
      BY <2>2, <2>3, <3>1
    <3> QED
      BY <1>4, <1>7, <2>4, <2>6, <3>2 DEF AttemptStep
  <2>7. CASE /\ Len(executions[j]) < MaxTrainingAttempts /\ retries' = retries
             /\ EarlyEnded(j) # {}
    <3>1. Due(j)' <= MaxTrainingAttempts
      BY <2>2, <2>3, <2>7, ConstantsAssumption
    <3>2. EarlyEnded(j)' # {}
      BY <2>4, <2>7
    <3> QED
      BY <1>4, <1>7, <2>4, <2>7, <3>1, <3>2 DEF AttemptStep
  <2> QED
    BY <2>5, <2>6, <2>7
<1> QED
  BY <1>6, <1>7

\* Users add the attempt of the first dispatch, and one for every retry().
LEMMA ApiAttempts ==
    ASSUME IInv, IInv', NEW j \in Jobs, Api(j), NEW i \in Jobs
    PROVE  AttemptStep(i)
<1>1. TypeOK /\ TypeOK' /\ retries \in Nat
  BY DEF IInv, TypeOK
<1>2. ASSUME UNCHANGED executions
      PROVE  /\ EarlyEnded(i) \subseteq EarlyEnded(i)'
             /\ Len(executions'[i]) = Len(executions[i])
  BY <1>2 DEF EarlyEnded
<1>3. ASSUME NEW D \in SUBSET (Jobs \ {j}), Create(j, D)
      PROVE  AttemptStep(i)
  <2>1. UNCHANGED <<failureCode, picked, retries>> /\ jobStatus[j] = "ABSENT"
    BY <1>3 DEF Create
  <2>2. CASE jobStatus' = [jobStatus EXCEPT ![j] = "QUEUED"] /\ Dispatch(j)
    <3>1. retries' >= retries /\ picked' \subseteq picked
      BY <1>1, <2>1
    <3> QED
      BY <2>1, <2>2, <3>1, DispatchAttempts
  <2>3. CASE jobStatus' = [jobStatus EXCEPT ![j] = "BLOCKED"] /\ UNCHANGED executions
    <3>1. retries' >= retries
      BY <1>1, <2>1
    <3>2. jobStatus'[i] \in {"ABSENT", "BLOCKED"} => jobStatus[i] \in {"ABSENT", "BLOCKED"}
      BY <1>1, <2>1, <2>3 DEF TypeOK
    <3> QED
      BY <1>1, <1>2, <2>1, <2>3, <3>1, <3>2, CalmStep
  <2> QED
    BY <1>3, <2>2, <2>3 DEF Create
<1>4. CASE Retry(j)
  <2>1. /\ retries' = retries + 1 /\ picked' = picked
        /\ failureCode' = [failureCode EXCEPT ![j] = "none"]
        /\ jobStatus[j] \in TERMINAL
    BY <1>4 DEF Retry
  <2>2. \A l \in Jobs : failureCode'[l] # failureCode[l] =>
            failureCode'[l] \notin RETRIABLE_FAILURE_CODES
    BY <1>1, <2>1 DEF TypeOK, RETRIABLE_FAILURE_CODES
  <2>3. retries' >= retries + 1 /\ retries' >= retries
    BY <1>1, <2>1
  <2>4. CASE jobStatus' = [jobStatus EXCEPT ![j] = "QUEUED"] /\ Dispatch(j)
    BY <2>1, <2>2, <2>3, <2>4, DispatchAttempts
  <2>5. CASE jobStatus' = [jobStatus EXCEPT ![j] = "BLOCKED"] /\ UNCHANGED executions
    <3>1. executions[i] \in Seq(Execution)
      BY <1>1 DEF TypeOK
    <3>2. Len(executions[i]) \in Nat
      BY <3>1, LenProperties
    <3>3. Due(i) \in {Len(executions[i]), Len(executions[i]) + 1}
      BY <3>2, DueCases
    <3>4. Due(i)' \in {Len(executions[i]), Len(executions[i]) + 1}
      BY <2>5, <3>2, DueCases
    <3>5. Due(i)' <= Due(i) + 1
      BY <3>2, <3>3, <3>4
    <3>6. failureCode'[i] \in RETRIABLE_FAILURE_CODES \/ i \in picked' =>
              failureCode[i] \in RETRIABLE_FAILURE_CODES \/ i \in picked
      BY <2>1, <2>2
    <3>7. Len(executions'[i]) >= Len(executions[i])
      BY <2>5, <3>2
    <3> QED
      BY <1>2, <2>3, <2>5, <3>5, <3>6, <3>7 DEF AttemptStep
  <2> QED
    BY <1>4, <2>4, <2>5 DEF Retry
<1>5. CASE RequestStop(j)
  <2>1. UNCHANGED <<executions, failureCode, picked, retries>>
    BY <1>5 DEF RequestStop
  <2>2. jobStatus'[i] \in {"ABSENT", "BLOCKED"} => jobStatus[i] \in {"ABSENT", "BLOCKED"}
    BY <1>1, <1>5 DEF RequestStop, TypeOK
  <2> QED
    BY <1>1, <1>2, <2>1, <2>2, CalmStep
<1> QED
  BY <1>3, <1>4, <1>5 DEF Api

\* The passes over failed and blocked jobs add attempts below the limit, and the
\* one a BLOCKED job is owed.
LEMMA RequeueAttempts ==
    ASSUME IInv, IInv', \A l \in Jobs : BoundOK(l),
           NEW j \in Jobs, SelectRetriable \/ RetryFailed(j) \/ Promote(j), NEW i \in Jobs
    PROVE  AttemptStep(i)
<1>1. TypeOK /\ TypeOK' /\ retries \in Nat
  BY DEF IInv, TypeOK
<1>2. retries' = retries
  BY DEF SelectRetriable, RetryFailed, Promote
<1>3. ASSUME UNCHANGED executions
      PROVE  /\ EarlyEnded(i) \subseteq EarlyEnded(i)'
             /\ Len(executions'[i]) = Len(executions[i])
  BY <1>3 DEF EarlyEnded
<1>4. CASE SelectRetriable
  <2>1. UNCHANGED <<executions, failureCode, jobStatus>>
    BY <1>4 DEF SelectRetriable
  <2>2. i \in picked' => failureCode[i] \in RETRIABLE_FAILURE_CODES
    BY <1>4 DEF SelectRetriable
  <2> QED
    BY <1>1, <1>2, <1>3, <2>1, <2>2, CalmStep
<1>5. CASE RetryFailed(j)
  <2>1. j \in picked /\ picked' = picked \ {j}
    BY <1>5 DEF RetryFailed
  <2>2. CASE UNCHANGED <<jobStatus, failureCode, executions>>
    BY <1>1, <1>2, <1>3, <2>1, <2>2, CalmStep
  <2>3. CASE /\ Len(executions[j]) < MaxTrainingAttempts
             /\ jobStatus' = [jobStatus EXCEPT ![j] = "QUEUED"]
             /\ failureCode' = [failureCode EXCEPT ![j] = "none"]
             /\ Dispatch(j)
    <3>1. \A l \in Jobs : failureCode'[l] # failureCode[l] =>
              failureCode'[l] \notin RETRIABLE_FAILURE_CODES
      BY <1>1, <2>3 DEF TypeOK, RETRIABLE_FAILURE_CODES
    <3>2. EarlyEnded(j) # {}
      <4>1. executions[j] \in Seq(Execution)
        BY <1>1 DEF TypeOK
      <4>2. ~(Len(executions[j]) >= MaxTrainingAttempts)
        BY <2>3, <4>1, LenProperties, ConstantsAssumption
      <4> QED
        BY <2>1, <4>2 DEF BoundOK
    <3>3. retries' >= retries /\ picked' \subseteq picked
      BY <1>1, <1>2, <2>1
    <3> QED
      BY <1>2, <2>3, <3>1, <3>2, <3>3, DispatchAttempts
  <2> QED
    BY <1>5, <2>2, <2>3 DEF RetryFailed
<1>6. CASE Promote(j)
  <2>1. jobStatus[j] = "BLOCKED" /\ picked' = picked
    BY <1>6 DEF Promote
  <2>2. CASE FailJob(j, "DEPENDENCY_FAILED") /\ UNCHANGED executions
    <3>1. failureCode'[i] \in RETRIABLE_FAILURE_CODES => failureCode[i] \in RETRIABLE_FAILURE_CODES
      BY <1>1, <2>2 DEF FailJob, TypeOK, RETRIABLE_FAILURE_CODES
    <3>2. jobStatus'[i] \in {"ABSENT", "BLOCKED"} => jobStatus[i] \in {"ABSENT", "BLOCKED"}
      BY <1>1, <2>2 DEF FailJob, TypeOK
    <3> QED
      BY <1>1, <1>2, <1>3, <2>1, <2>2, <3>1, <3>2, CalmStep
  <2>3. CASE /\ jobStatus' = [jobStatus EXCEPT ![j] = "QUEUED"]
             /\ Dispatch(j)
             /\ UNCHANGED failureCode
    <3>1. retries' >= retries /\ picked' \subseteq picked
      BY <1>1, <1>2, <2>1
    <3> QED
      BY <2>1, <2>3, <3>1, DispatchAttempts
  <2> QED
    BY <1>6, <2>2, <2>3 DEF Promote
<1> QED
  BY <1>4, <1>5, <1>6

\* A lost attempt is over; when the scheduler replaces it, it was an early one.
LEMMA LostAttempts ==
    ASSUME IInv, IInv', NEW r \in reconciling, LostStops(r) \/ LostFails(r) \/ LostRetries(r),
           UNCHANGED <<picked, retries>>, NEW i \in Jobs
    PROVE  AttemptStep(i)
<1> DEFINE j == r.job
           k == r.attempt
           s == executions[j]
<1>1. TypeOK /\ TypeOK' /\ retries \in Nat
  BY DEF IInv, TypeOK
<1>2. /\ j \in Jobs /\ k \in DOMAIN s /\ s[k].status = "RUNNING"
      /\ s[k].phase \in Phase \ {"idle", "refused"} /\ "LOST" \in ExecStatus
  BY LockedFacts DEF ExecStatus
<1>3. CASE LostStops(r) \/ LostFails(r)
  <2>1. Rewrites(j, k, "LOST", s[k].phase)
    BY <1>1, <1>2, <1>3, SetExecutionEffect DEF LostStops, LostFails, TypeOK
  <2>2. EarlyEnded(i) \subseteq EarlyEnded(i)' /\ Len(executions'[i]) = Len(executions[i])
    BY <1>2, <2>1, RewriteKeepsEnds
  <2>3. /\ jobStatus'[i] \in {"ABSENT", "BLOCKED"} => jobStatus[i] \in {"ABSENT", "BLOCKED"}
        /\ failureCode'[i] \in RETRIABLE_FAILURE_CODES => failureCode[i] \in RETRIABLE_FAILURE_CODES
    BY <1>1, <1>2, <1>3 DEF LostStops, LostFails, FailJob, TypeOK, RETRIABLE_FAILURE_CODES
  <2> QED
    BY <1>1, <2>2, <2>3, CalmStep
<1>4. CASE LostRetries(r)
  <2> DEFINE lost == [status |-> "LOST", phase |-> s[k].phase]
             fresh == [status |-> "ASSIGNED", phase |-> "idle"]
             u == [s EXCEPT ![k] = lost]
             t == Append(u, fresh)
  <2>1. s \in Seq(Execution)
    BY <1>1, <1>2 DEF TypeOK
  <2>2. lost \in Execution /\ fresh \in Execution /\ lost.status = "LOST"
    BY <1>2 DEF Execution, ExecStatus, Phase
  <2>3. /\ u \in Seq(Execution) /\ Len(u) = Len(s) /\ DOMAIN u = DOMAIN s
        /\ u[k] = lost /\ \A m \in DOMAIN s : m # k => u[m] = s[m]
    BY <1>2, <2>1, <2>2, ExceptSeq
  <2>4. /\ t \in Seq(Execution) /\ Len(t) = Len(s) + 1
        /\ \A m \in 1 .. Len(u) : t[m] = u[m]
    BY <2>2, <2>3, AppendProperties
  <2>5. DOMAIN s = 1 .. Len(s) /\ DOMAIN t = 1 .. Len(s) + 1 /\ Len(s) \in Nat
    BY <2>1, <2>4, LenProperties
  <2>6. t[k] = lost /\ \A m \in DOMAIN s : m # k => t[m] = s[m]
    BY <1>2, <2>3, <2>4, <2>5
  <2>7. executions' = [executions EXCEPT ![j] = t]
    BY <1>4 DEF LostRetries
  <2>8. executions'[j] = t /\ \A l \in Jobs : l # j => executions'[l] = executions[l]
    BY <1>1, <1>2, <2>7 DEF TypeOK
  <2>9. /\ jobStatus'[j] = "QUEUED" /\ \A l \in Jobs : l # j => jobStatus'[l] = jobStatus[l]
        /\ failureCode'[j] = "none" /\ \A l \in Jobs : l # j => failureCode'[l] = failureCode[l]
        /\ k < MaxTrainingAttempts
    BY <1>1, <1>2, <1>4 DEF LostRetries, TypeOK
  <2> HIDE DEF j, k, s, lost, fresh, u, t
  <2>10. CASE i # j
    <3>1. EarlyEnded(i) \subseteq EarlyEnded(i)' /\ Len(executions'[i]) = Len(executions[i])
      BY <2>8, <2>10 DEF EarlyEnded
    <3> QED
      BY <1>1, <2>9, <2>10, <3>1, CalmStep
  <2>11. CASE i = j
    <3>1. s = executions[i]
      BY <2>11 DEF s
    <3>2. k \in EarlyEnded(i)' /\ k \notin EarlyEnded(i)
      BY <1>2, <2>2, <2>5, <2>6, <2>8, <2>9, <2>11, <3>1 DEF EarlyEnded
    <3>3. ASSUME NEW m \in EarlyEnded(i) PROVE m \in EarlyEnded(i)'
      <4>1. /\ m \in DOMAIN s /\ m < MaxTrainingAttempts /\ m # k
            /\ s[m].status \notin {"ASSIGNED", "RUNNING"}
        BY <3>1, <3>2 DEF EarlyEnded
      <4>2. m \in DOMAIN t /\ t[m] = s[m]
        BY <2>5, <2>6, <4>1
      <4> QED
        BY <2>8, <2>11, <4>1, <4>2 DEF EarlyEnded
    <3>4. Len(executions'[i]) = Len(executions[i]) + 1 /\ Len(executions[i]) \in Nat
      BY <2>4, <2>5, <2>8, <2>11, <3>1
    <3>5. Due(i)' = Len(executions[i]) + 1
      BY <2>4, <2>8, <2>9, <2>11, <3>1, <3>4, DueCases
    <3>6. Due(i) \in {Len(executions[i]), Len(executions[i]) + 1}
      BY <3>4, DueCases
    <3>7. Due(i)' <= Due(i) + 1 /\ Len(executions'[i]) >= Len(executions[i])
      BY <3>4, <3>5, <3>6
    <3>8. failureCode'[i] \notin RETRIABLE_FAILURE_CODES
      BY <2>9, <2>11 DEF RETRIABLE_FAILURE_CODES
    <3> QED
      BY <3>2, <3>3, <3>7, <3>8 DEF AttemptStep
  <2> QED
    BY <2>10, <2>11
<1> QED
  BY <1>3, <1>4

\* Every step keeps the bound of every job.
LEMMA NextBound == IInv /\ IInv' /\ BoundInv /\ [Next]_vars => BoundInv'
<1> SUFFICES ASSUME IInv, IInv', BoundInv, [Next]_vars PROVE BoundInv'
  OBVIOUS
<1>1. TypeOK /\ TypeOK' /\ retries \in Nat /\ \A l \in Jobs : BoundOK(l)
  BY DEF IInv, TypeOK, BoundInv
<1>2. ASSUME NEW i \in Jobs PROVE AttemptStep(i)
  <2>1. ASSUME NEW j \in Jobs, Api(j) PROVE AttemptStep(i)
    BY <2>1, ApiAttempts
  <2>2. ASSUME NEW j \in Jobs, Schedule(j) PROVE AttemptStep(i)
    <3>1. CASE ReconcileCommit
      BY <3>1, LostAttempts DEF ReconcileCommit
    <3>2. CASE SelectRetriable \/ RetryFailed(j) \/ Promote(j)
      BY <1>1, <3>2, RequeueAttempts
    <3>3. CASE \E k \in DOMAIN executions[j] : ReconcileRead(j, k)
      <4>1. UNCHANGED <<executions, failureCode, jobStatus, picked, retries>>
        BY <3>3 DEF ReconcileRead
      <4>2. EarlyEnded(i) \subseteq EarlyEnded(i)'
        BY <4>1 DEF EarlyEnded
      <4> QED
        BY <1>1, <4>1, <4>2, CalmStep
    <3> QED
      BY <2>2, <3>1, <3>2, <3>3 DEF Schedule
  <2>3. ASSUME NEW j \in Jobs, NEW k \in DOMAIN executions[j], Work(j, k) \/ Crash(j, k)
        PROVE  AttemptStep(i)
    BY <2>3, WorkAttempts
  <2>4. CASE UNCHANGED vars
    <3>1. UNCHANGED <<executions, failureCode, jobStatus, picked, retries>>
      BY <2>4 DEF vars
    <3>2. EarlyEnded(i) \subseteq EarlyEnded(i)'
      BY <3>1 DEF EarlyEnded
    <3> QED
      BY <1>1, <3>1, <3>2, CalmStep
  <2> QED
    BY <2>1, <2>2, <2>3, <2>4 DEF Next
<1>3. \A i \in Jobs : BoundOK(i)'
  BY <1>1, <1>2, AttemptStepKeepsBound
<1>4. retries' <= MaxRetries
  <2>1. retries' = retries \/ (retries < MaxRetries /\ retries' = retries + 1)
    BY DEF Next, vars, Api, Schedule, Work, Create, Retry, RequestStop, ReconcileCommit,
           SelectRetriable, RetryFailed, Promote, ReconcileRead, Crash, Claim, ClaimRefused,
           CancelRefused, StartRunning, TrainEnds, RaiseError, Complete, CompleteRejected,
           Fail, Stopped
  <2> QED
    BY <1>1, <2>1, ConstantsAssumption DEF BoundInv
<1> QED
  BY <1>3, <1>4 DEF BoundInv

\* Nothing has been dispatched, and every job is due its first attempt.
LEMMA InitBound == Init => BoundInv
<1> SUFFICES ASSUME Init PROVE BoundInv
  OBVIOUS
<1>1. retries = 0 /\ retries <= MaxRetries
  BY ConstantsAssumption DEF Init
<1>2. ASSUME NEW j \in Jobs PROVE BoundOK(j)
  <2>1. /\ executions[j] = << >> /\ jobStatus[j] = "ABSENT"
        /\ failureCode[j] = "none" /\ picked = {}
    BY DEF Init
  <2>2. EarlyEnded(j) = {} /\ Due(j) = 1
    BY <2>1 DEF EarlyEnded, Due
  <2> QED
    BY <1>1, <2>1, <2>2 DEF BoundOK, RETRIABLE_FAILURE_CODES
<1> QED
  BY <1>1, <1>2 DEF BoundInv

\* The bound on the attempts follows: there are at most MaxTrainingAttempts - 1
\* early attempts to be lost.
LEMMA BoundSuffices == IInv /\ BoundInv => AttemptsBounded
<1> SUFFICES ASSUME IInv, BoundInv, NEW j \in Jobs
             PROVE  Len(executions[j]) <= AttemptBound
  BY DEF AttemptsBounded
<1>1. executions[j] \in Seq(Execution) /\ retries \in Nat
  BY DEF IInv, TypeOK
<1>2. Len(executions[j]) \in Nat /\ DOMAIN executions[j] = 1 .. Len(executions[j])
  BY <1>1, LenProperties
<1>3. /\ MaxTrainingAttempts \in Nat \ {0} /\ MaxRetries \in Nat
      /\ retries <= MaxRetries /\ BoundOK(j)
  BY ConstantsAssumption DEF BoundInv
<1>4. Due(j) \in {Len(executions[j]), Len(executions[j]) + 1}
  BY <1>2, DueCases
<1>5. EarlyEnded(j) \subseteq 1 .. MaxTrainingAttempts - 1
  BY <1>2, <1>3 DEF EarlyEnded
<1>6. PICK c \in Nat : /\ c = Cardinality(EarlyEnded(j)) /\ c <= MaxTrainingAttempts - 1
                       /\ EarlyEnded(j) = {} <=> c = 0
  BY <1>5, EarlySets
<1>7. CASE c = 0
  <2>1. Due(j) <= 1 + retries
    BY <1>3, <1>6, <1>7 DEF BoundOK
  <2> QED
    BY <1>1, <1>2, <1>3, <1>4, <2>1 DEF AttemptBound
<1>8. CASE c # 0
  <2>1. Due(j) > MaxTrainingAttempts => Due(j) <= MaxTrainingAttempts + retries + c - 1
    BY <1>3, <1>6, <1>8 DEF BoundOK
  <2> QED
    BY <1>1, <1>2, <1>3, <1>4, <1>6, <1>8, <2>1 DEF AttemptBound
<1> QED
  BY <1>7, <1>8

\* No job gets more attempts than AttemptBound, whatever its workers, its users
\* and the passes of the scheduler do to it.
THEOREM AttemptsAreBounded == Spec => []AttemptsBounded
BY InitInv, NextInv, InitBound, NextBound, BoundSuffices, PTL DEF Spec

\* A job that has no attempt yet gets one only from create() and from
\* promoteBlockedTrainingJobs: a job that failed with a retriable code has one.
LEMMA FirstDispatchStep ==
    ASSUME IInv, IInv', BoundInv, [Next]_vars, NEW i \in Jobs,
           executions[i] = << >>, executions'[i] # << >>
    PROVE  DepsCompleted(dependsOn'[i])
<1>1. /\ executions \in [Jobs -> Seq(Execution)] /\ dependsOn \in [Jobs -> SUBSET Jobs]
      /\ BoundOK(i) /\ executions'[i] # executions[i]
  BY DEF IInv, TypeOK, BoundInv
<1>2. ASSUME NEW j \in Jobs, Dispatch(j) PROVE i = j
  BY <1>1, <1>2 DEF Dispatch
<1>3. ASSUME NEW j \in Jobs, Api(j) PROVE DepsCompleted(dependsOn'[i])
  <2>1. CASE \E D \in SUBSET (Jobs \ {j}) : Create(j, D)
    <3>1. PICK D \in SUBSET (Jobs \ {j}) : Create(j, D)
      BY <2>1
    <3>2. Dispatch(j) /\ DepsCompleted(D) /\ dependsOn' = [dependsOn EXCEPT ![j] = D]
      BY <1>1, <3>1 DEF Create
    <3>3. i = j
      BY <1>2, <3>2
    <3>4. dependsOn'[i] = D
      BY <1>1, <3>2, <3>3
    <3> QED
      BY <3>2, <3>4
  <2>2. CASE Retry(j)
    <3>1. executions[j] # << >> /\ Dispatch(j)
      BY <1>1, <2>2 DEF Retry
    <3> QED
      BY <1>2, <3>1
  <2>3. CASE RequestStop(j)
    BY <1>1, <2>3 DEF RequestStop
  <2> QED
    BY <1>3, <2>1, <2>2, <2>3 DEF Api
<1>4. ASSUME NEW j \in Jobs, Schedule(j) PROVE DepsCompleted(dependsOn'[i])
  <2>1. CASE ReconcileCommit
    <3>1. PICK r \in reconciling : LostStops(r) \/ LostFails(r) \/ LostRetries(r)
      BY <2>1 DEF ReconcileCommit
    <3>2. r.job \in Jobs /\ r.attempt \in DOMAIN executions[r.job]
      BY LockedFacts
    <3>3. r.job # i
      BY <3>2, EmptySeq
    <3> QED
      BY <1>1, <3>1, <3>3 DEF LostStops, LostFails, LostRetries, SetExecution
  <2>2. CASE RetryFailed(j)
    <3>1. j \in picked /\ Dispatch(j)
      BY <1>1, <2>2 DEF RetryFailed
    <3>2. i = j
      BY <1>2, <3>1
    <3>3. EarlyEnded(i) = {}
      BY DEF EarlyEnded
    <3>4. Len(executions[i]) = 0
      BY <1>1, EmptySeq
    <3> QED
      BY <1>1, <3>1, <3>2, <3>3, <3>4, ConstantsAssumption DEF BoundOK
  <2>3. CASE Promote(j)
    <3>1. Dispatch(j) /\ DepsCompleted(dependsOn[j]) /\ dependsOn' = dependsOn
      BY <1>1, <2>3 DEF Promote
    <3> QED
      BY <1>2, <3>1
  <2>4. CASE UNCHANGED executions
    BY <1>1, <2>4
  <2> QED
    BY <1>4, <2>1, <2>2, <2>3, <2>4 DEF Schedule, SelectRetriable, ReconcileRead
<1>5. ASSUME NEW j \in Jobs, NEW k \in DOMAIN executions[j], Work(j, k) \/ Crash(j, k)
      PROVE  FALSE
  <2>1. PICK st \in ExecStatus, ph \in Phase : Rewrites(j, k, st, ph)
    BY <1>5, WorkEffect
  <2>2. j # i
    BY <1>5, EmptySeq
  <2> QED
    BY <1>1, <2>1, <2>2 DEF Rewrites
<1>6. CASE UNCHANGED vars
  BY <1>1, <1>6 DEF vars
<1> QED
  BY <1>3, <1>4, <1>5, <1>6 DEF Next

\* The first dispatch of a job waits for its dependencies.
THEOREM DependenciesComeFirst == Spec => FirstDispatchWaits
<1> DEFINE Waits ==
      \A j \in Jobs :
          executions[j] = << >> /\ executions'[j] # << >> => DepsCompleted(dependsOn'[j])
<1>1. IInv /\ IInv' /\ BoundInv /\ [Next]_vars => [Waits]_vars
  BY FirstDispatchStep
<1>2. Spec => [][Waits]_vars
  BY <1>1, InitInv, NextInv, InitBound, NextBound, PTL DEF Spec
<1> QED
  BY <1>2 DEF FirstDispatchWaits

-----------------------------------------------------------------------------
(* The lifecycle *)

\* A job that is not there has no executions.
AbsentIsNew == \A j \in Jobs : jobStatus[j] = "ABSENT" => executions[j] = << >>

LifeInv == IInv /\ BoundInv /\ AbsentIsNew

\* A step of the lifecycle, or none of its variables changes.
Lives == [Lifecycle!Next]_(Lifecycle!vars)

\* A job's status, and nothing else of its lifecycle, goes along an arrow of the table.
LEMMA Proceeds ==
    ASSUME TypeOK, NEW j \in Jobs, NEW st, st \in Lifecycle!LEGAL[jobStatus[j]],
           st \notin {"QUEUED", "BLOCKED", "COMPLETED"},
           jobStatus' = [jobStatus EXCEPT ![j] = st],
           \A i \in Jobs : Len(executions'[i]) = Len(executions[i]),
           UNCHANGED <<dependsOn, bestModel, retries>>
    PROVE  Lives
<1>1. [i \in Jobs |-> Len(executions[i])]' = [i \in Jobs |-> Len(executions[i])]
  OBVIOUS
<1>2. Lifecycle!Proceed(j)
  BY <1>1 DEF Lifecycle!Proceed, Lifecycle!GoTo
<1> QED
  BY <1>2 DEF Lives, Lifecycle!Next

\* Nothing of the lifecycle changes.
LEMMA Stutters ==
    ASSUME \A i \in Jobs : Len(executions'[i]) = Len(executions[i]),
           UNCHANGED <<jobStatus, dependsOn, bestModel, retries>>
    PROVE  Lives
<1>1. [i \in Jobs |-> Len(executions[i])]' = [i \in Jobs |-> Len(executions[i])]
  OBVIOUS
<1> QED
  BY <1>1 DEF Lives, Lifecycle!vars

\* A dispatch is seen as one attempt more.
LEMMA DispatchCounts ==
    ASSUME NEW j \in Jobs, Len(executions'[j]) = Len(executions[j]) + 1,
           \A i \in Jobs : i # j => executions'[i] = executions[i]
    PROVE  LET n == [i \in Jobs |-> Len(executions[i])]
           IN  n' = [n EXCEPT ![j] = @ + 1]
OBVIOUS

\* Any status that is not terminal may fail.
LEMMA MayFail ==
    ASSUME NEW st \in JobStatus, st \notin TERMINAL, st # "ABSENT"
    PROVE  "FAILED" \in Lifecycle!LEGAL[st]
BY DEF JobStatus, TERMINAL, Active, Lifecycle!LEGAL

\* What workers do: they never queue a job, and register its model once.
LEMMA WorkLives ==
    ASSUME LifeInv, NEW j \in Jobs, NEW k \in DOMAIN executions[j], Work(j, k) \/ Crash(j, k)
    PROVE  Lives
<1>1. TypeOK /\ jobStatus \in [Jobs -> JobStatus] /\ jobStatus[j] \in JobStatus
  BY DEF LifeInv, IInv, TypeOK
<1>2. \A i \in Jobs : Len(executions'[i]) = Len(executions[i])
  <2>1. PICK st \in ExecStatus, ph \in Phase : Rewrites(j, k, st, ph)
    BY WorkEffect DEF LifeInv
  <2> QED
    BY <2>1 DEF Rewrites
<1>3. jobStatus[j] # "ABSENT"
  BY EmptySeq DEF LifeInv, AbsentIsNew
<1>4. UNCHANGED <<dependsOn, retries>>
  BY DEF Work, Crash, Claim, ClaimRefused, CancelRefused, StartRunning, TrainEnds, RaiseError,
     Complete, CompleteRejected, Fail, Stopped
<1>5. CASE UNCHANGED <<jobStatus, bestModel>>
  BY <1>2, <1>4, <1>5, Stutters
<1>6. CASE Claim(j, k)
  <2>1. jobStatus[j] = "QUEUED" /\ jobStatus' = [jobStatus EXCEPT ![j] = "PREPARING"] /\ bestModel' = bestModel
    BY <1>6 DEF Claim
  <2>2. "PREPARING" \in Lifecycle!LEGAL["QUEUED"]
    BY DEF Lifecycle!LEGAL
  <2> QED
    BY <1>1, <1>2, <1>4, <2>1, <2>2, Proceeds
<1>7. CASE StartRunning(j, k)
  <2>1. CASE jobStatus[j] = "PREPARING"
    BY <1>1, <1>2, <1>4, <1>7, <2>1, Proceeds DEF StartRunning, Lifecycle!LEGAL
  <2>2. CASE jobStatus[j] # "PREPARING"
    BY <1>5, <1>7, <2>2 DEF StartRunning
  <2> QED
    BY <2>1, <2>2
<1>8. CASE Complete(j, k)
  <2>1. [i \in Jobs |-> Len(executions[i])]' = [i \in Jobs |-> Len(executions[i])]
    BY <1>2
  <2>2. k \in 1 .. [i \in Jobs |-> Len(executions[i])][j]
    BY <1>1 DEF TypeOK
  <2>3. Lifecycle!Complete(j)
    BY <1>4, <1>8, <2>1, <2>2 DEF Complete, Lifecycle!Complete, Lifecycle!GoTo
  <2> QED
    BY <2>3 DEF Lives, Lifecycle!Next
<1>9. CASE Fail(j, k)
  <2>1. CASE jobStatus[j] \in TERMINAL
    BY <1>1, <1>5, <1>9, <2>1 DEF Fail, FailJob, TERMINAL
  <2>2. CASE jobStatus[j] \notin TERMINAL
    BY <1>1, <1>2, <1>3, <1>4, <1>9, <2>2, MayFail, Proceeds DEF Fail, FailJob, TERMINAL
  <2> QED
    BY <2>1, <2>2
<1>10. CASE Stopped(j, k)
  <2>1. CASE jobStatus[j] = "STOPPING"
    BY <1>1, <1>2, <1>4, <1>10, <2>1, Proceeds DEF Stopped, Lifecycle!LEGAL
  <2>2. CASE jobStatus[j] # "STOPPING"
    BY <1>5, <1>10, <2>2 DEF Stopped
  <2> QED
    BY <2>1, <2>2
<1> QED
  BY <1>5, <1>6, <1>7, <1>8, <1>9, <1>10 DEF Work, Crash, ClaimRefused, CancelRefused,
     TrainEnds, RaiseError, CompleteRejected

\* Users submit, retry and stop.
LEMMA ApiLives ==
    ASSUME LifeInv, NEW j \in Jobs, Api(j)
    PROVE  Lives
<1> DEFINE n == [i \in Jobs |-> Len(executions[i])]
<1>1. TypeOK /\ jobStatus \in [Jobs -> JobStatus] /\ executions \in [Jobs -> Seq(Execution)]
  BY DEF LifeInv, IInv, TypeOK
<1>2. Dispatch(j) => n' = [n EXCEPT ![j] = @ + 1]
  BY <1>1, DispatchEffect, DispatchCounts DEF Appends
<1>3. CASE \E D \in SUBSET (Jobs \ {j}) : Create(j, D)
  <2>1. PICK D \in SUBSET (Jobs \ {j}) : Create(j, D)
    BY <1>3
  <2>2. Lifecycle!QueueOrBlock(j, D)
    BY <1>2, <2>1 DEF Create, DepsCompleted, Lifecycle!QueueOrBlock, Lifecycle!Queue,
       Lifecycle!GoTo, Lifecycle!Ready
  <2>3. Lifecycle!Submit(j, D)
    BY <2>1, <2>2 DEF Create, Lifecycle!Submit
  <2> QED
    BY <2>3 DEF Lives, Lifecycle!Next
<1>4. CASE Retry(j)
  <2>1. Lifecycle!QueueOrBlock(j, dependsOn[j])
    BY <1>2, <1>4 DEF Retry, DepsCompleted, Lifecycle!QueueOrBlock, Lifecycle!Queue,
       Lifecycle!GoTo, Lifecycle!Ready
  <2>2. n[j] > 0
    BY <1>1, <1>4, EmptySeq DEF Retry
  <2>3. Lifecycle!Retry(j)
    BY <1>4, <2>1, <2>2 DEF Retry, TERMINAL, Lifecycle!Retry, Lifecycle!TERMINAL
  <2> QED
    BY <2>3 DEF Lives, Lifecycle!Next
<1>5. CASE RequestStop(j)
  BY <1>1, <1>5, Proceeds DEF RequestStop, Lifecycle!LEGAL
<1> QED
  BY <1>3, <1>4, <1>5 DEF Api

\* A job is requeued by the scheduler on its own account.
LEMMA Requeues ==
    ASSUME TypeOK, NEW j \in Jobs, jobStatus[j] \notin {"COMPLETED", "CANCELLED", "STOPPED"},
           executions[j] # << >>, Len(executions'[j]) = Len(executions[j]) + 1,
           \A i \in Jobs : i # j => executions'[i] = executions[i], jobStatus' = [jobStatus EXCEPT ![j] = "QUEUED"],
           UNCHANGED <<dependsOn, bestModel, retries>>
    PROVE  Lives
<1> DEFINE n == [i \in Jobs |-> Len(executions[i])]
<1>1. n' = [n EXCEPT ![j] = @ + 1]
  BY DispatchCounts
<1>2. n[j] > 0
  BY EmptySeq DEF TypeOK
<1>3. Lifecycle!Requeue(j)
  BY <1>1, <1>2 DEF Lifecycle!Requeue, Lifecycle!Queue, Lifecycle!GoTo, Lifecycle!TERMINAL
<1> QED
  BY <1>3 DEF Lives, Lifecycle!Next

\* What becomes of a job whose execution was declared lost.
LEMMA LostLives ==
    ASSUME LifeInv, ReconcileCommit
    PROVE  Lives
<1>1. TypeOK /\ jobStatus \in [Jobs -> JobStatus] /\ executions \in [Jobs -> Seq(Execution)]
  BY DEF LifeInv, IInv, TypeOK
<1>2. PICK r \in reconciling : LostStops(r) \/ LostFails(r) \/ LostRetries(r)
  BY DEF ReconcileCommit
<1> DEFINE j == r.job
           k == r.attempt
<1>3. /\ j \in Jobs /\ k \in DOMAIN executions[j] /\ executions[j] # << >>
      /\ executions[j][k].phase \in Phase
  BY <1>2, LockedFacts, EmptySeq DEF LifeInv
<1>4. jobStatus[j] \in JobStatus /\ jobStatus[j] # "ABSENT"
  BY <1>1, <1>3 DEF LifeInv, AbsentIsNew
<1>5. UNCHANGED <<dependsOn, bestModel, retries>>
  BY DEF ReconcileCommit
<1>6. LostStops(r) \/ LostFails(r) => \A i \in Jobs : Len(executions'[i]) = Len(executions[i])
  <2> SUFFICES ASSUME LostStops(r) \/ LostFails(r)
               PROVE  \A i \in Jobs : Len(executions'[i]) = Len(executions[i])
    OBVIOUS
  <2>1. SetExecution(j, k, "LOST", executions[j][k].phase) /\ "LOST" \in ExecStatus
    BY DEF LostStops, LostFails, ExecStatus
  <2>2. Rewrites(j, k, "LOST", executions[j][k].phase)
    BY <1>1, <1>3, <2>1, SetExecutionEffect
  <2> QED
    BY <2>2 DEF Rewrites
<1>7. CASE LostStops(r)
  <2>1. CASE jobStatus[j] = "STOPPING"
    <3>1. jobStatus' = [jobStatus EXCEPT ![j] = "STOPPED"]
      BY <1>7, <2>1 DEF LostStops
    <3>2. "STOPPED" \in Lifecycle!LEGAL["STOPPING"]
      BY DEF Lifecycle!LEGAL
    <3>3. "STOPPED" \in Lifecycle!LEGAL[jobStatus[j]] /\ \A i \in Jobs : Len(executions'[i]) = Len(executions[i])
      BY <1>6, <1>7, <2>1, <3>2
    <3> HIDE DEF j
    <3> QED
      BY <1>1, <1>3, <1>5, <3>1, <3>3, Proceeds
  <2>2. CASE jobStatus[j] # "STOPPING"
    BY <1>5, <1>6, <1>7, <2>2, Stutters DEF LostStops
  <2> QED
    BY <2>1, <2>2
<1>8. CASE LostFails(r)
  <2>1. CASE jobStatus[j] \in TERMINAL
    BY <1>5, <1>6, <1>8, <2>1, Stutters DEF LostFails
  <2>2. CASE jobStatus[j] \notin TERMINAL
    <3>1. jobStatus' = [jobStatus EXCEPT ![j] = "FAILED"]
      BY <1>8, <2>2 DEF LostFails, FailJob
    <3>2. "FAILED" \in Lifecycle!LEGAL[jobStatus[j]] /\ \A i \in Jobs : Len(executions'[i]) = Len(executions[i])
      BY <1>4, <1>6, <1>8, <2>2, MayFail
    <3> HIDE DEF j
    <3> QED
      BY <1>1, <1>3, <1>5, <3>1, <3>2, Proceeds
  <2> QED
    BY <2>1, <2>2
<1>9. CASE LostRetries(r)
  <2> DEFINE lost == [status |-> "LOST", phase |-> executions[j][k].phase]
             fresh == [status |-> "ASSIGNED", phase |-> "idle"]
             u == [executions[j] EXCEPT ![k] = lost]
  <2>1. lost \in Execution /\ fresh \in Execution
    BY <1>3 DEF Execution, ExecStatus, Phase
  <2>2. u \in Seq(Execution) /\ Len(u) = Len(executions[j])
    BY <1>1, <1>3, <2>1, ExceptSeq
  <2>3. executions' = [executions EXCEPT ![j] = Append(u, fresh)]
    BY <1>9 DEF LostRetries
  <2>4. Len(Append(u, fresh)) = Len(executions[j]) + 1
    BY <2>1, <2>2, AppendProperties
  <2>5. Len(executions'[j]) = Len(executions[j]) + 1 /\ \A i \in Jobs : i # j => executions'[i] = executions[i]
    BY <1>1, <1>3, <2>3, <2>4
  <2>6. jobStatus[j] \notin {"COMPLETED", "CANCELLED", "STOPPED"} /\ jobStatus' = [jobStatus EXCEPT ![j] = "QUEUED"]
    BY <1>9 DEF LostRetries, TERMINAL
  <2> QED
    BY <1>1, <1>3, <1>5, <2>5, <2>6, Requeues
<1> QED
  BY <1>2, <1>7, <1>8, <1>9

\* The stages of the scheduler.
LEMMA ScheduleLives ==
    ASSUME LifeInv, NEW j \in Jobs, Schedule(j)
    PROVE  Lives
<1> DEFINE n == [i \in Jobs |-> Len(executions[i])]
<1>1. TypeOK /\ jobStatus \in [Jobs -> JobStatus] /\ executions \in [Jobs -> Seq(Execution)]
  BY DEF LifeInv, IInv, TypeOK
<1>2. Dispatch(j) => Appends(j)
  BY <1>1, DispatchEffect
<1>3. CASE RetryFailed(j)
  <2>1. CASE UNCHANGED <<jobStatus, executions>>
    BY <1>3, <2>1, Stutters DEF RetryFailed
  <2>2. CASE ~UNCHANGED <<jobStatus, executions>>
    <3>1. /\ j \in picked /\ Dispatch(j) /\ jobStatus[j] = "FAILED"
          /\ jobStatus' = [jobStatus EXCEPT ![j] = "QUEUED"]
          /\ UNCHANGED <<dependsOn, bestModel, retries>>
      BY <1>3, <2>2 DEF RetryFailed
    <3>2. executions[j] # << >>
      <4> SUFFICES ASSUME executions[j] = << >> PROVE FALSE
        OBVIOUS
      <4>1. EarlyEnded(j) = {} /\ Len(executions[j]) = 0
        BY EmptySeq DEF EarlyEnded
      <4> QED
        BY <3>1, <4>1, ConstantsAssumption DEF LifeInv, BoundInv, BoundOK
    <3> QED
      BY <1>1, <1>2, <3>1, <3>2, Requeues DEF Appends
  <2> QED
    BY <2>1, <2>2
<1>4. CASE Promote(j)
  <2>1. CASE DepsCompleted(dependsOn[j]) /\ Dispatch(j) /\ jobStatus' = [jobStatus EXCEPT ![j] = "QUEUED"]
    <3>1. n' = [n EXCEPT ![j] = @ + 1]
      BY <1>2, <2>1, DispatchCounts DEF Appends
    <3>2. Lifecycle!Unblock(j)
      BY <1>4, <2>1, <3>1 DEF Promote, DepsCompleted, Lifecycle!Unblock, Lifecycle!Queue,
         Lifecycle!GoTo, Lifecycle!Ready
    <3> QED
      BY <3>2 DEF Lives, Lifecycle!Next
  <2>2. CASE UNCHANGED executions /\ jobStatus' = [jobStatus EXCEPT ![j] = "FAILED"]
    <3>1. jobStatus[j] = "BLOCKED" /\ UNCHANGED <<dependsOn, bestModel, retries>>
      BY <1>4 DEF Promote
    <3>2. "FAILED" \in Lifecycle!LEGAL["BLOCKED"]
      BY DEF Lifecycle!LEGAL
    <3> QED
      BY <1>1, <2>2, <3>1, <3>2, Proceeds
  <2> QED
    BY <1>4, <2>1, <2>2 DEF Promote, FailJob
<1>5. CASE UNCHANGED <<jobStatus, executions, dependsOn, bestModel, retries>>
  BY <1>5, Stutters
<1> QED
  BY <1>3, <1>4, <1>5, LostLives DEF Schedule, SelectRetriable, ReconcileRead

\* In the lifecycle a job that was submitted is never absent again.
LEMMA AbsentStep ==
    ASSUME LifeInv, TypeOK', Lives
    PROVE  AbsentIsNew'
<1> SUFFICES ASSUME NEW i \in Jobs, jobStatus'[i] = "ABSENT"
             PROVE  executions'[i] = << >>
  BY DEF AbsentIsNew
<1> DEFINE n == [l \in Jobs |-> Len(executions[l])]
<1>1. jobStatus \in [Jobs -> JobStatus]
  BY DEF LifeInv, IInv, TypeOK
<1>2. CASE \E j \in Jobs, st \in JobStatus \ {"ABSENT"} :
             /\ jobStatus' = [jobStatus EXCEPT ![j] = st]
             /\ n' = n \/ n' = [n EXCEPT ![j] = @ + 1]
  <2>1. PICK j \in Jobs, st \in JobStatus \ {"ABSENT"} :
          /\ jobStatus' = [jobStatus EXCEPT ![j] = st]
          /\ n' = n \/ n' = [n EXCEPT ![j] = @ + 1]
    BY <1>2
  <2>2. i # j /\ jobStatus[i] = "ABSENT"
    BY <1>1, <2>1
  <2>3. n'[i] = n[i]
    BY <2>1, <2>2
  <2>4. Len(executions'[i]) = Len(executions[i]) /\ executions[i] = << >>
    BY <2>2, <2>3 DEF LifeInv, AbsentIsNew
  <2> QED
    BY <2>4, EmptySeq DEF TypeOK
<1>3. CASE UNCHANGED jobStatus /\ n' = n
  <2>1. n'[i] = n[i] /\ executions[i] = << >>
    BY <1>3 DEF LifeInv, AbsentIsNew
  <2>2. Len(executions'[i]) = Len(executions[i])
    BY <2>1
  <2> QED
    BY <2>1, <2>2, EmptySeq DEF TypeOK
<1>4. ASSUME NEW j \in Jobs, Lifecycle!Proceed(j)
      PROVE  executions'[i] = << >>
  <2>1. PICK st \in Lifecycle!LEGAL[jobStatus[j]] \ {"QUEUED", "BLOCKED", "COMPLETED"} :
          jobStatus' = [jobStatus EXCEPT ![j] = st]
    BY <1>4 DEF Lifecycle!Proceed, Lifecycle!GoTo
  <2>2. jobStatus[j] \in JobStatus /\ st \in JobStatus \ {"ABSENT"}
    BY <1>1, <2>1 DEF JobStatus, TERMINAL, Active, Lifecycle!LEGAL
  <2>3. n' = n
    BY <1>4 DEF Lifecycle!Proceed
  <2> QED
    BY <1>2, <2>1, <2>2, <2>3
<1>5. ASSUME NEW j \in Jobs, NEW D, Lifecycle!QueueOrBlock(j, D)
      PROVE  executions'[i] = << >>
  BY <1>2, <1>5 DEF JobStatus, TERMINAL, Lifecycle!QueueOrBlock, Lifecycle!Queue, Lifecycle!GoTo
<1>6. ASSUME NEW j \in Jobs, Lifecycle!Queue(j) \/ Lifecycle!Complete(j)
      PROVE  executions'[i] = << >>
  BY <1>2, <1>6 DEF JobStatus, TERMINAL, Lifecycle!Queue, Lifecycle!Complete, Lifecycle!GoTo
<1>7. CASE Lifecycle!Next
  <2>1. PICK j \in Jobs : \/ \E D \in SUBSET (Jobs \ {j}) : Lifecycle!Submit(j, D)
                         \/ Lifecycle!Retry(j) \/ Lifecycle!Unblock(j) \/ Lifecycle!Requeue(j)
                         \/ Lifecycle!Complete(j) \/ Lifecycle!Proceed(j)
    BY <1>7 DEF Lifecycle!Next
  <2> QED
    BY <1>4, <1>5, <1>6, <2>1 DEF Lifecycle!Submit, Lifecycle!Retry, Lifecycle!Unblock, Lifecycle!Requeue
<1> QED
  BY <1>3, <1>7 DEF Lives, Lifecycle!vars

\* Every step is one of the lifecycle.
LEMMA NextLives ==
    ASSUME LifeInv, [Next]_vars
    PROVE  Lives
<1>1. CASE UNCHANGED vars
  BY <1>1, Stutters DEF vars
<1>2. CASE Next
  BY <1>2, ApiLives, ScheduleLives, WorkLives DEF Next
<1> QED
  BY <1>1, <1>2

LEMMA InitLives == Init => Lifecycle!Init /\ AbsentIsNew
<1> SUFFICES ASSUME Init PROVE Lifecycle!Init /\ AbsentIsNew
  OBVIOUS
<1>1. \A i \in Jobs : executions[i] = << >> /\ Len(executions[i]) = 0
  BY EmptySeq DEF Init
<1> QED
  BY <1>1 DEF Init, Lifecycle!Init, AbsentIsNew

\* The pipeline implements the lifecycle: however the attempts of a job overlap, and
\* whatever guards workers and scheduler write its row with, its status goes along the
\* arrows of the state machine or is requeued with a new attempt.
THEOREM LifecycleKept == Spec => FollowsLifecycle
<1>1. Init => LifeInv /\ Lifecycle!Init
  BY InitInv, InitBound, InitLives DEF LifeInv
<1>2. LifeInv /\ [Next]_vars => LifeInv'
  <2> SUFFICES ASSUME LifeInv, [Next]_vars PROVE LifeInv'
    OBVIOUS
  <2>1. IInv' /\ BoundInv'
    BY NextInv, NextBound DEF LifeInv
  <2>2. AbsentIsNew'
    BY <2>1, NextLives, AbsentStep DEF IInv
  <2> QED
    BY <2>1, <2>2 DEF LifeInv
<1>3. LifeInv /\ [Next]_vars => [Lifecycle!Next]_(Lifecycle!vars)
  BY NextLives DEF Lives
<1> QED
  BY <1>1, <1>2, <1>3, PTL DEF Spec, FollowsLifecycle, Lifecycle!Spec
=============================================================================
