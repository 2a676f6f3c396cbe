--------------------------- MODULE MCTrainingJobs ---------------------------
(* TLC instances of TrainingJobs: one or two jobs, interchangeable. *)
EXTENDS TrainingJobs, TLC

CONSTANTS j1, j2

Symmetric == Permutations(Jobs)

\* Bound: the attempts two jobs share.  One of them may use up all the limit
\* and a retry allow while the other has its first, or each may have two.
MaxExecutions == 4

ExecutionsBound == Len(executions[j1]) + Len(executions[j2]) <= MaxExecutions

\* Where the liveness run starts: j1 has been created, and then j2, which waits for it.
Created ==
    /\ jobStatus = [j \in Jobs |-> IF j = j2 THEN "BLOCKED" ELSE "QUEUED"]
    /\ dependsOn = [j \in Jobs |-> IF j = j2 THEN {j1} ELSE {}]
    /\ executions = [j \in Jobs |-> IF j = j2 THEN << >>
                                    ELSE <<[status |-> "ASSIGNED", phase |-> "idle"]>>]
    /\ failureCode = [j \in Jobs |-> "none"] /\ resultModel = [j \in Jobs |-> 0]
    /\ bestModel = [j \in Jobs |-> 0] /\ reconciling = {} /\ picked = {} /\ retries = 0

\* Bound: once j2 has been dispatched, no attempt begins while another is at work.  What is
\* at work ends by the fairness of Work, so that no claim is put off for ever.
Step == Next /\ (executions[j2] = << >> \/ Busy' \subseteq Busy \/ Cardinality(Busy') <= 1)

DependantSpec == Created /\ [][Step]_vars /\ Fairness
=============================================================================
