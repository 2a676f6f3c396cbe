------------------------- MODULE TrainingLifecycle -------------------------
(***************************************************************************)
(* What the platform promises of training jobs.  Only the API asks its     *)
(* state machine before it writes a status; workers and scheduler write    *)
(* the row with guards of their own, several attempts of a job at a time.  *)
(* Together they still take no step the table does not allow, but one: the *)
(* scheduler requeues.  A job is queued together with a new attempt,       *)
(* waits for its dependencies the first time, and has one model.           *)
(***************************************************************************)
EXTENDS Naturals

CONSTANT Jobs

VARIABLES
    status,    \* "ABSENT" before the job is submitted
    needs,     \* the jobs it waits for
    attempts,  \* how often it was dispatched
    model,     \* the attempt that made its model, or 0
    retries    \* how often users asked for another round

vars == <<status, needs, attempts, model, retries>>

\* The table of the state machine, without SCHEDULED, which nothing enters.
LEGAL ==
    [ABSENT    |-> {"QUEUED", "BLOCKED"},
     BLOCKED   |-> {"QUEUED", "FAILED", "CANCELLED"},
     QUEUED    |-> {"PREPARING", "CANCELLED", "FAILED"},
     PREPARING |-> {"RUNNING", "CANCELLED", "FAILED"},
     RUNNING   |-> {"STOPPING", "COMPLETED", "FAILED"},
     STOPPING  |-> {"STOPPED", "FAILED"},
     COMPLETED |-> {"QUEUED", "BLOCKED"},
     FAILED    |-> {"QUEUED", "BLOCKED"},
     CANCELLED |-> {"QUEUED", "BLOCKED"},
     STOPPED   |-> {"QUEUED", "BLOCKED"}]

TERMINAL == {"COMPLETED", "FAILED", "CANCELLED", "STOPPED"}

Init ==
    /\ status = [j \in Jobs |-> "ABSENT"]
    /\ needs = [j \in Jobs |-> {}]
    /\ attempts = [j \in Jobs |-> 0]
    /\ model = [j \in Jobs |-> 0]
    /\ retries = 0

Ready(D) == \A d \in D : status[d] = "COMPLETED"

GoTo(j, st) == status' = [status EXCEPT ![j] = st]

Queue(j) == GoTo(j, "QUEUED") /\ attempts' = [attempts EXCEPT ![j] = @ + 1]

QueueOrBlock(j, D) ==
    \/ Ready(D) /\ Queue(j)
    \/ ~Ready(D) /\ GoTo(j, "BLOCKED") /\ UNCHANGED attempts

Submit(j, D) ==
    /\ status[j] = "ABSENT"
    /\ \A d \in D : status[d] # "ABSENT"
    /\ needs' = [needs EXCEPT ![j] = D]
    /\ QueueOrBlock(j, D)
    /\ UNCHANGED <<model, retries>>

\* Only a user takes a job out of COMPLETED, CANCELLED or STOPPED.
Retry(j) ==
    /\ status[j] \in TERMINAL
    /\ attempts[j] > 0
    /\ retries' = retries + 1
    /\ QueueOrBlock(j, needs[j])
    /\ UNCHANGED <<needs, model>>

Unblock(j) ==
    /\ status[j] = "BLOCKED"
    /\ Ready(needs[j])
    /\ Queue(j)
    /\ UNCHANGED <<needs, model, retries>>

\* The step the table has not: the scheduler takes a job back whose attempt was lost, or
\* failed for a reason that may pass.
Requeue(j) ==
    /\ status[j] \notin TERMINAL \/ status[j] = "FAILED"
    /\ attempts[j] > 0
    /\ Queue(j)
    /\ UNCHANGED <<needs, model, retries>>

\* A job completes once in its life, with the model of one of its attempts.
Complete(j) ==
    /\ status[j] = "RUNNING"
    /\ model[j] = 0
    /\ \E k \in 1 .. attempts[j] : model' = [model EXCEPT ![j] = k]
    /\ GoTo(j, "COMPLETED")
    /\ UNCHANGED <<needs, attempts, retries>>

Proceed(j) ==
    /\ \E st \in LEGAL[status[j]] \ {"QUEUED", "BLOCKED", "COMPLETED"} : GoTo(j, st)
    /\ UNCHANGED <<needs, attempts, model, retries>>

Next ==
    \E j \in Jobs :
        \/ Proceed(j) \/ Complete(j) \/ Retry(j) \/ Unblock(j) \/ Requeue(j)
        \/ \E D \in SUBSET (Jobs \ {j}) : Submit(j, D)

Spec == Init /\ [][Next]_vars
=============================================================================
