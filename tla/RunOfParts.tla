----------------------------- MODULE RunOfParts -----------------------------
(***************************************************************************)
(* A run and its parts: the evaluations of a benchmark run, the datasets   *)
(* of an inference run.  Each part is a job of its own, with executions of *)
(* its own, and whoever ends a part also finalises the run if it finds no  *)
(* part left.  The two workers write this protocol in the same statements; *)
(* it is told here once, and BenchmarkRun and InferenceRun add what they   *)
(* do each in their own way.                                               *)
(*                                                                         *)
(* A transaction that ends a part takes two steps, because PostgreSQL runs *)
(* it under READ COMMITTED: it writes the part and counts the statuses it  *)
(* can see, and later takes the lock of the run and commits.  In between   *)
(* it holds the locks of its part and its execution.  A transaction that   *)
(* is rolled back - after a deadlock, a lost connection, a crash - changed *)
(* nothing, and is told as one that never began.                           *)
(***************************************************************************)
EXTENDS Naturals, Sequences, FiniteSets

CONSTANTS
    Parts,               \* the parts of the one run
    NumWorkers,          \* consumers of the worker group
    MaxRetries,          \* bound: how often users call retry()
    FailuresHappen,      \* TRUE: handlers raise errors, processes die
    HeartbeatsMayFail    \* TRUE: a live process may miss the stale timeout

ASSUME ConstantsAssumption ==
    /\ Parts # {}
    /\ NumWorkers \in Nat
    /\ MaxRetries \in Nat
    /\ FailuresHappen \in BOOLEAN
    /\ HeartbeatsMayFail \in BOOLEAN

VARIABLES
    runStatus,    \* status of the run
    partStatus,   \* status of each part
    executions,   \* job_executions of each part in attempt order, each with the
                  \* progress of the worker process that claimed it
    artifact,     \* the attempt whose primary artifact the part has, or 0
    open,         \* transactions that have counted the parts and not committed yet, each
                  \* with the round - the retries so far - in which it counted
    retries       \* calls of retry() so far, bounded by MaxRetries

vars == <<runStatus, partStatus, executions, artifact, open, retries>>

-----------------------------------------------------------------------------
\* What a run is finalised to, and what else ends one.
FINAL == {"COMPLETED", "PARTIALLY_FAILED", "FAILED", "STOPPED"}

RunStatus == FINAL \cup {"QUEUED", "RUNNING", "STOPPING", "CANCELLED", "DELETED"}

ENDED == {"COMPLETED", "FAILED", "CANCELLED", "STOPPED"}

PartStatus == ENDED \cup {"QUEUED", "RUNNING", "STOPPING"}

ExecStatus == {"ASSIGNED", "RUNNING", "SUCCEEDED", "FAILED", "CANCELLED", "STOPPED", "LOST"}

\* No process; at work under a heartbeat; has its result; noticed the stop; an
\* exception on its way to _fail; its last transaction is open.
Phase == {"none", "working", "done", "stop", "error", "ending"}

Transaction ==
    [part : Parts, attempt : Nat, by : {"worker", "scheduler"},
     to : (ENDED \ {"CANCELLED"}) \cup {"same"}, execution : ExecStatus \cup {"same"},
     verdict : FINAL \cup {"none"}, round : Nat]

Init ==
    /\ runStatus = "QUEUED"
    /\ partStatus = [p \in Parts |-> "QUEUED"]
    /\ executions = [p \in Parts |-> <<[status |-> "ASSIGNED", phase |-> "none"]>>]
    /\ artifact = [p \in Parts |-> 0]
    /\ open = {}
    /\ retries = 0

-----------------------------------------------------------------------------
(* Helpers *)

Attempts == {a \in Parts \X (1 .. MaxRetries + 1) : a[2] \in DOMAIN executions[a[1]]}

SetExecution(p, k, st, ph) ==
    executions' = [executions EXCEPT ![p] =
                       [@ EXCEPT ![k] = [status |-> st, phase |-> ph]]]

GoTo(p, k, ph) == SetExecution(p, k, executions[p][k].status, ph)

PartLocked(p) == \E t \in open : t.part = p /\ t.to # "same"

ExecutionLocked(p, k) ==
    \E t \in open : t.part = p /\ t.attempt = k /\ t.execution # "same"

WorkerFree ==
    Cardinality({a \in Attempts : executions[a[1]][a[2]].phase # "none"}) < NumWorkers

\* Mutant of Verdict: a part that is stopping counts as done.
VerdictOfWaiting(ps) ==
    IF \E p \in Parts : ps[p] \in {"QUEUED", "RUNNING"} THEN "none"
    ELSE IF \E p \in Parts : ps[p] = "STOPPED" THEN "STOPPED"
    ELSE IF \A p \in Parts : ps[p] # "FAILED" THEN "COMPLETED"
    ELSE "FAILED"

\* The status _finalize_run gives the run, "none" while parts are left.
Verdict(ps) ==
    IF \E p \in Parts : ps[p] \notin ENDED THEN "none"
    ELSE IF \E p \in Parts : ps[p] = "STOPPED" THEN "STOPPED"
    ELSE IF \A p \in Parts : ps[p] # "FAILED" THEN "COMPLETED"
    ELSE IF \E p \in Parts : ps[p] = "COMPLETED" THEN "PARTIALLY_FAILED"
    ELSE "FAILED"

\* The statuses the transaction sees: those committed, and its own part.
Seen(p, to) == IF to = "same" THEN partStatus ELSE [partStatus EXCEPT ![p] = to]

Transact(p, k, by, to, ex, verdict) ==
    /\ to # "same" => ~PartLocked(p)
    /\ ex # "same" => ~ExecutionLocked(p, k)
    /\ open' = open \cup {[part |-> p, attempt |-> k, by |-> by, to |-> to,
                           execution |-> ex, verdict |-> verdict, round |-> retries]}

WorkerTransacts(p, k, to, ex) ==
    /\ Transact(p, k, "worker", to, ex, Verdict(Seen(p, to)))
    /\ GoTo(p, k, "ending")

Dispatched(es) == Append(es, [status |-> "ASSIGNED", phase |-> "none"])

-----------------------------------------------------------------------------
(* The worker *)

Claimable(p, k) == executions[p][k] = [status |-> "ASSIGNED", phase |-> "none"]

\* The claim transaction: execution, part, and a run that is still QUEUED.
Claim(p, k) ==
    /\ Claimable(p, k)
    /\ WorkerFree
    /\ partStatus[p] = "QUEUED"
    /\ ~PartLocked(p)
    /\ SetExecution(p, k, "RUNNING", "working")
    /\ partStatus' = [partStatus EXCEPT ![p] = "RUNNING"]
    /\ runStatus' = IF runStatus = "QUEUED" THEN "RUNNING" ELSE runStatus
    /\ UNCHANGED <<artifact, open, retries>>

\* Stopped before start: the claim ends the part at once.
ClaimStops(p, k) ==
    /\ Claimable(p, k)
    /\ WorkerFree
    /\ partStatus[p] = "STOPPING"
    /\ WorkerTransacts(p, k, "STOPPED", "STOPPED")
    /\ UNCHANGED <<runStatus, partStatus, artifact, retries>>

\* Neither QUEUED nor STOPPING: rolled back, and the execution is CANCELLED.
ClaimRefused(p, k) ==
    /\ Claimable(p, k)
    /\ partStatus[p] \in ENDED \cup {"RUNNING"}
    /\ SetExecution(p, k, "CANCELLED", "none")
    /\ UNCHANGED <<runStatus, partStatus, artifact, open, retries>>

\* The work is done: the stop was not noticed, or there was none.
WorkEnds(p, k) ==
    /\ executions[p][k].phase = "working"
    /\ GoTo(p, k, "done")
    /\ UNCHANGED <<runStatus, partStatus, artifact, open, retries>>

\* _check_stop, _stop_check
NoticeStop(p, k) ==
    /\ executions[p][k].phase = "working"
    /\ partStatus[p] = "STOPPING"
    /\ GoTo(p, k, "stop")
    /\ UNCHANGED <<runStatus, partStatus, artifact, open, retries>>

RaiseError(p, k) ==
    /\ FailuresHappen
    /\ executions[p][k].phase \in {"working", "done"}
    /\ GoTo(p, k, "error")
    /\ UNCHANGED <<runStatus, partStatus, artifact, open, retries>>

\* The process dies, or _load, _fail or _stopped raises.
Crash(p, k) ==
    /\ FailuresHappen
    /\ executions[p][k].phase \in {"working", "done", "stop", "error"}
    /\ GoTo(p, k, "none")
    /\ UNCHANGED <<runStatus, partStatus, artifact, open, retries>>

\* _stopped: a part that is no longer STOPPING and its execution stay as they are.
Stopped(p, k) ==
    /\ executions[p][k].phase = "stop"
    /\ \/ partStatus[p] = "STOPPING" /\ WorkerTransacts(p, k, "STOPPED", "STOPPED")
       \/ partStatus[p] # "STOPPING" /\ WorkerTransacts(p, k, "same", "same")
    /\ UNCHANGED <<runStatus, partStatus, artifact, retries>>

\* Mutant of Fail: any part, also one another attempt has completed.
FailWhatever(p, k) ==
    /\ executions[p][k].phase = "error"
    /\ WorkerTransacts(p, k, "FAILED", "FAILED")
    /\ UNCHANGED <<runStatus, partStatus, artifact, retries>>

\* _fail: whoever calls it, the part is FAILED unless COMPLETED or CANCELLED.
Fail(p, k) ==
    /\ executions[p][k].phase = "error"
    /\ \/ /\ partStatus[p] \notin {"COMPLETED", "CANCELLED"}
          /\ WorkerTransacts(p, k, "FAILED", "FAILED")
       \/ /\ partStatus[p] \in {"COMPLETED", "CANCELLED"}
          /\ WorkerTransacts(p, k, "same", "FAILED")
    /\ UNCHANGED <<runStatus, partStatus, artifact, retries>>

\* What the commit of t leaves of its execution; the process behind the last
\* transaction of a worker is gone, the scheduler has none.
EndedStatus(t) ==
    IF t.execution = "same" THEN executions[t.part][t.attempt].status ELSE t.execution

EndedPhase(t) == IF t.by = "worker" THEN "none" ELSE executions[t.part][t.attempt].phase

\* The rest of _finalize_run and the commit; Finalised are the statuses of the
\* run from which the one who commits may take it to the verdict.
Commit(t, Finalised) ==
    /\ open' = open \ {t}
    /\ partStatus' = Seen(t.part, t.to)
    /\ SetExecution(t.part, t.attempt, EndedStatus(t), EndedPhase(t))
    /\ artifact' = IF t.to = "COMPLETED" THEN [artifact EXCEPT ![t.part] = t.attempt] ELSE artifact
    /\ runStatus' = IF t.verdict # "none" /\ runStatus \in Finalised THEN t.verdict ELSE runStatus
    /\ UNCHANGED retries

WorkerCommits == \E t \in open : t.by = "worker" /\ Commit(t, {"RUNNING", "STOPPING"})

\* Each step of a worker, but for the completion, which the two do differently.
Deliver(p, k) == Claim(p, k) \/ ClaimStops(p, k) \/ ClaimRefused(p, k)

Work(p, k) == WorkEnds(p, k) \/ NoticeStop(p, k) \/ Stopped(p, k) \/ Fail(p, k)

Fault(p, k) == RaiseError(p, k) \/ Crash(p, k)

-----------------------------------------------------------------------------
(* The API and the scheduler *)

\* Mutant of StopRunning: the parts at work only.
StopWorking ==
    /\ runStatus = "RUNNING"
    /\ \A p \in Parts : partStatus[p] \in {"QUEUED", "RUNNING"} => ~PartLocked(p)
    /\ runStatus' = "STOPPING"
    /\ partStatus' = [p \in Parts |-> IF partStatus[p] = "RUNNING" THEN "STOPPING" ELSE partStatus[p]]
    /\ UNCHANGED <<executions, artifact, open, retries>>

\* requestStop of a RUNNING run.  Rows that are locked make it wait.
StopRunning ==
    /\ runStatus = "RUNNING"
    /\ \A p \in Parts : partStatus[p] \in {"QUEUED", "RUNNING"} => ~PartLocked(p)
    /\ runStatus' = "STOPPING"
    /\ partStatus' = [p \in Parts |-> IF partStatus[p] \in {"QUEUED", "RUNNING"}
                                      THEN "STOPPING" ELSE partStatus[p]]
    /\ UNCHANGED <<executions, artifact, open, retries>>

QueuedCancelled ==
    [p \in Parts |-> IF partStatus[p] = "QUEUED" THEN "CANCELLED" ELSE partStatus[p]]

\* requestStop of a QUEUED run: the executions stay ASSIGNED.
CancelQueued ==
    /\ runStatus = "QUEUED"
    /\ \A p \in Parts : partStatus[p] = "QUEUED" => ~PartLocked(p)
    /\ runStatus' = "CANCELLED"
    /\ partStatus' = QueuedCancelled
    /\ UNCHANGED <<executions, artifact, open, retries>>

\* Mutant of RetryParts: the old executions are to do.
RequeueParts(D) ==
    /\ retries < MaxRetries
    /\ \A p \in D : ~PartLocked(p)
    /\ retries' = retries + 1
    /\ runStatus' = "QUEUED"
    /\ partStatus' = [p \in Parts |-> IF p \in D THEN "QUEUED" ELSE partStatus[p]]
    /\ UNCHANGED <<executions, open>>

\* retry() of the parts D, in one transaction under the lock of the run.  It waits
\* for whoever holds one of them, who in turn waits for the run: one of the two is
\* aborted.  A transaction that has counted and holds no part is overtaken.
RetryParts(D) ==
    /\ retries < MaxRetries
    /\ \A p \in D : ~PartLocked(p)
    /\ retries' = retries + 1
    /\ runStatus' = "QUEUED"
    /\ partStatus' = [p \in Parts |-> IF p \in D THEN "QUEUED" ELSE partStatus[p]]
    /\ executions' = [p \in Parts |-> IF p \in D THEN Dispatched(executions[p]) ELSE executions[p]]
    /\ UNCHANGED open

\* reconcileStaleExecutions: RUNNING, and no heartbeat for the stale timeout: the
\* process is gone, or its beats were missed, or - the heartbeat ends before
\* _complete, _fail and _stopped begin - one of these takes that long.
Stale(p, k) ==
    /\ executions[p][k].status = "RUNNING"
    /\ executions[p][k].phase # "none" => HeartbeatsMayFail
    /\ ~ExecutionLocked(p, k)
    /\ \A t \in open : t.by # "scheduler"

\* The loss of the execution, without anything to carry into the part.
LoseOnly(p, k) ==
    /\ Stale(p, k)
    /\ SetExecution(p, k, "LOST", executions[p][k].phase)
    /\ UNCHANGED <<runStatus, partStatus, artifact, open, retries>>

\* The loss ends the part too.
LoseAndEnd(p, k, to, verdict) ==
    /\ Stale(p, k)
    /\ Transact(p, k, "scheduler", to, "LOST", verdict)
    /\ UNCHANGED <<runStatus, partStatus, executions, artifact, retries>>

-----------------------------------------------------------------------------
(* Properties of both kinds of run *)

\* Every variable keeps to its domain, and no transaction outlives its row.
TypeOK ==
    /\ runStatus \in RunStatus
    /\ partStatus \in [Parts -> PartStatus]
    /\ executions \in [Parts -> Seq([status : ExecStatus, phase : Phase])]
    /\ artifact \in [Parts -> Nat]
    /\ open \subseteq Transaction
    /\ \A t \in open : t.attempt \in DOMAIN executions[t.part]
    /\ retries \in Nat

\* A part that waits or works has an execution that can still end it: one to be
\* claimed, or one that is RUNNING and, with its process or by the scheduler,
\* comes to an end.
PendingHasExecution ==
    \A p \in Parts :
        /\ partStatus[p] = "QUEUED" =>
               \E k \in DOMAIN executions[p] : executions[p][k].status = "ASSIGNED"
        /\ partStatus[p] = "RUNNING" =>
               \E k \in DOMAIN executions[p] : executions[p][k].status = "RUNNING"
=============================================================================
