------------------------------ MODULE Dispatch ------------------------------
(***************************************************************************)
(* How an execution of a job reaches a worker: the outbox event written    *)
(* with it, the publisher that copies events to the Redis stream, the      *)
(* consumer group of the workers, and the claim.  TrainingJobs assumes that *)
(* an ASSIGNED execution is handed to one worker at a time; here entries   *)
(* are duplicated, taken over from live workers, and lost.                 *)
(*                                                                         *)
(* One job and its executions; event i of the outbox dispatches execution  *)
(* i.  Of the job only what dispatch depends on is kept.                   *)
(***************************************************************************)
EXTENDS Naturals, Sequences

CONSTANTS
    Workers,             \* consumers of one consumer group
    MAX_ATTEMPTS,        \* of the publisher: after so many failures an event is DEAD
    MaxExecutions,       \* bound: attempts of the job in a behaviour
    MaxDuplicates,       \* bound: entries written and then not accounted for
    MaxCrashes,          \* bound: crashes and restarts of workers
    DatabaseMayFail,     \* TRUE: a handler may lose or not get its connection
    RedisMayFlush        \* TRUE: Redis may be flushed

ASSUME ConstantsAssumption ==
    /\ MAX_ATTEMPTS \in Nat \ {0}
    /\ MaxExecutions \in Nat
    /\ MaxDuplicates \in Nat
    /\ MaxCrashes \in Nat
    /\ DatabaseMayFail \in BOOLEAN
    /\ RedisMayFlush \in BOOLEAN

VARIABLES
    job,         \* status of the job: QUEUED, ACTIVE, or IDLE for any other
    executions,  \* status of each of its job_executions
    outbox,      \* status and attempt_count of each event, as committed
    sending,     \* status a publishing transaction has given the event and not
                 \* committed yet, or "none" when the row is not locked
    stream,      \* the entries ever added, each the execution it names
    delivered,   \* last-delivered id of the group
    pending,     \* entries delivered and not acknowledged
    stage,       \* where the consume loop of each worker stands
    handling,    \* the entry it handles, or 0
    inbox,       \* entries it has reclaimed and handles next
    duplicates,  \* counts what MaxDuplicates bounds
    crashes      \* counts what MaxCrashes bounds

database == <<job, executions>>
publisher == <<outbox, sending, duplicates>>
redis == <<stream, delivered, pending>>
loops == <<stage, handling, inbox>>

vars == <<database, publisher, redis, loops, crashes>>

-----------------------------------------------------------------------------
JobStatus == {"QUEUED", "ACTIVE", "IDLE"}

\* ENDED stands for SUCCEEDED, FAILED and STOPPED.
ExecStatus == {"ASSIGNED", "RUNNING", "ENDED", "CANCELLED", "LOST"}

OutboxStatus == {"PENDING", "FAILED", "PUBLISHED", "DEAD"}

\* No entry; one received and not looked at; the claim rolled back because the
\* job is not QUEUED; the execution claimed and worked on; _handle is over.
Stage == {"idle", "received", "refused", "working", "handled"}

Init ==
    /\ job = "IDLE"
    /\ executions = << >>
    /\ outbox = << >>
    /\ sending = << >>
    /\ stream = << >>
    /\ delivered = 0
    /\ pending = {}
    /\ stage = [w \in Workers |-> "idle"]
    /\ handling = [w \in Workers |-> 0]
    /\ inbox = [w \in Workers |-> {}]
    /\ duplicates = 0
    /\ crashes = 0

-----------------------------------------------------------------------------
(* The job: the API and the scheduler *)

\* A new execution and its event, inserted with the new status of the job.
Enqueue(es) ==
    /\ Len(es) < MaxExecutions
    /\ job' = "QUEUED"
    /\ executions' = Append(es, "ASSIGNED")
    /\ outbox' = Append(outbox, [status |-> "PENDING", attempts |-> 0])
    /\ sending' = Append(sending, "none")

\* create, retry, promote and retryFailed.
Submit ==
    /\ job = "IDLE"
    /\ Enqueue(executions)
    /\ UNCHANGED <<duplicates, redis, loops, crashes>>

\* requestStop of a QUEUED or PREPARING job: it is CANCELLED at once, its
\* execution and the event stay as they are, and a worker may be at it already.
Cancel ==
    /\ job \in {"QUEUED", "ACTIVE"}
    /\ job' = "IDLE"
    /\ UNCHANGED <<executions, publisher, redis, loops, crashes>>

\* reconcileStaleExecutions: the job is queued again unless it is terminal, or
\* ended.  The execution need not be the last, and its worker may be alive.
Lose(x) ==
    /\ executions[x] = "RUNNING"
    /\ LET lost == [executions EXCEPT ![x] = "LOST"]
       IN \/ Enqueue(lost)
          \/ job' = "IDLE" /\ executions' = lost /\ UNCHANGED <<outbox, sending>>
    /\ UNCHANGED <<duplicates, redis, loops, crashes>>

-----------------------------------------------------------------------------
(* OutboxPublisher.tick.  A tick locks a batch of rows in one transaction    *)
(* and sends them one after the other.  Ticks overlap - the timer does not   *)
(* wait for the last one - and SKIP LOCKED keeps them on different rows, so  *)
(* a batch is told as the transactions of its rows, committed or aborted     *)
(* one by one.                                                               *)

\* The row is locked; PROCESSING is never visible to others.
PublishBegin(x) ==
    /\ sending[x] = "none"
    /\ outbox[x].status \in {"PENDING", "FAILED"}
    /\ sending' = [sending EXCEPT ![x] = "PROCESSING"]
    /\ UNCHANGED <<database, outbox, duplicates, redis, loops, crashes>>

XaddSucceeds(x) ==
    /\ sending[x] = "PROCESSING"
    /\ stream' = Append(stream, x)
    /\ sending' = [sending EXCEPT ![x] = "PUBLISHED"]
    /\ UNCHANGED <<database, outbox, duplicates, delivered, pending, loops, crashes>>

\* The reply is an error; when the connection broke, the entry may be there.
XaddFails(x) ==
    /\ sending[x] = "PROCESSING"
    /\ sending' = [sending EXCEPT ![x] =
                       IF outbox[x].attempts + 1 >= MAX_ATTEMPTS THEN "DEAD" ELSE "FAILED"]
    /\ \/ UNCHANGED <<stream, duplicates>>
       \/ /\ duplicates < MaxDuplicates
          /\ duplicates' = duplicates + 1
          /\ stream' = Append(stream, x)
    /\ UNCHANGED <<database, outbox, delivered, pending, loops, crashes>>

\* Mutant of PublishCommit: the error is swallowed.
PublishCommitAnyway(x) ==
    /\ sending[x] \notin {"none", "PROCESSING"}
    /\ outbox' = [outbox EXCEPT ![x] = [status |-> "PUBLISHED", attempts |-> outbox[x].attempts + 1]]
    /\ sending' = [sending EXCEPT ![x] = "none"]
    /\ UNCHANGED <<database, duplicates, redis, loops, crashes>>

PublishCommit(x) ==
    /\ sending[x] \notin {"none", "PROCESSING"}
    /\ outbox' = [outbox EXCEPT ![x] = [status |-> sending[x], attempts |-> outbox[x].attempts + 1]]
    /\ sending' = [sending EXCEPT ![x] = "none"]
    /\ UNCHANGED <<database, duplicates, redis, loops, crashes>>

\* The API dies or the transaction fails: the row is as before, but what was
\* added to the stream stays there.
PublishAbort(x) ==
    /\ sending[x] # "none"
    /\ sending' = [sending EXCEPT ![x] = "none"]
    /\ \/ sending[x] # "PUBLISHED" /\ UNCHANGED duplicates
       \/ /\ sending[x] = "PUBLISHED"
          /\ duplicates < MaxDuplicates
          /\ duplicates' = duplicates + 1
    /\ UNCHANGED <<database, outbox, redis, loops, crashes>>

-----------------------------------------------------------------------------
(* The consume loop: run, _reclaim_orphaned, _handle *)

Handle(w, e, rest) ==
    /\ stage' = [stage EXCEPT ![w] = "received"]
    /\ handling' = [handling EXCEPT ![w] = e]
    /\ inbox' = [inbox EXCEPT ![w] = rest]

\* xreadgroup ">" with count=1
Deliver(w) ==
    /\ stage[w] = "idle"
    /\ delivered < Len(stream)
    /\ delivered' = delivered + 1
    /\ pending' = pending \cup {delivered + 1}
    /\ Handle(w, delivered + 1, {})
    /\ UNCHANGED <<database, publisher, stream, crashes>>

\* xautoclaim: every pending entry idle for reclaim_idle_s, whoever holds it.
\* Which have been idle that long is open.  They are handled in stream order.
Reclaim(w) ==
    /\ stage[w] = "idle"
    /\ \E S \in SUBSET pending : \E e \in S :
          /\ \A f \in S : e <= f
          /\ Handle(w, e, S \ {e})
    /\ UNCHANGED <<database, publisher, redis, crashes>>

Target(w) == stream[handling[w]]

Handled(w) == stage' = [stage EXCEPT ![w] = "handled"]

\* psycopg.connect, or the claim itself, raises.
ConnectFails(w) ==
    /\ DatabaseMayFail
    /\ stage[w] \in {"received", "refused"}
    /\ Handled(w)
    /\ UNCHANGED <<database, publisher, redis, handling, inbox, crashes>>

\* Mutant of Claim: the UPDATE without status='ASSIGNED'.
ClaimAnyStatus(w) ==
    /\ stage[w] = "received"
    /\ job = "QUEUED"
    /\ job' = "ACTIVE"
    /\ executions' = [executions EXCEPT ![Target(w)] = "RUNNING"]
    /\ stage' = [stage EXCEPT ![w] = "working"]
    /\ UNCHANGED <<publisher, redis, handling, inbox, crashes>>

\* The claim transaction.
Claim(w) ==
    /\ stage[w] = "received"
    /\ executions[Target(w)] = "ASSIGNED"
    /\ job = "QUEUED"
    /\ job' = "ACTIVE"
    /\ executions' = [executions EXCEPT ![Target(w)] = "RUNNING"]
    /\ stage' = [stage EXCEPT ![w] = "working"]
    /\ UNCHANGED <<publisher, redis, handling, inbox, crashes>>

NotClaimable(w) ==
    /\ stage[w] = "received"
    /\ executions[Target(w)] # "ASSIGNED"
    /\ Handled(w)
    /\ UNCHANGED <<database, publisher, redis, handling, inbox, crashes>>

\* The job is not QUEUED: rollback ...
Refuse(w) ==
    /\ stage[w] = "received"
    /\ executions[Target(w)] = "ASSIGNED"
    /\ job # "QUEUED"
    /\ stage' = [stage EXCEPT ![w] = "refused"]
    /\ UNCHANGED <<database, publisher, redis, handling, inbox, crashes>>

\* Mutant of CancelRefused: whichever execution of the job is newest.
CancelNewest(w) ==
    /\ stage[w] = "refused"
    /\ executions' = [executions EXCEPT ![Len(executions)] = "CANCELLED"]
    /\ Handled(w)
    /\ UNCHANGED <<job, publisher, redis, handling, inbox, crashes>>

\* ... and an update by id, in another transaction, without looking again.
CancelRefused(w) ==
    /\ stage[w] = "refused"
    /\ executions' = [executions EXCEPT ![Target(w)] = "CANCELLED"]
    /\ Handled(w)
    /\ UNCHANGED <<job, publisher, redis, handling, inbox, crashes>>

\* _complete, _fail or _stopped: the execution ends, by id, and with it a job
\* that is not terminal - _fail also takes a QUEUED one along.  Or the handler
\* returns without writing the execution (_stopped finds the job gone on; _load
\* or _fail raises).
Finish(w) ==
    /\ stage[w] = "working"
    /\ \/ /\ executions' = [executions EXCEPT ![Target(w)] = "ENDED"]
          /\ job' = "IDLE"
       \/ UNCHANGED database
    /\ Handled(w)
    /\ UNCHANGED <<publisher, redis, handling, inbox, crashes>>

\* Mutant of Ack: done with the batch after its first entry.
AckBatch(w) ==
    /\ stage[w] = "handled"
    /\ pending' = pending \ (inbox[w] \cup {handling[w]})
    /\ stage' = [stage EXCEPT ![w] = "idle"]
    /\ handling' = [handling EXCEPT ![w] = 0]
    /\ inbox' = [inbox EXCEPT ![w] = {}]
    /\ UNCHANGED <<database, publisher, stream, delivered, crashes>>

\* xack in finally; then the next entry of the batch.
Ack(w) ==
    /\ stage[w] = "handled"
    /\ pending' = pending \ {handling[w]}
    /\ \/ \E e \in inbox[w] :
             /\ \A f \in inbox[w] : e <= f
             /\ Handle(w, e, inbox[w] \ {e})
       \/ /\ inbox[w] = {}
          /\ stage' = [stage EXCEPT ![w] = "idle"]
          /\ handling' = [handling EXCEPT ![w] = 0]
          /\ UNCHANGED inbox
    /\ UNCHANGED <<database, publisher, stream, delivered, crashes>>

\* The process dies and is restarted, or a Redis command outside the handler
\* raises and main() starts the loop again: the batch is forgotten.
Crash(w) ==
    /\ crashes < MaxCrashes
    /\ stage[w] # "idle"
    /\ crashes' = crashes + 1
    /\ stage' = [stage EXCEPT ![w] = "idle"]
    /\ handling' = [handling EXCEPT ![w] = 0]
    /\ inbox' = [inbox EXCEPT ![w] = {}]
    /\ UNCHANGED <<database, publisher, redis>>

\* The stream and the group are gone; setup() creates the group again from id 0.
FlushRedis ==
    /\ RedisMayFlush
    /\ delivered' = Len(stream)
    /\ pending' = {}
    /\ UNCHANGED <<database, publisher, stream, loops, crashes>>

-----------------------------------------------------------------------------
Publish(x) ==
    PublishBegin(x) \/ XaddSucceeds(x) \/ XaddFails(x) \/ PublishCommit(x) \/ PublishAbort(x)

Look(w) == ConnectFails(w) \/ Claim(w) \/ NotClaimable(w) \/ Refuse(w)

Consume(w) ==
    Deliver(w) \/ Reclaim(w) \/ Look(w) \/ CancelRefused(w) \/ Finish(w) \/ Ack(w)

Next ==
    \/ Submit \/ Cancel \/ FlushRedis
    \/ \E x \in DOMAIN executions : Lose(x) \/ Publish(x)
    \/ \E w \in Workers : Consume(w) \/ Crash(w)

Spec == Init /\ [][Next]_vars

(* Fairness.  The publisher's timer runs forever; neither Redis nor the      *)
(* database fails it at every attempt (strong fairness: an abort takes it    *)
(* back in between).  A live worker goes on, and polls and reclaims when     *)
(* idle; training ends.                                                      *)
Fairness ==
    /\ \A x \in 1 .. MaxExecutions :
          /\ WF_vars(x \in DOMAIN executions /\ PublishBegin(x))
          /\ SF_vars(x \in DOMAIN executions /\ (XaddSucceeds(x) \/ XaddFails(x)))
          /\ SF_vars(x \in DOMAIN executions /\ PublishCommit(x))
    /\ \A w \in Workers : WF_vars(Consume(w))

FairSpec == Spec /\ Fairness

-----------------------------------------------------------------------------
(* Properties *)

\* Every variable keeps to its domain; execution, event and lock go together.
TypeOK ==
    /\ job \in JobStatus
    /\ executions \in Seq(ExecStatus)
    /\ outbox \in Seq([status : OutboxStatus, attempts : Nat])
    /\ sending \in Seq(OutboxStatus \cup {"none", "PROCESSING"})
    /\ Len(outbox) = Len(executions)
    /\ Len(sending) = Len(executions)
    /\ stream \in Seq(1 .. Len(executions))
    /\ delivered \in 0 .. Len(stream)
    /\ pending \subseteq 1 .. delivered
    /\ stage \in [Workers -> Stage]
    /\ handling \in [Workers -> 0 .. delivered]
    /\ \A w \in Workers : handling[w] = 0 <=> stage[w] = "idle"
    /\ inbox \in [Workers -> SUBSET (1 .. delivered)]
    /\ duplicates \in Nat
    /\ crashes \in Nat

\* The newest execution of a QUEUED job is always claimable: no handler of a
\* duplicate or of an older attempt cancels it.
QueuedHasAssigned ==
    job = "QUEUED" =>
        executions # << >> /\ executions[Len(executions)] = "ASSIGNED"

\* An entry of execution x that some worker will still look at.
Underway(x) ==
    \E e \in DOMAIN stream : stream[e] = x /\ (e > delivered \/ e \in pending)

\* An ASSIGNED execution is never forgotten: its event is still to be sent, or an
\* entry is undelivered or unacknowledged, or the event is a dead letter.  Aborted
\* transactions, duplicates acknowledged by others and crashes do not break it.
AssignedIsUnderway ==
    \A x \in DOMAIN executions : executions[x] = "ASSIGNED" =>
        \/ outbox[x].status \in {"PENDING", "FAILED", "DEAD"}
        \/ Underway(x)

offered == {x \in DOMAIN executions : executions[x] = "ASSIGNED"}

holder == [w \in Workers |-> IF stage[w] = "working" THEN Target(w) ELSE 0]

Claims == INSTANCE ClaimOnce WITH
    submitted <- Len(executions), offered <- offered, holder <- holder

\* Delivery is at least once, work is at most once: dispatch implements ClaimOnce,
\* however often an entry is duplicated, reclaimed or redelivered.
ClaimedOnce == Claims!Spec

\* Every execution is looked at in the end, unless its event is dead-lettered:
\* claimed, or cancelled because its job went on without it.
AssignedIsHandled ==
    \A x \in 1 .. MaxExecutions :
        (x \in DOMAIN executions) ~>
            (x \in DOMAIN executions /\ (executions[x] # "ASSIGNED" \/ outbox[x].status = "DEAD"))
=============================================================================
