--------------------------- MODULE DispatchProofs ---------------------------
(***************************************************************************)
(* Proofs about Dispatch, for every set of workers, any limit of the       *)
(* publisher and any number of executions, duplicates and crashes.         *)
(***************************************************************************)
EXTENDS Dispatch, SequenceTheorems, TLAPS

-----------------------------------------------------------------------------
(* Types, one part per place the state is kept in *)

DatabaseOK ==
    /\ job \in JobStatus
    /\ executions \in Seq(ExecStatus)
    /\ outbox \in Seq([status : OutboxStatus, attempts : Nat])
    /\ sending \in Seq(OutboxStatus \cup {"none", "PROCESSING"})
    /\ Len(outbox) = Len(executions)
    /\ Len(sending) = Len(executions)

StreamOK ==
    /\ stream \in Seq(1 .. Len(executions))
    /\ delivered \in 0 .. Len(stream)
    /\ pending \subseteq 1 .. delivered

LoopsOK ==
    /\ stage \in [Workers -> Stage]
    /\ handling \in [Workers -> 0 .. delivered]
    /\ \A w \in Workers : handling[w] = 0 <=> stage[w] = "idle"
    /\ inbox \in [Workers -> SUBSET (1 .. delivered)]

CountersOK == duplicates \in Nat /\ crashes \in Nat

LEMMA TypeParts ==
    /\ TypeOK <=> DatabaseOK /\ StreamOK /\ LoopsOK /\ CountersOK
    /\ TypeOK' <=> DatabaseOK' /\ StreamOK' /\ LoopsOK' /\ CountersOK'
BY DEF TypeOK, DatabaseOK, StreamOK, LoopsOK, CountersOK

-----------------------------------------------------------------------------
(* What a step does to the executions and to the stream *)

\* Execution x gets status st; no other changes and none is added.
Writes(x, st) ==
    /\ executions' \in Seq(ExecStatus)
    /\ Len(executions') = Len(executions)
    /\ DOMAIN executions' = DOMAIN executions
    /\ executions'[x] = st
    /\ \A y \in DOMAIN executions : y # x => executions'[y] = executions[y]

LEMMA WriteEffect ==
    ASSUME DatabaseOK, NEW x \in DOMAIN executions, NEW st \in ExecStatus,
           executions' = [executions EXCEPT ![x] = st]
    PROVE  Writes(x, st)
<1>1. executions \in Seq(ExecStatus)
  BY DEF DatabaseOK
<1>2. DOMAIN executions = 1 .. Len(executions)
  BY <1>1, LenProperties
<1>3. /\ executions' \in Seq(ExecStatus) /\ Len(executions') = Len(executions)
      /\ \A y \in 1 .. Len(executions) :
            executions'[y] = IF y = x THEN st ELSE executions[y]
  BY <1>1, <1>2, ExceptSeq
<1>4. DOMAIN executions' = 1 .. Len(executions')
  BY <1>3, LenProperties
<1> QED
  BY <1>2, <1>3, <1>4 DEF Writes

\* One execution more than in es, ASSIGNED, with its event; the job is QUEUED.
Enqueued(es) ==
    /\ job' = "QUEUED"
    /\ executions' \in Seq(ExecStatus)
    /\ Len(executions') = Len(executions) + 1
    /\ DOMAIN executions' = DOMAIN executions \cup {Len(executions) + 1}
    /\ executions'[Len(executions) + 1] = "ASSIGNED"
    /\ \A y \in DOMAIN executions : executions'[y] = es[y]
    /\ outbox'[Len(executions) + 1].status = "PENDING"
    /\ \A y \in DOMAIN executions : outbox'[y] = outbox[y]
    /\ sending'[Len(executions) + 1] = "none"
    /\ \A y \in DOMAIN executions : sending'[y] = sending[y]

LEMMA EnqueueEffect ==
    ASSUME DatabaseOK, NEW es \in Seq(ExecStatus), Len(es) = Len(executions), Enqueue(es)
    PROVE  Enqueued(es) /\ DatabaseOK'
<1> DEFINE n == Len(executions)
           ev == [status |-> "PENDING", attempts |-> 0]
           E == [status : OutboxStatus, attempts : Nat]
           P == OutboxStatus \cup {"none", "PROCESSING"}
<1>1. executions \in Seq(ExecStatus) /\ outbox \in Seq(E) /\ sending \in Seq(P)
      /\ Len(outbox) = n /\ Len(sending) = n
  BY DEF DatabaseOK
<1>2. n \in Nat /\ DOMAIN executions = 1 .. n
  BY <1>1, LenProperties
<1>3. "ASSIGNED" \in ExecStatus /\ ev \in E /\ "none" \in P
  BY DEF ExecStatus, OutboxStatus
<1>4. /\ executions' \in Seq(ExecStatus) /\ Len(executions') = n + 1
      /\ executions'[n + 1] = "ASSIGNED"
      /\ \A y \in 1 .. n : executions'[y] = es[y]
  BY <1>3, AppendProperties DEF Enqueue
<1>5. /\ outbox' \in Seq(E) /\ Len(outbox') = n + 1
      /\ outbox'[n + 1] = ev
      /\ \A y \in 1 .. n : outbox'[y] = outbox[y]
  BY <1>1, <1>3, AppendProperties DEF Enqueue
<1>6. /\ sending' \in Seq(P) /\ Len(sending') = n + 1
      /\ sending'[n + 1] = "none"
      /\ \A y \in 1 .. n : sending'[y] = sending[y]
  BY <1>1, <1>3, AppendProperties DEF Enqueue
<1>7. DOMAIN executions' = 1 .. n + 1
  BY <1>4, LenProperties
<1>8. DOMAIN executions' = DOMAIN executions \cup {n + 1}
  BY <1>2, <1>7
<1>9. job' = "QUEUED"
  BY DEF Enqueue
<1>10. DatabaseOK'
  BY <1>4, <1>5, <1>6, <1>9 DEF DatabaseOK, JobStatus
<1> QED
  BY <1>2, <1>4, <1>5, <1>6, <1>8, <1>9, <1>10 DEF Enqueued

\* The stream is only ever extended.
StreamKept ==
    /\ Len(stream) <= Len(stream')
    /\ \A e \in 1 .. Len(stream) : stream'[e] = stream[e]

LEMMA StreamUnchanged ==
    ASSUME StreamOK, UNCHANGED stream PROVE StreamKept
<1>1. Len(stream) \in Nat
  BY LenProperties DEF StreamOK
<1> QED
  BY <1>1 DEF StreamKept

\* More executions leave the stream well-typed.
LEMMA StreamStays ==
    ASSUME StreamOK, Len(executions) \in Nat, Len(executions') \in Nat,
           Len(executions) <= Len(executions'), UNCHANGED redis
    PROVE  StreamOK' /\ StreamKept
<1>1. stream \in Seq(1 .. Len(executions'))
  <2>1. 1 .. Len(executions) \subseteq 1 .. Len(executions')
    OBVIOUS
  <2> QED
    BY <2>1, SeqMonotonic DEF StreamOK
<1>2. UNCHANGED stream /\ UNCHANGED delivered /\ UNCHANGED pending
  BY DEF redis
<1> QED
  BY <1>1, <1>2, StreamUnchanged DEF StreamOK

\* xadd of an entry for execution x.
LEMMA XaddEffect ==
    ASSUME StreamOK, NEW x \in 1 .. Len(executions), stream' = Append(stream, x),
           UNCHANGED <<executions, delivered, pending>>
    PROVE  /\ StreamOK' /\ StreamKept
           /\ Len(stream') = Len(stream) + 1 /\ stream'[Len(stream) + 1] = x
<1>1. stream \in Seq(1 .. Len(executions)) /\ Len(stream) \in Nat
  BY LenProperties DEF StreamOK
<1>2. /\ stream' \in Seq(1 .. Len(executions)) /\ Len(stream') = Len(stream) + 1
      /\ stream'[Len(stream) + 1] = x
      /\ \A e \in 1 .. Len(stream) : stream'[e] = stream[e]
  BY <1>1, AppendProperties
<1> QED
  BY <1>1, <1>2 DEF StreamOK, StreamKept

-----------------------------------------------------------------------------
(* Type correctness *)

LEMMA EventRow ==
    ASSUME DatabaseOK, NEW x \in DOMAIN executions
    PROVE  /\ x \in 1 .. Len(executions) /\ x \in 1 .. Len(outbox) /\ x \in 1 .. Len(sending)
           /\ outbox[x] \in [status : OutboxStatus, attempts : Nat]
           /\ sending[x] \in OutboxStatus \cup {"none", "PROCESSING"}
BY LenProperties, ElementOfSeq DEF DatabaseOK

LEMMA SendingEffect ==
    ASSUME DatabaseOK, NEW x \in DOMAIN executions,
           NEW st \in OutboxStatus \cup {"none", "PROCESSING"},
           sending' = [sending EXCEPT ![x] = st],
           UNCHANGED <<job, executions, outbox>>
    PROVE  /\ DatabaseOK'
           /\ \A y \in DOMAIN executions : sending'[y] = IF y = x THEN st ELSE sending[y]
<1> DEFINE P == OutboxStatus \cup {"none", "PROCESSING"}
<1>1. sending \in Seq(P) /\ x \in 1 .. Len(sending)
      /\ DOMAIN executions = 1 .. Len(sending)
  BY EventRow, LenProperties DEF DatabaseOK
<1>2. /\ sending' \in Seq(P) /\ Len(sending') = Len(sending)
      /\ \A y \in 1 .. Len(sending) : sending'[y] = IF y = x THEN st ELSE sending[y]
  BY <1>1, ExceptSeq
<1> QED
  BY <1>1, <1>2 DEF DatabaseOK

LEMMA CommitEffect ==
    ASSUME DatabaseOK, NEW x \in DOMAIN executions, PublishCommit(x)
    PROVE  /\ DatabaseOK'
           /\ \A y \in DOMAIN executions :
                /\ sending'[y] = IF y = x THEN "none" ELSE sending[y]
                /\ outbox'[y].status = IF y = x THEN sending[x] ELSE outbox[y].status
<1> DEFINE P == OutboxStatus \cup {"none", "PROCESSING"}
           E == [status : OutboxStatus, attempts : Nat]
           ev == [status |-> sending[x], attempts |-> outbox[x].attempts + 1]
<1>1. /\ sending \in Seq(P) /\ x \in 1 .. Len(sending) /\ sending[x] \in P
      /\ outbox \in Seq(E) /\ x \in 1 .. Len(outbox) /\ outbox[x] \in E
      /\ Len(outbox) = Len(sending) /\ DOMAIN executions = 1 .. Len(sending)
  BY EventRow, LenProperties DEF DatabaseOK
<1>2. /\ sending' = [sending EXCEPT ![x] = "none"] /\ outbox' = [outbox EXCEPT ![x] = ev]
      /\ sending[x] \notin {"none", "PROCESSING"} /\ UNCHANGED <<job, executions>>
  BY DEF PublishCommit, database
<1>3. /\ sending' \in Seq(P) /\ Len(sending') = Len(sending)
      /\ \A y \in 1 .. Len(sending) : sending'[y] = IF y = x THEN "none" ELSE sending[y]
  BY <1>1, <1>2, ExceptSeq
<1>4. ev \in E
  BY <1>1, <1>2
<1>5. /\ outbox' \in Seq(E) /\ Len(outbox') = Len(outbox)
      /\ \A y \in 1 .. Len(outbox) : outbox'[y] = IF y = x THEN ev ELSE outbox[y]
  BY <1>1, <1>2, <1>4, ExceptSeq
<1> QED
  BY <1>1, <1>2, <1>3, <1>5 DEF DatabaseOK

\* A worker starts on an entry.
LEMMA HandleEffect ==
    ASSUME StreamOK, StreamOK', LoopsOK, delivered <= delivered', NEW w \in Workers,
           NEW e \in 1 .. delivered', NEW rest \in SUBSET (1 .. delivered'),
           Handle(w, e, rest)
    PROVE  LoopsOK'
<1>1. /\ delivered \in Nat /\ delivered' \in Nat
  BY LenProperties DEF StreamOK
<1>2. 0 .. delivered \subseteq 0 .. delivered' /\ 1 .. delivered \subseteq 1 .. delivered'
  BY <1>1
<1>3. stage' \in [Workers -> Stage]
  BY DEF LoopsOK, Handle, Stage
<1>4. handling' \in [Workers -> 0 .. delivered']
  BY <1>1, <1>2 DEF LoopsOK, Handle
<1>5. inbox' \in [Workers -> SUBSET (1 .. delivered')]
  BY <1>2 DEF LoopsOK, Handle
<1>6. \A v \in Workers : handling'[v] = 0 <=> stage'[v] = "idle"
  BY <1>1 DEF LoopsOK, Handle, Stage
<1> QED
  BY <1>3, <1>4, <1>5, <1>6 DEF LoopsOK

\* A worker goes on with the entry it has.
LEMMA StageEffect ==
    ASSUME LoopsOK, NEW w \in Workers, stage[w] # "idle",
           NEW s \in Stage \ {"idle"}, stage' = [stage EXCEPT ![w] = s],
           UNCHANGED <<handling, inbox, delivered>>
    PROVE  LoopsOK'
BY DEF LoopsOK, Stage

\* A worker has none any more.
LEMMA IdleEffect ==
    ASSUME StreamOK, LoopsOK, NEW w \in Workers, stage' = [stage EXCEPT ![w] = "idle"],
           handling' = [handling EXCEPT ![w] = 0],
           inbox' = [inbox EXCEPT ![w] = {}] \/ UNCHANGED inbox,
           UNCHANGED delivered
    PROVE  LoopsOK'
<1>1. delivered \in Nat
  BY LenProperties DEF StreamOK
<1>2. stage' \in [Workers -> Stage]
  BY DEF LoopsOK, Stage
<1>3. handling' \in [Workers -> 0 .. delivered']
  BY <1>1 DEF LoopsOK
<1>4. inbox' \in [Workers -> SUBSET (1 .. delivered')]
  BY DEF LoopsOK
<1>5. \A v \in Workers : handling'[v] = 0 <=> stage'[v] = "idle"
  BY DEF LoopsOK
<1> QED
  BY <1>2, <1>3, <1>4, <1>5 DEF LoopsOK

\* Steps that touch neither the loops nor the number of delivered entries.
LEMMA LoopsStay ==
    ASSUME LoopsOK, UNCHANGED <<loops, delivered>> PROVE LoopsOK'
BY DEF LoopsOK, loops

\* The job and the scheduler.
LEMMA JobTypes ==
    ASSUME TypeOK, Submit \/ Cancel \/ \E x \in DOMAIN executions : Lose(x)
    PROVE  TypeOK' /\ StreamKept
<1> USE TypeParts
<1>1. /\ executions \in Seq(ExecStatus) /\ Len(executions) \in Nat
  BY LenProperties DEF DatabaseOK
<1>2. CASE Submit
  <2>1. Enqueued(executions) /\ DatabaseOK'
    BY <1>1, <1>2, EnqueueEffect DEF Submit
  <2>2. UNCHANGED <<duplicates, redis, loops, crashes>>
    BY <1>2 DEF Submit
  <2>3. StreamOK' /\ StreamKept
    BY <1>1, <2>1, <2>2, StreamStays DEF Enqueued
  <2> QED
    BY <2>1, <2>2, <2>3, LoopsStay DEF CountersOK, redis
<1>3. CASE Cancel
  <2>1. DatabaseOK'
    BY <1>3 DEF Cancel, publisher, DatabaseOK, JobStatus
  <2>2. StreamOK' /\ StreamKept
    BY <1>1, <1>3, StreamStays DEF Cancel
  <2> QED
    BY <1>3, <2>1, <2>2, LoopsStay DEF Cancel, CountersOK, redis, publisher
<1>4. CASE \E x \in DOMAIN executions : Lose(x)
  <2>1. PICK x \in DOMAIN executions : Lose(x)
    BY <1>4
  <2> DEFINE lost == [executions EXCEPT ![x] = "LOST"]
  <2>2. /\ lost \in Seq(ExecStatus) /\ Len(lost) = Len(executions)
    <3>1. x \in 1 .. Len(executions) /\ "LOST" \in ExecStatus
      BY <1>1, LenProperties DEF ExecStatus
    <3> QED
      BY <1>1, <3>1, ExceptSeq
  <2>3. UNCHANGED <<duplicates, redis, loops, crashes>>
    BY <2>1 DEF Lose
  <2>4. DatabaseOK' /\ Len(executions') \in {Len(executions), Len(executions) + 1}
    <3>1. CASE Enqueue(lost)
      BY <2>2, <3>1, EnqueueEffect DEF Enqueued
    <3>2. CASE job' = "IDLE" /\ executions' = lost /\ UNCHANGED <<outbox, sending>>
      BY <2>2, <3>2 DEF DatabaseOK, JobStatus
    <3> QED
      BY <2>1, <3>1, <3>2 DEF Lose
  <2>5. StreamOK' /\ StreamKept
    BY <1>1, <2>3, <2>4, StreamStays
  <2> QED
    BY <2>3, <2>4, <2>5, LoopsStay DEF CountersOK, redis
<1> QED
  BY <1>2, <1>3, <1>4

\* The publisher.
LEMMA PublishTypes ==
    ASSUME TypeOK, NEW x \in DOMAIN executions, Publish(x)
    PROVE  TypeOK' /\ StreamKept
<1> USE TypeParts
<1>1. x \in 1 .. Len(executions) /\ Len(executions) \in Nat
  BY LenProperties DEF DatabaseOK
<1>2. UNCHANGED <<database, delivered, pending, loops, crashes>>
  BY DEF Publish, PublishBegin, XaddSucceeds, XaddFails, PublishCommit, PublishAbort, redis
<1>3. CountersOK'
  BY <1>2 DEF CountersOK, Publish, PublishBegin, XaddSucceeds, XaddFails, PublishCommit,
     PublishAbort
<1>4. DatabaseOK'
  <2>1. CASE PublishCommit(x)
    BY <2>1, CommitEffect
  <2>2. CASE PublishBegin(x) \/ XaddSucceeds(x) \/ XaddFails(x) \/ PublishAbort(x)
    <3>1. PICK st \in OutboxStatus \cup {"none", "PROCESSING"} :
             sending' = [sending EXCEPT ![x] = st]
      BY <2>2 DEF PublishBegin, XaddSucceeds, XaddFails, PublishAbort, OutboxStatus
    <3>2. UNCHANGED <<job, executions, outbox>>
      BY <2>2 DEF PublishBegin, XaddSucceeds, XaddFails, PublishAbort, database
    <3> QED
      BY <3>1, <3>2, SendingEffect
  <2> QED
    BY <2>1, <2>2 DEF Publish
<1>5. StreamOK' /\ StreamKept
  <2>1. CASE stream' = Append(stream, x)
    BY <1>1, <1>2, <2>1, XaddEffect DEF database
  <2>2. CASE UNCHANGED stream
    BY <1>1, <1>2, <2>2, StreamStays DEF database, redis
  <2> QED
    BY <2>1, <2>2 DEF Publish, PublishBegin, XaddSucceeds, XaddFails, PublishCommit,
       PublishAbort, redis
<1> QED
  BY <1>2, <1>3, <1>4, <1>5, LoopsStay

\* A busy worker handles a delivered entry, which names an execution.
LEMMA TargetExists ==
    ASSUME TypeOK, NEW w \in Workers, stage[w] # "idle"
    PROVE  /\ handling[w] \in 1 .. delivered
           /\ handling[w] \in 1 .. Len(stream)
           /\ Target(w) \in DOMAIN executions
<1> USE TypeParts
<1>1. /\ stream \in Seq(1 .. Len(executions)) /\ Len(stream) \in Nat
      /\ DOMAIN executions = 1 .. Len(executions)
  BY LenProperties DEF StreamOK, DatabaseOK
<1>2. delivered \in 0 .. Len(stream) /\ handling[w] \in 0 .. delivered /\ handling[w] # 0
  BY DEF StreamOK, LoopsOK
<1>3. handling[w] \in 1 .. delivered /\ handling[w] \in 1 .. Len(stream)
  BY <1>1, <1>2
<1>4. stream[handling[w]] \in 1 .. Len(executions)
  BY <1>1, <1>3, ElementOfSeq
<1> QED
  BY <1>1, <1>3, <1>4 DEF Target

\* ... and still does after a step that leaves its entry with it.
LEMMA TargetKept ==
    ASSUME TypeOK, StreamKept, NEW w \in Workers, stage[w] # "idle",
           handling'[w] = handling[w]
    PROVE  Target(w)' = Target(w)
BY TargetExists DEF StreamKept, Target

\* The statuses a handler writes.
HandlerWrites(w) ==
    \/ UNCHANGED executions
    \/ Writes(Target(w), "RUNNING")
    \/ Writes(Target(w), "ENDED")
    \/ Writes(Target(w), "CANCELLED")

LEMMA HandlerEffect ==
    ASSUME TypeOK, NEW w \in Workers, stage[w] # "idle", job' \in JobStatus,
           \/ UNCHANGED executions
           \/ \E st \in {"RUNNING", "ENDED", "CANCELLED"} :
                 executions' = [executions EXCEPT ![Target(w)] = st],
           UNCHANGED <<outbox, sending, redis>>
    PROVE  /\ DatabaseOK' /\ StreamOK' /\ StreamKept
           /\ HandlerWrites(w)
           /\ Len(executions') = Len(executions)
<1> USE TypeParts
<1>1. Target(w) \in DOMAIN executions /\ Len(executions) \in Nat
  BY TargetExists, LenProperties DEF DatabaseOK
<1>2. CASE UNCHANGED executions
  BY <1>1, <1>2, StreamStays DEF DatabaseOK, HandlerWrites
<1>3. ASSUME NEW st \in {"RUNNING", "ENDED", "CANCELLED"},
             executions' = [executions EXCEPT ![Target(w)] = st]
      PROVE  /\ DatabaseOK' /\ StreamOK' /\ StreamKept
             /\ HandlerWrites(w)
             /\ Len(executions') = Len(executions)
  <2>1. Writes(Target(w), st)
    BY <1>1, <1>3, WriteEffect DEF ExecStatus
  <2>2. StreamOK' /\ StreamKept
    BY <1>1, <2>1, StreamStays DEF Writes
  <2>3. DatabaseOK'
    BY <2>1 DEF DatabaseOK, Writes
  <2>4. HandlerWrites(w)
    BY <2>1 DEF HandlerWrites
  <2> QED
    BY <2>1, <2>2, <2>3, <2>4 DEF Writes
<1> QED
  BY <1>2, <1>3

\* The handler of one worker.
HandlerStep(w) ==
    ConnectFails(w) \/ Claim(w) \/ NotClaimable(w) \/ Refuse(w) \/ CancelRefused(w) \/ Finish(w)

LEMMA HandlerTypes ==
    ASSUME TypeOK, NEW w \in Workers, HandlerStep(w)
    PROVE  TypeOK' /\ StreamKept /\ HandlerWrites(w) /\ Len(executions') = Len(executions)
<1> USE TypeParts
<1>1. stage[w] # "idle"
  BY DEF HandlerStep, ConnectFails, Claim, NotClaimable, Refuse, CancelRefused, Finish
<1>2. UNCHANGED <<publisher, redis, handling, inbox, crashes>>
  BY DEF HandlerStep, ConnectFails, Claim, NotClaimable, Refuse, CancelRefused, Finish
<1>3. job' \in JobStatus
  BY DEF HandlerStep, ConnectFails, Claim, NotClaimable, Refuse, CancelRefused, Finish,
     database, DatabaseOK, JobStatus
<1>4. \/ UNCHANGED executions
      \/ \E st \in {"RUNNING", "ENDED", "CANCELLED"} :
            executions' = [executions EXCEPT ![Target(w)] = st]
  BY DEF HandlerStep, ConnectFails, Claim, NotClaimable, Refuse, CancelRefused, Finish,
     database
<1>5. /\ DatabaseOK' /\ StreamOK' /\ StreamKept
      /\ HandlerWrites(w) /\ Len(executions') = Len(executions)
  BY <1>1, <1>2, <1>3, <1>4, HandlerEffect DEF publisher
<1>6. PICK s \in Stage \ {"idle"} : stage' = [stage EXCEPT ![w] = s]
  BY DEF HandlerStep, ConnectFails, Claim, NotClaimable, Refuse, CancelRefused, Finish,
     Handled, Stage
<1>7. LoopsOK'
  BY <1>1, <1>2, <1>6, StageEffect DEF redis
<1> QED
  BY <1>2, <1>5, <1>7 DEF CountersOK, publisher

\* The steps around the handler: none of them touches the database.
LoopStep(w) == Deliver(w) \/ Reclaim(w) \/ Ack(w) \/ Crash(w)

LEMMA LoopTypes ==
    ASSUME TypeOK, NEW w \in Workers, LoopStep(w)
    PROVE  TypeOK' /\ StreamKept /\ UNCHANGED <<database, publisher, stream>>
<1> USE TypeParts
<1>1. UNCHANGED <<database, publisher, stream>>
  BY DEF LoopStep, Deliver, Reclaim, Ack, Crash, redis
<1>2. DatabaseOK' /\ CountersOK' /\ StreamKept
  BY <1>1, StreamUnchanged DEF DatabaseOK, database, publisher, CountersOK, LoopStep, Deliver, Reclaim,
     Ack, Crash
<1>3. /\ stream \in Seq(1 .. Len(executions)) /\ Len(stream) \in Nat
      /\ delivered \in 0 .. Len(stream) /\ pending \subseteq 1 .. delivered
  BY LenProperties DEF StreamOK
<1>4. UNCHANGED executions
  BY <1>1 DEF database
<1>5. CASE Deliver(w)
  <2>1. delivered' = delivered + 1 /\ pending' = pending \cup {delivered + 1}
    BY <1>5 DEF Deliver
  <2>2. StreamOK'
    BY <1>1, <1>3, <1>4, <1>5, <2>1 DEF StreamOK, Deliver
  <2>3. delivered <= delivered' /\ delivered + 1 \in 1 .. delivered'
    BY <1>3, <2>1
  <2>4. Handle(w, delivered + 1, {})
    BY <1>5 DEF Deliver
  <2>5. LoopsOK'
    BY <2>2, <2>3, <2>4, HandleEffect
  <2> QED
    BY <1>1, <1>2, <2>2, <2>5
<1>6. CASE Reclaim(w)
  <2>1. UNCHANGED <<delivered, pending>> /\ StreamOK' /\ delivered <= delivered'
    BY <1>1, <1>3, <1>4, <1>6 DEF StreamOK, Reclaim, redis
  <2>2. PICK S \in SUBSET pending : \E e \in S : Handle(w, e, S \ {e})
    BY <1>6 DEF Reclaim
  <2>3. PICK e \in S : Handle(w, e, S \ {e})
    BY <2>2
  <2>4. e \in 1 .. delivered' /\ S \ {e} \in SUBSET (1 .. delivered')
    BY <1>3, <2>1, <2>2, <2>3
  <2>5. LoopsOK'
    BY <2>1, <2>3, <2>4, HandleEffect
  <2> QED
    BY <1>1, <1>2, <2>1, <2>5
<1>7. CASE Ack(w)
  <2>1. UNCHANGED delivered /\ pending' \subseteq pending /\ StreamOK' /\ delivered <= delivered'
    BY <1>1, <1>3, <1>4, <1>7 DEF StreamOK, Ack
  <2>2. CASE \E e \in inbox[w] : Handle(w, e, inbox[w] \ {e})
    <3>1. PICK e \in inbox[w] : Handle(w, e, inbox[w] \ {e})
      BY <2>2
    <3>2. e \in 1 .. delivered' /\ inbox[w] \ {e} \in SUBSET (1 .. delivered')
      BY <2>1, <3>1 DEF LoopsOK
    <3> QED
      BY <2>1, <3>1, <3>2, HandleEffect, <1>1, <1>2
  <2>3. CASE /\ stage' = [stage EXCEPT ![w] = "idle"]
             /\ handling' = [handling EXCEPT ![w] = 0] /\ UNCHANGED inbox
    BY <2>1, <2>3, IdleEffect, <1>1, <1>2
  <2> QED
    BY <1>7, <2>2, <2>3 DEF Ack
<1>8. CASE Crash(w)
  <2>1. UNCHANGED <<delivered, pending>> /\ StreamOK'
    BY <1>1, <1>3, <1>4, <1>8 DEF StreamOK, Crash, redis
  <2>2. LoopsOK'
    BY <1>8, <2>1, IdleEffect DEF Crash
  <2> QED
    BY <1>1, <1>2, <2>1, <2>2
<1> QED
  BY <1>5, <1>6, <1>7, <1>8 DEF LoopStep

LEMMA FlushTypes ==
    ASSUME TypeOK, FlushRedis
    PROVE  TypeOK' /\ StreamKept
<1> USE TypeParts
<1>1. /\ stream \in Seq(1 .. Len(executions)) /\ Len(stream) \in Nat
      /\ delivered \in 0 .. Len(stream) /\ pending \subseteq 1 .. delivered
  BY LenProperties DEF StreamOK
<1>2. /\ UNCHANGED <<database, publisher, stream, loops, crashes>>
      /\ delivered' = Len(stream) /\ pending' = {}
  BY DEF FlushRedis
<1>3. DatabaseOK' /\ CountersOK' /\ StreamOK' /\ StreamKept
  BY <1>1, <1>2, StreamUnchanged DEF DatabaseOK, CountersOK, StreamOK, database, publisher
<1>4. 0 .. delivered \subseteq 0 .. delivered' /\ 1 .. delivered \subseteq 1 .. delivered'
  BY <1>1, <1>2
<1>5. LoopsOK'
  BY <1>2, <1>4 DEF LoopsOK, loops
<1> QED
  BY <1>3, <1>5

LEMMA InitTypes == Init => TypeOK
<1> SUFFICES ASSUME Init PROVE TypeOK
  OBVIOUS
<1>1. /\ executions \in Seq(ExecStatus) /\ stream \in Seq(1 .. Len(executions))
      /\ outbox \in Seq([status : OutboxStatus, attempts : Nat])
      /\ sending \in Seq(OutboxStatus \cup {"none", "PROCESSING"})
      /\ Len(executions) = 0 /\ Len(outbox) = 0 /\ Len(sending) = 0 /\ Len(stream) = 0
  BY EmptySeq DEF Init
<1>2. handling \in [Workers -> 0 .. 0] /\ inbox \in [Workers -> SUBSET (1 .. 0)]
  BY DEF Init
<1> QED
  BY <1>1, <1>2 DEF Init, TypeOK, JobStatus, Stage

\* The steps of Next, by what they touch.
LEMMA StepKinds ==
    ASSUME Next
    PROVE  \/ Submit \/ Cancel \/ \E x \in DOMAIN executions : Lose(x)
           \/ \E x \in DOMAIN executions : Publish(x)
           \/ \E w \in Workers : HandlerStep(w) \/ LoopStep(w)
           \/ FlushRedis
BY DEF Next, Consume, Look, HandlerStep, LoopStep

\* Types are kept, and no entry of the stream changes.
LEMMA TypeNext ==
    ASSUME TypeOK, [Next]_vars PROVE TypeOK' /\ StreamKept
<1>1. CASE Next
  BY <1>1, StepKinds, JobTypes, PublishTypes, HandlerTypes, LoopTypes, FlushTypes
<1>2. CASE UNCHANGED vars
  BY <1>2, StreamUnchanged DEF vars, database, publisher, redis, loops, TypeOK, StreamOK
<1> QED
  BY <1>1, <1>2

\* Every variable keeps to its domain.
THEOREM TypeCorrect == Spec => []TypeOK
BY InitTypes, TypeNext, PTL DEF Spec

-----------------------------------------------------------------------------
(* The inductive invariant *)

\* An execution whose claim was refused is not the newest one of a QUEUED job:
\* since then the job has been queued again, with an execution of its own.
RefusedIsOld ==
    \A w \in Workers :
        stage[w] = "refused" /\ job = "QUEUED" => Target(w) # Len(executions)

\* What a worker works on is not ASSIGNED any more ...
WorkingIsTaken ==
    \A w \in Workers : stage[w] = "working" => executions[Target(w)] # "ASSIGNED"

\* ... and nobody else works on it.
WorkersDiffer ==
    \A v, w \in Workers :
        v # w /\ stage[v] = "working" /\ stage[w] = "working" => Target(v) # Target(w)

IInv ==
    /\ TypeOK
    /\ QueuedHasAssigned
    /\ RefusedIsOld
    /\ WorkingIsTaken
    /\ WorkersDiffer

LEMMA InitInv == Init => IInv
BY InitTypes DEF Init, IInv, QueuedHasAssigned, RefusedIsOld, WorkingIsTaken, WorkersDiffer

\* Nobody refuses or claims, and no execution is written.
LEMMA QuietInv ==
    ASSUME IInv, TypeOK', StreamKept, UNCHANGED executions, job' \in {job, "IDLE"},
           \A w \in Workers : stage'[w] \in {"refused", "working"} =>
               stage'[w] = stage[w] /\ handling'[w] = handling[w]
    PROVE  IInv'
<1>1. \A w \in Workers : stage'[w] \in {"refused", "working"} =>
          stage'[w] = stage[w] /\ Target(w)' = Target(w)
  BY TargetKept DEF IInv
<1>2. QueuedHasAssigned'
  BY DEF IInv, QueuedHasAssigned
<1>3. RefusedIsOld'
  BY <1>1 DEF IInv, RefusedIsOld
<1>4. WorkingIsTaken'
  BY <1>1 DEF IInv, WorkingIsTaken
<1>5. WorkersDiffer'
  BY <1>1 DEF IInv, WorkersDiffer
<1> QED
  BY <1>2, <1>3, <1>4, <1>5 DEF IInv

\* The job is queued with a new execution, which no worker has heard of.
LEMMA EnqueuedInv ==
    ASSUME IInv, TypeOK', StreamKept, UNCHANGED loops, NEW es, Enqueued(es),
           \A y \in DOMAIN executions : es[y] = "ASSIGNED" => executions[y] = "ASSIGNED"
    PROVE  IInv'
<1>1. Len(executions) \in Nat /\ DOMAIN executions = 1 .. Len(executions)
  BY LenProperties DEF IInv, TypeOK
<1>2. \A w \in Workers : stage'[w] # "idle" =>
          /\ stage'[w] = stage[w] /\ Target(w)' = Target(w)
          /\ Target(w) \in DOMAIN executions
  BY TargetKept, TargetExists DEF IInv, loops
<1>3. QueuedHasAssigned'
  <2>1. executions' # << >>
    BY <1>1 DEF Enqueued
  <2> QED
    BY <2>1 DEF QueuedHasAssigned, Enqueued
<1>4. RefusedIsOld'
  BY <1>1, <1>2 DEF RefusedIsOld, Enqueued
<1>5. WorkingIsTaken'
  BY <1>1, <1>2 DEF IInv, WorkingIsTaken, Enqueued
<1>6. WorkersDiffer'
  BY <1>2 DEF IInv, WorkersDiffer
<1> QED
  BY <1>3, <1>4, <1>5, <1>6 DEF IInv

LEMMA JobInv ==
    ASSUME IInv, Submit \/ Cancel \/ \E x \in DOMAIN executions : Lose(x)
    PROVE  IInv'
<1>1. TypeOK' /\ StreamKept
  BY JobTypes DEF IInv
<1>2. executions \in Seq(ExecStatus) /\ DatabaseOK
  BY TypeParts DEF IInv, DatabaseOK
<1>3. CASE Submit
  <2>1. Enqueued(executions) /\ UNCHANGED loops
    BY <1>2, <1>3, EnqueueEffect DEF Submit
  <2> QED
    BY <1>1, <2>1, EnqueuedInv
<1>4. CASE Cancel
  BY <1>1, <1>4, QuietInv DEF Cancel, loops
<1>5. ASSUME NEW x \in DOMAIN executions, Lose(x)
      PROVE  IInv'
  <2> DEFINE lost == [executions EXCEPT ![x] = "LOST"]
  <2>1. /\ lost \in Seq(ExecStatus) /\ Len(lost) = Len(executions)
        /\ \A y \in DOMAIN executions : lost[y] = IF y = x THEN "LOST" ELSE executions[y]
    <3>1. /\ x \in 1 .. Len(executions) /\ "LOST" \in ExecStatus
          /\ DOMAIN executions = 1 .. Len(executions)
      BY <1>2, LenProperties DEF ExecStatus
    <3> QED
      BY <1>2, <3>1, ExceptSeq
  <2>2. UNCHANGED loops
    BY <1>5 DEF Lose
  <2>3. CASE Enqueue(lost)
    <3>1. Enqueued(lost)
      BY <1>2, <2>1, <2>3, EnqueueEffect
    <3> QED
      BY <1>1, <2>1, <2>2, <3>1, EnqueuedInv
  <2>4. CASE job' = "IDLE" /\ executions' = lost
    <3>1. \A w \in Workers : stage'[w] # "idle" =>
              /\ stage'[w] = stage[w] /\ Target(w)' = Target(w)
              /\ Target(w) \in DOMAIN executions
      BY <1>1, <2>2, TargetKept, TargetExists DEF IInv, loops
    <3>2. QueuedHasAssigned' /\ RefusedIsOld'
      BY <2>4 DEF QueuedHasAssigned, RefusedIsOld
    <3>3. WorkingIsTaken' /\ WorkersDiffer'
      BY <2>1, <2>4, <3>1 DEF IInv, WorkingIsTaken, WorkersDiffer
    <3> QED
      BY <1>1, <3>2, <3>3 DEF IInv
  <2> QED
    BY <1>5, <2>3, <2>4 DEF Lose
<1> QED
  BY <1>3, <1>4, <1>5

\* The handler: Claim finds its execution ASSIGNED, so nobody works on it, and
\* CancelRefused never hits the newest execution of a QUEUED job.
LEMMA HandlerInv ==
    ASSUME IInv, NEW w \in Workers, HandlerStep(w)
    PROVE  IInv'
<1>1. TypeOK /\ TypeOK' /\ StreamKept /\ HandlerWrites(w) /\ Len(executions') = Len(executions)
  BY HandlerTypes DEF IInv
<1>2. UNCHANGED handling /\ stage[w] # "idle"
  BY DEF HandlerStep, ConnectFails, Claim, NotClaimable, Refuse, CancelRefused, Finish
<1>3. \A v \in Workers : stage[v] # "idle" => Target(v)' = Target(v)
  BY <1>1, <1>2, TargetKept
<1>4. stage \in [Workers -> Stage] /\ Target(w) \in DOMAIN executions
  BY <1>1, <1>2, TargetExists DEF TypeOK
<1>5. \A v \in Workers : v # w => stage'[v] = stage[v]
  BY <1>4 DEF HandlerStep, ConnectFails, Claim, NotClaimable, Refuse, CancelRefused, Finish,
     Handled
<1>6. CASE ConnectFails(w) \/ NotClaimable(w) \/ (Finish(w) /\ UNCHANGED database)
  <2>1. stage'[w] = "handled" /\ UNCHANGED database
    BY <1>4, <1>6 DEF ConnectFails, NotClaimable, Finish, Handled
  <2> QED
    BY <1>1, <1>2, <1>5, <2>1, QuietInv DEF database
<1>7. CASE Refuse(w)
  <2>1. stage'[w] = "refused" /\ UNCHANGED database /\ job # "QUEUED"
    BY <1>4, <1>7 DEF Refuse
  <2>2. RefusedIsOld' /\ QueuedHasAssigned'
    BY <2>1 DEF RefusedIsOld, QueuedHasAssigned, database
  <2>3. WorkingIsTaken' /\ WorkersDiffer'
    BY <1>3, <1>5, <2>1 DEF IInv, WorkingIsTaken, WorkersDiffer, database
  <2> QED
    BY <1>1, <2>2, <2>3 DEF IInv
<1>8. CASE Claim(w)
  <2>1. /\ stage'[w] = "working" /\ executions[Target(w)] = "ASSIGNED"
        /\ job' = "ACTIVE" /\ executions' = [executions EXCEPT ![Target(w)] = "RUNNING"]
    BY <1>4, <1>8 DEF Claim
  <2>2. Writes(Target(w), "RUNNING")
    BY <1>1, <1>4, <2>1, TypeParts, WriteEffect DEF ExecStatus
  <2>3. \A v \in Workers : v # w /\ stage'[v] = "working" =>
            /\ stage[v] = "working" /\ Target(v)' = Target(v) /\ Target(v) # Target(w)
            /\ Target(v) \in DOMAIN executions /\ executions[Target(v)] # "ASSIGNED"
    BY <1>1, <1>3, <1>5, <2>1, TargetExists DEF IInv, WorkingIsTaken
  <2>4. Target(w)' = Target(w)
    BY <1>2, <1>3
  <2>5. QueuedHasAssigned' /\ RefusedIsOld'
    BY <2>1 DEF QueuedHasAssigned, RefusedIsOld
  <2>6. WorkingIsTaken'
    BY <2>2, <2>3, <2>4 DEF WorkingIsTaken, Writes
  <2>7. WorkersDiffer'
    BY <2>3, <2>4 DEF IInv, WorkersDiffer
  <2> QED
    BY <1>1, <2>5, <2>6, <2>7 DEF IInv
<1>9. ASSUME \/ CancelRefused(w)
             \/ Finish(w) /\ executions' = [executions EXCEPT ![Target(w)] = "ENDED"] /\ job' = "IDLE"
      PROVE  IInv'
  <2>1. PICK st \in {"CANCELLED", "ENDED"} : executions' = [executions EXCEPT ![Target(w)] = st]
    BY <1>9 DEF CancelRefused
  <2>2. Writes(Target(w), st)
    BY <1>1, <1>4, <2>1, TypeParts, WriteEffect DEF ExecStatus
  <2>3. stage'[w] = "handled"
    BY <1>4, <1>9 DEF CancelRefused, Finish, Handled
  <2>4. \A v \in Workers : stage'[v] \in {"refused", "working"} =>
            /\ v # w /\ stage[v] = stage'[v] /\ Target(v)' = Target(v)
            /\ Target(v) \in DOMAIN executions
    BY <1>1, <1>3, <1>5, <2>3, TargetExists
  <2>5. WorkingIsTaken' /\ WorkersDiffer'
    BY <2>2, <2>4 DEF IInv, WorkingIsTaken, WorkersDiffer, Writes
  <2>6. RefusedIsOld' /\ QueuedHasAssigned'
    <3>1. CASE job' = "QUEUED"
      <4>1. CancelRefused(w) /\ job = "QUEUED" /\ stage[w] = "refused"
        BY <1>9, <3>1 DEF CancelRefused
      <4>2. Target(w) # Len(executions)
        BY <4>1 DEF IInv, RefusedIsOld
      <4>3. /\ executions \in Seq(ExecStatus) /\ executions # << >>
            /\ executions[Len(executions)] = "ASSIGNED"
        BY <4>1 DEF IInv, TypeOK, QueuedHasAssigned
      <4>4. Len(executions) \in DOMAIN executions /\ Len(executions) > 0
        BY <4>3, EmptySeq, LenProperties
      <4>5. executions'[Len(executions')] = "ASSIGNED" /\ executions' # << >>
        BY <1>1, <2>2, <4>2, <4>3, <4>4 DEF Writes
      <4> QED
        BY <1>1, <2>4, <4>1, <4>5 DEF IInv, RefusedIsOld, QueuedHasAssigned
    <3>2. CASE job' # "QUEUED"
      BY <3>2 DEF RefusedIsOld, QueuedHasAssigned
    <3> QED
      BY <3>1, <3>2
  <2> QED
    BY <1>1, <2>5, <2>6 DEF IInv
<1> QED
  BY <1>6, <1>7, <1>8, <1>9 DEF HandlerStep, Finish

\* Steps outside the handler leave refusals and claims alone.
LEMMA LoopInv ==
    ASSUME IInv, NEW w \in Workers, LoopStep(w)
    PROVE  IInv'
<1>1. TypeOK' /\ StreamKept /\ UNCHANGED database
  BY LoopTypes DEF IInv
<1>2. \A v \in Workers : stage'[v] \in {"refused", "working"} =>
          stage'[v] = stage[v] /\ handling'[v] = handling[v]
  BY DEF LoopStep, Deliver, Reclaim, Ack, Crash, Handle, IInv, TypeOK
<1> QED
  BY <1>1, <1>2, QuietInv DEF database

LEMMA NextInv ==
    ASSUME IInv, [Next]_vars PROVE IInv'
<1>1. CASE \E x \in DOMAIN executions : Publish(x)
  <2>1. PICK x \in DOMAIN executions : Publish(x)
    BY <1>1
  <2>2. TypeOK' /\ StreamKept
    BY <2>1, PublishTypes DEF IInv
  <2>3. UNCHANGED <<database, loops>>
    BY <2>1 DEF Publish, PublishBegin, XaddSucceeds, XaddFails, PublishCommit, PublishAbort
  <2> QED
    BY <2>2, <2>3, QuietInv DEF database, loops
<1>2. CASE FlushRedis
  BY <1>2, FlushTypes, QuietInv DEF IInv, FlushRedis, database, loops
<1>3. CASE UNCHANGED vars
  BY <1>3, TypeNext, QuietInv DEF IInv, vars, database, loops
<1> QED
  BY <1>1, <1>2, <1>3, StepKinds, JobInv, HandlerInv, LoopInv

\* The inductive invariant holds in every reachable state.
THEOREM Invariance == Spec => []IInv
BY InitInv, NextInv, PTL DEF Spec

\* A QUEUED job always has an ASSIGNED execution as its newest one: no duplicate
\* and no reclaimed entry makes a worker cancel it.
THEOREM QueuedIsAssigned == Spec => []QueuedHasAssigned
<1>1. IInv => QueuedHasAssigned
  BY DEF IInv
<1> QED
  BY <1>1, Invariance, PTL

-----------------------------------------------------------------------------
(* Dispatch implements ClaimOnce *)

LEMMA InitRefines == Init => Claims!Init
<1> SUFFICES ASSUME Init PROVE Claims!Init
  OBVIOUS
<1>1. Len(executions) = 0 /\ DOMAIN executions = {}
  BY EmptySeq, LenProperties DEF Init
<1> QED
  BY <1>1 DEF Init, Claims!Init, offered, holder

\* A step that writes no execution and starts no work: a worker that was working
\* may have stopped.
LEMMA QuietRefines ==
    ASSUME IInv, StreamKept, UNCHANGED executions, NEW w \in Workers,
           \A v \in Workers : v # w => stage'[v] = stage[v] /\ handling'[v] = handling[v],
           stage'[w] = "working" => stage[w] = "working" /\ handling'[w] = handling[w]
    PROVE  [Claims!Next]_(Claims!vars)
<1>1. \A v \in Workers : stage[v] = "working" =>
          /\ Target(v) # 0
          /\ handling'[v] = handling[v] => Target(v)' = Target(v)
  <2>1. DOMAIN executions = 1 .. Len(executions) /\ Len(executions) \in Nat
    BY LenProperties DEF IInv, TypeOK
  <2> QED
    BY <2>1, TargetKept, TargetExists DEF IInv
<1>2. offered' = offered /\ Len(executions') = Len(executions)
  BY DEF offered
<1>3. CASE stage[w] = "working" /\ stage'[w] # "working"
  <2>1. holder' = [holder EXCEPT ![w] = 0] /\ holder[w] # 0
    BY <1>1, <1>3 DEF holder
  <2> QED
    BY <1>2, <2>1 DEF Claims!Next, Claims!Release
<1>4. CASE ~(stage[w] = "working" /\ stage'[w] # "working")
  <2>1. holder' = holder
    BY <1>1, <1>4 DEF holder
  <2> QED
    BY <1>2, <2>1 DEF Claims!vars
<1> QED
  BY <1>3, <1>4

\* The job is queued with one more execution: Submit.
LEMMA EnqueuedRefines ==
    ASSUME IInv, StreamKept, UNCHANGED loops, NEW es, Enqueued(es),
           \A y \in DOMAIN executions : es[y] = "ASSIGNED" <=> executions[y] = "ASSIGNED"
    PROVE  [Claims!Next]_(Claims!vars)
<1>1. offered' = offered \cup {Len(executions) + 1}
  BY DEF offered, Enqueued
<1>2. holder' = holder
  BY TargetKept DEF IInv, loops, holder
<1> QED
  BY <1>1, <1>2 DEF Enqueued, Claims!Next, Claims!Submit

LEMMA JobRefines ==
    ASSUME IInv, Submit \/ Cancel \/ \E x \in DOMAIN executions : Lose(x)
    PROVE  [Claims!Next]_(Claims!vars)
<1>1. TypeOK' /\ StreamKept
  BY JobTypes DEF IInv
<1>2. executions \in Seq(ExecStatus) /\ DatabaseOK
  BY TypeParts DEF IInv, DatabaseOK
<1>3. CASE Submit
  <2>1. Enqueued(executions) /\ UNCHANGED loops
    BY <1>2, <1>3, EnqueueEffect DEF Submit
  <2> QED
    BY <1>1, <2>1, EnqueuedRefines
<1>4. CASE Cancel
  <2>1. UNCHANGED <<executions, loops>>
    BY <1>4 DEF Cancel
  <2>2. offered' = offered /\ holder' = holder
    BY <1>1, <2>1, TargetKept DEF IInv, loops, offered, holder
  <2> QED
    BY <2>1, <2>2 DEF Claims!vars
<1>5. ASSUME NEW x \in DOMAIN executions, Lose(x)
      PROVE  [Claims!Next]_(Claims!vars)
  <2> DEFINE lost == [executions EXCEPT ![x] = "LOST"]
  <2>1. /\ lost \in Seq(ExecStatus) /\ Len(lost) = Len(executions)
        /\ DOMAIN lost = DOMAIN executions
        /\ \A y \in DOMAIN executions : lost[y] = "ASSIGNED" <=> executions[y] = "ASSIGNED"
    <3>1. /\ x \in 1 .. Len(executions) /\ "LOST" \in ExecStatus
          /\ DOMAIN executions = 1 .. Len(executions)
      BY <1>2, LenProperties DEF ExecStatus
    <3>2. /\ lost \in Seq(ExecStatus) /\ Len(lost) = Len(executions)
          /\ \A y \in DOMAIN executions : lost[y] = IF y = x THEN "LOST" ELSE executions[y]
      BY <1>2, <3>1, ExceptSeq
    <3> QED
      BY <1>5, <3>2 DEF Lose
  <2>2. UNCHANGED loops
    BY <1>5 DEF Lose
  <2>3. CASE Enqueue(lost)
    <3>1. Enqueued(lost)
      BY <1>2, <2>1, <2>3, EnqueueEffect
    <3> QED
      BY <1>1, <2>1, <2>2, <3>1, EnqueuedRefines
  <2>4. CASE job' = "IDLE" /\ executions' = lost
    <3>1. offered' = offered /\ Len(executions') = Len(executions)
      BY <2>1, <2>4 DEF offered
    <3>2. holder' = holder
      BY <1>1, <2>2, TargetKept DEF IInv, loops, holder
    <3> QED
      BY <3>1, <3>2 DEF Claims!vars
  <2> QED
    BY <1>5, <2>3, <2>4 DEF Lose
<1> QED
  BY <1>3, <1>4, <1>5

\* Claim is Take, CancelRefused is Withdraw or nothing, Finish is Release.
LEMMA HandlerRefines ==
    ASSUME IInv, NEW w \in Workers, HandlerStep(w)
    PROVE  [Claims!Next]_(Claims!vars)
<1>1. TypeOK /\ StreamKept /\ Len(executions') = Len(executions)
  BY HandlerTypes DEF IInv
<1>2. UNCHANGED handling /\ stage[w] # "idle"
  BY DEF HandlerStep, ConnectFails, Claim, NotClaimable, Refuse, CancelRefused, Finish
<1>3. \A v \in Workers : stage[v] # "idle" => Target(v)' = Target(v)
  BY <1>1, <1>2, TargetKept
<1>4. stage \in [Workers -> Stage] /\ Target(w) \in DOMAIN executions /\ Target(w) # 0
  <2>1. DOMAIN executions = 1 .. Len(executions) /\ Len(executions) \in Nat
    BY <1>1, LenProperties DEF TypeOK
  <2>2. Target(w) \in DOMAIN executions
    BY <1>1, <1>2, TargetExists
  <2>3. Target(w) # 0
    BY <2>1, <2>2
  <2> QED
    BY <1>1, <2>2, <2>3 DEF TypeOK
<1>5. \A v \in Workers : v # w => stage'[v] = stage[v]
  BY <1>4 DEF HandlerStep, ConnectFails, Claim, NotClaimable, Refuse, CancelRefused, Finish,
     Handled
<1>6. CASE UNCHANGED executions
  <2>1. stage'[w] # "working"
    BY <1>1, <1>4, <1>6, TargetExists DEF HandlerStep, ConnectFails, Claim, NotClaimable, Refuse,
       CancelRefused, Finish, Handled
  <2> QED
    BY <1>1, <1>2, <1>5, <1>6, <2>1, QuietRefines
<1>7. CASE Claim(w)
  <2>1. /\ stage[w] = "received" /\ stage'[w] = "working" /\ executions[Target(w)] = "ASSIGNED"
        /\ executions' = [executions EXCEPT ![Target(w)] = "RUNNING"]
    BY <1>4, <1>7 DEF Claim
  <2>2. Writes(Target(w), "RUNNING")
    BY <1>1, <1>4, <2>1, TypeParts, WriteEffect DEF ExecStatus
  <2>3. offered' = offered \ {Target(w)} /\ Target(w) \in offered
    BY <1>4, <2>1, <2>2 DEF offered, Writes
  <2>4. holder' = [holder EXCEPT ![w] = Target(w)] /\ holder[w] = 0
    BY <1>2, <1>3, <1>5, <2>1 DEF holder
  <2> QED
    BY <1>1, <2>3, <2>4 DEF Claims!Next, Claims!Take
<1>8. CASE CancelRefused(w)
  <2>1. /\ stage[w] = "refused" /\ stage'[w] = "handled"
        /\ executions' = [executions EXCEPT ![Target(w)] = "CANCELLED"]
    BY <1>4, <1>8 DEF CancelRefused, Handled
  <2>2. Writes(Target(w), "CANCELLED")
    BY <1>1, <1>4, <2>1, TypeParts, WriteEffect DEF ExecStatus
  <2>3. offered' = offered \ {Target(w)}
    BY <1>4, <2>2 DEF offered, Writes
  <2>4. holder' = holder
    BY <1>2, <1>3, <1>5, <2>1 DEF holder
  <2>5. CASE Target(w) \in offered
    BY <1>1, <2>3, <2>4, <2>5 DEF Claims!Next, Claims!Withdraw
  <2>6. CASE Target(w) \notin offered
    BY <1>1, <2>3, <2>4, <2>6 DEF Claims!vars
  <2> QED
    BY <2>5, <2>6
<1>9. CASE Finish(w) /\ executions' = [executions EXCEPT ![Target(w)] = "ENDED"]
  <2>1. stage[w] = "working" /\ stage'[w] = "handled" /\ executions[Target(w)] # "ASSIGNED"
    BY <1>4, <1>9 DEF Finish, Handled, IInv, WorkingIsTaken
  <2>2. Writes(Target(w), "ENDED")
    BY <1>1, <1>4, <1>9, TypeParts, WriteEffect DEF ExecStatus
  <2>3. offered' = offered
    BY <1>4, <2>1, <2>2 DEF offered, Writes
  <2>4. holder' = [holder EXCEPT ![w] = 0] /\ holder[w] # 0
    BY <1>2, <1>3, <1>4, <1>5, <2>1 DEF holder
  <2> QED
    BY <1>1, <2>3, <2>4 DEF Claims!Next, Claims!Release
<1> QED
  BY <1>6, <1>7, <1>8, <1>9 DEF HandlerStep, ConnectFails, NotClaimable, Refuse, Finish, database

LEMMA NextRefines ==
    ASSUME IInv, [Next]_vars PROVE [Claims!Next]_(Claims!vars)
<1>1. TypeOK' /\ StreamKept
  BY TypeNext DEF IInv
<1>2. ASSUME UNCHANGED <<executions, loops>>
      PROVE  [Claims!Next]_(Claims!vars)
  <2>1. offered' = offered /\ holder' = holder
    BY <1>1, <1>2, TargetKept DEF IInv, loops, offered, holder
  <2> QED
    BY <1>2, <2>1 DEF Claims!vars
<1>3. CASE \E x \in DOMAIN executions : Publish(x)
  BY <1>2, <1>3 DEF Publish, PublishBegin, XaddSucceeds, XaddFails, PublishCommit, PublishAbort,
     database, loops
<1>4. CASE FlushRedis \/ UNCHANGED vars
  BY <1>2, <1>4 DEF FlushRedis, vars, database, loops
<1>5. ASSUME NEW w \in Workers, LoopStep(w)
      PROVE  [Claims!Next]_(Claims!vars)
  <2>1. UNCHANGED executions
    BY <1>5, LoopTypes DEF IInv, database
  <2>2. \A v \in Workers : v # w => stage'[v] = stage[v] /\ handling'[v] = handling[v]
    BY <1>5 DEF LoopStep, Deliver, Reclaim, Ack, Crash, Handle, IInv, TypeOK
  <2>3. stage'[w] # "working"
    BY <1>5 DEF LoopStep, Deliver, Reclaim, Ack, Crash, Handle, IInv, TypeOK
  <2> QED
    BY <1>1, <2>1, <2>2, <2>3, QuietRefines
<1> QED
  BY <1>3, <1>4, <1>5, StepKinds, JobRefines, HandlerRefines

\* Dispatch implements ClaimOnce: at most one worker ever claims an execution,
\* whatever is duplicated, reclaimed, lost or flushed.
THEOREM Refinement == Spec => ClaimedOnce
<1>1. Init => Claims!Init
  BY InitRefines
<1>2. IInv /\ [Next]_vars => [Claims!Next]_(Claims!vars)
  BY NextRefines
<1> QED
  BY <1>1, <1>2, Invariance, PTL DEF Spec, ClaimedOnce, Claims!Spec

\* Exclusion, which ClaimOnce states of whom it calls a holder: what a worker works on exists,
\* is on offer to nobody, and no other worker is at it - entries may name it any number of times.
THEOREM OneAtATime == Spec => []Claims!OneHolder
<1>1. IInv => Claims!OneHolder
  <2> SUFFICES ASSUME IInv, NEW w \in Workers, holder[w] # 0
               PROVE  /\ holder[w] \in 1 .. Len(executions)
                      /\ holder[w] \notin offered
                      /\ \A v \in Workers : holder[v] = holder[w] => v = w
    BY DEF Claims!OneHolder
  <2>1. stage[w] = "working" /\ holder[w] = Target(w)
    BY DEF holder
  <2>2. Target(w) \in DOMAIN executions /\ DOMAIN executions = 1 .. Len(executions)
    BY <2>1, TargetExists, TypeParts, LenProperties DEF IInv, DatabaseOK
  <2>3. holder[w] \notin offered
    BY <2>1 DEF IInv, WorkingIsTaken, offered
  <2>4. ASSUME NEW v \in Workers, holder[v] = holder[w]
        PROVE  v = w
    <3>1. stage[v] = "working" /\ holder[v] = Target(v)
      BY <2>4 DEF holder
    <3> QED
      BY <2>1, <2>4, <3>1 DEF IInv, WorkersDiffer
  <2> QED
    BY <2>1, <2>2, <2>3, <2>4
<1> QED
  BY <1>1, Invariance, PTL

-----------------------------------------------------------------------------
(* Nothing is forgotten while Redis keeps what it has and the database answers *)

\* A handler that is over has seen its execution claimed or cancelled, so the
\* acknowledgement loses nothing.
HandledIsOver ==
    \A w \in Workers : stage[w] = "handled" => executions[Target(w)] # "ASSIGNED"

\* An event about to be committed as PUBLISHED has an entry on its way.
SentIsUnderway ==
    \A x \in DOMAIN executions :
        executions[x] = "ASSIGNED" /\ sending[x] = "PUBLISHED" => Underway(x)

UInv == HandledIsOver /\ SentIsUnderway /\ AssignedIsUnderway

\* An entry that is neither delivered nor acknowledged in a step stays underway.
LEMMA UnderwayKept ==
    ASSUME TypeOK, StreamKept, NEW x \in DOMAIN executions, Underway(x),
           \A e \in DOMAIN stream : stream[e] = x =>
              /\ e > delivered => e > delivered' \/ e \in pending'
              /\ e \in pending => e \in pending',
           stream' \in Seq(1 .. Len(executions'))
    PROVE  Underway(x)'
<1>1. DOMAIN stream = 1 .. Len(stream) /\ Len(stream) \in Nat
  BY LenProperties DEF TypeOK
<1>2. DOMAIN stream' = 1 .. Len(stream') /\ Len(stream') \in Nat
  BY LenProperties
<1>3. PICK e \in DOMAIN stream : stream[e] = x /\ (e > delivered \/ e \in pending)
  BY DEF Underway
<1>4. e \in DOMAIN stream' /\ stream'[e] = x
  BY <1>1, <1>2, <1>3 DEF StreamKept
<1> QED
  BY <1>3, <1>4 DEF Underway

\* A step that leaves the publisher alone and offers no execution that was not
\* offered owes only that it loses no entry of an execution still ASSIGNED.
LEMMA QuietUnderway ==
    ASSUME IInv, UInv, TypeOK', StreamKept, UNCHANGED <<outbox, sending>>,
           DOMAIN executions' = DOMAIN executions,
           \A x \in DOMAIN executions : executions'[x] = "ASSIGNED" =>
              /\ executions[x] = "ASSIGNED"
              /\ \A e \in DOMAIN stream : stream[e] = x =>
                    /\ e > delivered => e > delivered' \/ e \in pending'
                    /\ e \in pending => e \in pending'
    PROVE  SentIsUnderway' /\ AssignedIsUnderway'
<1>1. stream' \in Seq(1 .. Len(executions'))
  BY DEF TypeOK
<1>2. \A x \in DOMAIN executions : executions'[x] = "ASSIGNED" /\ Underway(x) => Underway(x)'
  BY <1>1, UnderwayKept DEF IInv
<1> QED
  BY <1>2 DEF UInv, SentIsUnderway, AssignedIsUnderway

\* Nobody finishes a handler.
LEMMA HandledKept ==
    ASSUME IInv, UInv, StreamKept,
           \A w \in Workers : stage'[w] = "handled" =>
              stage[w] = "handled" /\ handling'[w] = handling[w],
           \A x \in DOMAIN executions : executions'[x] = "ASSIGNED" => executions[x] = "ASSIGNED"
    PROVE  HandledIsOver'
<1> SUFFICES ASSUME NEW w \in Workers, stage'[w] = "handled"
             PROVE  executions'[Target(w)'] # "ASSIGNED"
  BY DEF HandledIsOver
<1>1. stage[w] = "handled" /\ Target(w)' = Target(w) /\ Target(w) \in DOMAIN executions
  BY TargetKept, TargetExists DEF IInv
<1> QED
  BY <1>1 DEF UInv, HandledIsOver

LEMMA JobUnderway ==
    ASSUME IInv, UInv, Submit \/ Cancel \/ \E x \in DOMAIN executions : Lose(x)
    PROVE  UInv'
<1>1. TypeOK /\ TypeOK' /\ StreamKept
  BY JobTypes DEF IInv
<1>2. executions \in Seq(ExecStatus) /\ DatabaseOK
  BY <1>1, TypeParts DEF DatabaseOK
<1>3. ASSUME UNCHANGED <<redis, loops>>, NEW es, Enqueued(es),
             \A y \in DOMAIN executions : es[y] = "ASSIGNED" => executions[y] = "ASSIGNED"
      PROVE  UInv'
  <2>1. \A x \in DOMAIN executions : Underway(x) => Underway(x)'
    BY <1>3 DEF Underway, redis
  <2>2. \A x \in DOMAIN executions : executions'[x] = "ASSIGNED" => executions[x] = "ASSIGNED"
    BY <1>3 DEF Enqueued
  <2>3. SentIsUnderway' /\ AssignedIsUnderway'
    BY <1>3, <2>1, <2>2 DEF Enqueued, UInv, SentIsUnderway, AssignedIsUnderway
  <2>4. HandledIsOver'
    BY <1>1, <1>3, <2>2, HandledKept DEF loops
  <2> QED
    BY <2>3, <2>4 DEF UInv
<1>4. ASSUME UNCHANGED <<outbox, sending, redis, loops>>,
             DOMAIN executions' = DOMAIN executions,
             \A x \in DOMAIN executions : executions'[x] = "ASSIGNED" => executions[x] = "ASSIGNED"
      PROVE  UInv'
  <2>1. SentIsUnderway' /\ AssignedIsUnderway'
    BY <1>1, <1>4, QuietUnderway DEF redis
  <2>2. HandledIsOver'
    BY <1>1, <1>4, HandledKept DEF loops
  <2> QED
    BY <2>1, <2>2 DEF UInv
<1>5. CASE Submit
  <2>1. Enqueued(executions) /\ UNCHANGED <<redis, loops>>
    BY <1>2, <1>5, EnqueueEffect DEF Submit
  <2> QED
    BY <1>3, <2>1
<1>6. CASE Cancel
  BY <1>4, <1>6 DEF Cancel, publisher
<1>7. ASSUME NEW x \in DOMAIN executions, Lose(x)
      PROVE  UInv'
  <2> DEFINE lost == [executions EXCEPT ![x] = "LOST"]
  <2>1. /\ lost \in Seq(ExecStatus) /\ Len(lost) = Len(executions)
        /\ DOMAIN lost = DOMAIN executions
        /\ \A y \in DOMAIN executions : lost[y] = "ASSIGNED" => executions[y] = "ASSIGNED"
    <3>1. /\ x \in 1 .. Len(executions) /\ "LOST" \in ExecStatus
          /\ DOMAIN executions = 1 .. Len(executions)
      BY <1>2, LenProperties DEF ExecStatus
    <3> QED
      BY <1>2, <3>1, ExceptSeq
  <2>2. UNCHANGED <<redis, loops>>
    BY <1>7 DEF Lose
  <2>3. CASE Enqueue(lost)
    <3>1. Enqueued(lost)
      BY <1>2, <2>1, <2>3, EnqueueEffect
    <3> QED
      BY <1>3, <2>1, <2>2, <3>1
  <2>4. CASE executions' = lost /\ UNCHANGED <<outbox, sending>>
    BY <1>4, <2>1, <2>2, <2>4
  <2> QED
    BY <1>7, <2>3, <2>4 DEF Lose
<1> QED
  BY <1>5, <1>6, <1>7

\* The publisher marks an event PUBLISHED only after xadd, and a row whose
\* transaction is aborted is sent again.
LEMMA PublishUnderway ==
    ASSUME IInv, UInv, NEW x \in DOMAIN executions, Publish(x)
    PROVE  UInv'
<1>1. TypeOK /\ TypeOK' /\ StreamKept /\ DatabaseOK /\ StreamOK
  BY PublishTypes, TypeParts DEF IInv
<1>2. UNCHANGED <<executions, delivered, pending, loops>>
  BY DEF Publish, PublishBegin, XaddSucceeds, XaddFails, PublishCommit, PublishAbort, redis,
     database
<1>3. HandledIsOver'
  BY <1>1, <1>2, HandledKept DEF loops
<1>4. stream' \in Seq(1 .. Len(executions'))
  BY <1>1 DEF TypeOK
<1>5. \A y \in DOMAIN executions : Underway(y) => Underway(y)'
  BY <1>1, <1>2, <1>4, UnderwayKept
<1>6. CASE PublishCommit(x)
  <2>1. \A y \in DOMAIN executions :
          /\ sending'[y] = IF y = x THEN "none" ELSE sending[y]
          /\ outbox'[y].status = IF y = x THEN sending[x] ELSE outbox[y].status
    BY <1>1, <1>6, CommitEffect
  <2>2. sending[x] \in {"PENDING", "FAILED", "PUBLISHED", "DEAD"}
    BY <1>1, <1>6, EventRow DEF PublishCommit, OutboxStatus
  <2>3. SentIsUnderway'
    BY <1>2, <1>5, <2>1 DEF UInv, SentIsUnderway
  <2>4. AssignedIsUnderway'
    BY <1>2, <1>5, <2>1, <2>2 DEF UInv, SentIsUnderway, AssignedIsUnderway
  <2> QED
    BY <1>3, <2>3, <2>4 DEF UInv
<1>7. CASE PublishBegin(x) \/ XaddSucceeds(x) \/ XaddFails(x) \/ PublishAbort(x)
  <2>1. PICK st \in OutboxStatus \cup {"none", "PROCESSING"} :
            /\ sending' = [sending EXCEPT ![x] = st]
            /\ st = "PUBLISHED" => XaddSucceeds(x)
    BY <1>7 DEF PublishBegin, XaddSucceeds, XaddFails, PublishAbort, OutboxStatus
  <2>2. UNCHANGED <<job, executions, outbox>>
    BY <1>7 DEF PublishBegin, XaddSucceeds, XaddFails, PublishAbort, database
  <2>3. \A y \in DOMAIN executions : sending'[y] = IF y = x THEN st ELSE sending[y]
    BY <1>1, <2>1, <2>2, SendingEffect
  <2>4. AssignedIsUnderway'
    BY <1>5, <2>2 DEF UInv, AssignedIsUnderway
  <2>5. ASSUME XaddSucceeds(x)
        PROVE  Underway(x)'
    <3>1. x \in 1 .. Len(executions) /\ stream' = Append(stream, x)
      BY <1>1, <2>5, EventRow DEF XaddSucceeds
    <3>2. Len(stream') = Len(stream) + 1 /\ stream'[Len(stream) + 1] = x
      BY <1>1, <1>2, <3>1, XaddEffect
    <3>3. /\ DOMAIN stream' = 1 .. Len(stream') /\ Len(stream) \in Nat
          /\ delivered \in 0 .. Len(stream)
      BY <1>1, <1>4, LenProperties DEF StreamOK
    <3>4. Len(stream) + 1 \in DOMAIN stream' /\ Len(stream) + 1 > delivered'
      BY <1>2, <3>2, <3>3
    <3> QED
      BY <3>2, <3>4 DEF Underway
  <2>6. SentIsUnderway'
    BY <1>5, <2>1, <2>2, <2>3, <2>5 DEF UInv, SentIsUnderway
  <2> QED
    BY <1>3, <2>4, <2>6 DEF UInv
<1> QED
  BY <1>6, <1>7 DEF Publish

\* While the database answers, a handler ends only after it saw its execution
\* claimed or cancelled.
LEMMA HandlerUnderway ==
    ASSUME IInv, UInv, ~DatabaseMayFail, NEW w \in Workers, HandlerStep(w)
    PROVE  UInv'
<1>1. TypeOK /\ TypeOK' /\ StreamKept /\ HandlerWrites(w)
  BY HandlerTypes DEF IInv
<1>2. UNCHANGED <<outbox, sending, redis, handling>> /\ stage[w] # "idle"
  BY DEF HandlerStep, ConnectFails, Claim, NotClaimable, Refuse, CancelRefused, Finish, publisher
<1>3. /\ DOMAIN executions' = DOMAIN executions
      /\ \A x \in DOMAIN executions : executions'[x] = "ASSIGNED" => executions[x] = "ASSIGNED"
  <2>1. Target(w) \in DOMAIN executions
    BY <1>1, <1>2, TargetExists
  <2> QED
    BY <1>1, <2>1 DEF HandlerWrites, Writes
<1>4. SentIsUnderway' /\ AssignedIsUnderway'
  BY <1>1, <1>2, <1>3, QuietUnderway DEF redis
<1>5. stage \in [Workers -> Stage] /\ Target(w) \in DOMAIN executions /\ Target(w)' = Target(w)
  BY <1>1, <1>2, TargetExists, TargetKept DEF TypeOK
<1>6. \A v \in Workers : v # w => stage'[v] = stage[v]
  BY <1>5 DEF HandlerStep, ConnectFails, Claim, NotClaimable, Refuse, CancelRefused, Finish,
     Handled
<1>7. ASSUME stage'[w] = "handled"
      PROVE  executions'[Target(w)] # "ASSIGNED"
  <2>1. CASE NotClaimable(w)
    BY <2>1 DEF NotClaimable, database
  <2>2. CASE CancelRefused(w) \/ (Finish(w) /\ ~UNCHANGED executions)
    <3>1. PICK st \in {"CANCELLED", "ENDED"} :
              executions' = [executions EXCEPT ![Target(w)] = st]
      BY <2>2 DEF CancelRefused, Finish, database
    <3> QED
      BY <1>1, <1>5, <3>1, TypeParts, WriteEffect DEF ExecStatus, Writes
  <2>3. CASE Finish(w) /\ UNCHANGED executions
    BY <2>3 DEF Finish, IInv, WorkingIsTaken
  <2>4. CASE Claim(w) \/ Refuse(w) \/ ConnectFails(w)
    BY <1>5, <1>7, <2>4 DEF Claim, Refuse, ConnectFails
  <2> QED
    BY <2>1, <2>2, <2>3, <2>4 DEF HandlerStep
<1>8. HandledIsOver'
  <2> SUFFICES ASSUME NEW v \in Workers, stage'[v] = "handled"
               PROVE  executions'[Target(v)'] # "ASSIGNED"
    BY DEF HandledIsOver
  <2>1. CASE v = w
    BY <1>5, <1>7, <2>1
  <2>2. CASE v # w
    <3>1. stage[v] = "handled" /\ Target(v)' = Target(v) /\ Target(v) \in DOMAIN executions
      BY <1>1, <1>2, <1>6, <2>2, TargetExists, TargetKept
    <3> QED
      BY <1>3, <3>1 DEF UInv, HandledIsOver
  <2> QED
    BY <2>1, <2>2
<1> QED
  BY <1>4, <1>8 DEF UInv

\* Delivery makes an entry pending, and an acknowledged one is over.
LEMMA LoopUnderway ==
    ASSUME IInv, UInv, NEW w \in Workers, LoopStep(w)
    PROVE  UInv'
<1>1. TypeOK /\ TypeOK' /\ StreamKept /\ UNCHANGED <<database, publisher, stream>>
  BY LoopTypes DEF IInv
<1>2. HandledIsOver'
  <2>1. \A v \in Workers : stage'[v] = "handled" =>
            stage[v] = "handled" /\ handling'[v] = handling[v]
    BY <1>1 DEF LoopStep, Deliver, Reclaim, Ack, Crash, Handle, TypeOK
  <2> QED
    BY <1>1, <2>1, HandledKept DEF database
<1>3. ASSUME NEW x \in DOMAIN executions, executions[x] = "ASSIGNED",
             NEW e \in DOMAIN stream, stream[e] = x
      PROVE  /\ e > delivered => e > delivered' \/ e \in pending'
             /\ e \in pending => e \in pending'
  <2>1. e \in Nat /\ delivered \in Nat
    <3>1. DOMAIN stream = 1 .. Len(stream) /\ Len(stream) \in Nat
      BY <1>1, LenProperties DEF TypeOK
    <3> QED
      BY <1>1, <3>1 DEF TypeOK
  <2>2. CASE Deliver(w)
    BY <2>1, <2>2 DEF Deliver
  <2>3. CASE Reclaim(w) \/ Crash(w)
    BY <2>3 DEF Reclaim, Crash, redis
  <2>4. CASE Ack(w)
    <3>1. e # handling[w]
      BY <1>3, <2>4 DEF Ack, UInv, HandledIsOver, Target
    <3> QED
      BY <2>4, <3>1 DEF Ack
  <2> QED
    BY <2>2, <2>3, <2>4 DEF LoopStep
<1>4. SentIsUnderway' /\ AssignedIsUnderway'
  BY <1>1, <1>3, QuietUnderway DEF database, publisher
<1> QED
  BY <1>2, <1>4 DEF UInv

LEMMA InitUnderway == Init => UInv
<1> SUFFICES ASSUME Init PROVE UInv
  OBVIOUS
<1>1. DOMAIN executions = {}
  BY EmptySeq, LenProperties DEF Init
<1> QED
  BY <1>1 DEF Init, UInv, HandledIsOver, SentIsUnderway, AssignedIsUnderway

LEMMA NextUnderway ==
    ASSUME ~DatabaseMayFail, ~RedisMayFlush, IInv, UInv, [Next]_vars
    PROVE  UInv'
<1>1. CASE UNCHANGED vars
  BY <1>1 DEF vars, database, publisher, redis, loops, UInv, HandledIsOver, SentIsUnderway,
     AssignedIsUnderway, Underway, Target
<1>2. CASE FlushRedis
  BY <1>2 DEF FlushRedis
<1> QED
  BY <1>1, <1>2, StepKinds, JobUnderway, PublishUnderway, HandlerUnderway, LoopUnderway

\* Without a flush of Redis and with a database that answers, an ASSIGNED
\* execution always has an event to be sent, an entry to be handled, or a dead
\* letter: crashes, aborted transactions and duplicates forget nothing.
THEOREM NothingIsForgotten ==
    ASSUME ~DatabaseMayFail, ~RedisMayFlush
    PROVE  Spec => []AssignedIsUnderway
<1>1. Init => UInv
  BY InitUnderway
<1>2. IInv /\ UInv /\ [Next]_vars => UInv'
  BY NextUnderway
<1>3. UInv => AssignedIsUnderway
  BY DEF UInv
<1> QED
  BY <1>1, <1>2, <1>3, Invariance, PTL DEF Spec
=============================================================================
