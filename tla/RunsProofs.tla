------------------------------ MODULE RunsProofs ------------------------------
(***************************************************************************)
(* Proofs about Runs, for any parts, workers and retries.  What the steps  *)
(* common to inference and benchmark runs preserve comes first, then what  *)
(* each kind does in its own way, then both together; at the end, what     *)
(* holds of a run until it is misled.                                      *)
(***************************************************************************)
EXTENDS Runs, SequenceTheorems, FiniteSetTheorems, TLAPS

-----------------------------------------------------------------------------
(* The statuses and the open transactions, misled or not *)

Row == [status : ExecStatus, phase : Phase]

\* At most one open transaction ends a part.
OneEnder ==
    \A t, u \in open : t.to # "same" /\ u.to # "same" /\ t.part = u.part => t = u

\* The part it ends has neither completed nor been cancelled meanwhile.
EndersSpare ==
    \A t \in open : t.to # "same" => partStatus[t.part] \notin {"COMPLETED", "CANCELLED"}

\* A stop reaches every part: none is left that would start or go on unaware.
StopReachesAll ==
    runStatus = "STOPPING" => \A p \in Parts : partStatus[p] \notin {"QUEUED", "RUNNING"}

\* The statuses and the open transactions have their types.
StatusType ==
    /\ runStatus \in RunStatus
    /\ partStatus \in [Parts -> PartStatus]
    /\ open \subseteq Transaction

RunInv ==
    /\ StatusType
    /\ StopReachesAll
    /\ OneEnder
    /\ EndersSpare

\* Initially everything waits.
LEMMA InitRunInv ==
    ASSUME Init PROVE RunInv
BY DEF Init, RunInv, StatusType, StopReachesAll, OneEnder, EndersSpare, RunStatus, PartStatus

\* A step that leaves them alone.
LEMMA StayStep ==
    ASSUME RunInv, UNCHANGED <<runStatus, partStatus, open>> PROVE RunInv'
BY DEF RunInv, StatusType, StopReachesAll, OneEnder, EndersSpare

\* A claim.
LEMMA ClaimStep ==
    ASSUME RunInv, NEW p \in Parts, partStatus[p] = "QUEUED", ~PartLocked(p),
           partStatus' = [partStatus EXCEPT ![p] = "RUNNING"],
           runStatus' = IF runStatus = "QUEUED" THEN "RUNNING" ELSE runStatus,
           open' = open
    PROVE  RunInv'
<1>1. StatusType'
  BY DEF RunInv, StatusType, RunStatus, PartStatus
<1>2. runStatus' # "STOPPING"
  BY DEF RunInv, StopReachesAll
<1>3. \A t \in open : t.to # "same" => t.part # p
  BY DEF PartLocked
<1>4. OneEnder' /\ EndersSpare'
  BY <1>3 DEF RunInv, StatusType, OneEnder, EndersSpare
<1> QED
  BY <1>1, <1>2, <1>4 DEF RunInv, StopReachesAll

\* What a transaction may do when it counts: it ends a part nobody else is ending and that
\* has neither completed nor been cancelled, or none.
Begins(t) ==
    /\ t \in Transaction
    /\ open' = open \cup {t}
    /\ t.to # "same" =>
           ~PartLocked(t.part) /\ partStatus[t.part] \notin {"COMPLETED", "CANCELLED"}

\* A transaction that has counted.
LEMMA BeginStep ==
    ASSUME RunInv, NEW t, Begins(t), UNCHANGED <<runStatus, partStatus>>
    PROVE  RunInv'
<1>1. StatusType'
  BY DEF RunInv, StatusType, Begins
<1>2. OneEnder'
  BY DEF RunInv, OneEnder, Begins, PartLocked
<1>3. EndersSpare'
  BY DEF RunInv, EndersSpare, Begins
<1> QED
  BY <1>1, <1>2, <1>3 DEF RunInv, StopReachesAll

\* What a commit makes of the parts.
LEMMA CommitEffect ==
    ASSUME RunInv, NEW t \in open, partStatus' = Seen(t.part, t.to)
    PROVE  \A p \in Parts : \/ partStatus'[p] = partStatus[p]
                            \/ /\ p = t.part /\ t.to # "same" /\ partStatus'[p] = t.to
                               /\ partStatus'[p] \in ENDED \ {"CANCELLED"}
                               /\ partStatus[p] \notin {"COMPLETED", "CANCELLED"}
<1>1. /\ t \in Transaction /\ t.part \in Parts
      /\ t.to \in (ENDED \ {"CANCELLED"}) \cup {"same"}
  BY DEF RunInv, StatusType, Transaction
<1> QED
  BY <1>1 DEF RunInv, StatusType, EndersSpare, Seen

\* A transaction that commits.
LEMMA CommitStep ==
    ASSUME RunInv, NEW t \in open, NEW F, F \subseteq {"RUNNING", "STOPPING"},
           open' = open \ {t},
           partStatus' = Seen(t.part, t.to),
           runStatus' = IF t.verdict # "none" /\ runStatus \in F THEN t.verdict ELSE runStatus
    PROVE  RunInv'
<1>1. /\ t \in Transaction /\ t.part \in Parts /\ t.to \in (ENDED \ {"CANCELLED"}) \cup {"same"}
      /\ t.verdict \in FINAL \cup {"none"}
  BY DEF RunInv, StatusType, Transaction
<1>2. \A p \in Parts : \/ partStatus'[p] = partStatus[p]
                       \/ /\ p = t.part /\ t.to # "same" /\ partStatus'[p] = t.to
                          /\ partStatus'[p] \in ENDED \ {"CANCELLED"}
                          /\ partStatus[p] \notin {"COMPLETED", "CANCELLED"}
  BY CommitEffect
<1>3. StatusType'
  BY <1>1 DEF RunInv, StatusType, Seen, RunStatus, PartStatus
<1>4. runStatus' = runStatus \/ runStatus' \in FINAL
  BY <1>1
<1>5. StopReachesAll'
  BY <1>2, <1>4 DEF RunInv, StopReachesAll, FINAL, ENDED
<1>6. \A u \in open' : u \in open /\ u # t /\ (u.to # "same" /\ t.to # "same" => u.part # t.part)
  BY DEF RunInv, OneEnder
<1>7. OneEnder'
  BY <1>6 DEF RunInv, OneEnder
<1>8. EndersSpare'
  <2> SUFFICES ASSUME NEW u \in open', u.to # "same"
               PROVE  partStatus'[u.part] \notin {"COMPLETED", "CANCELLED"}
    BY DEF EndersSpare
  <2>1. u \in open /\ u.part \in Parts
    BY <1>6 DEF RunInv, StatusType, Transaction
  <2> QED
    BY <1>2, <1>6, <2>1 DEF RunInv, EndersSpare
<1> QED
  BY <1>3, <1>5, <1>7, <1>8 DEF RunInv

\* A stop of a run at work.
LEMMA StopStep ==
    ASSUME RunInv, StopRunning PROVE RunInv'
<1> USE DEF StopRunning
<1>1. StatusType'
  BY DEF RunInv, StatusType, RunStatus, PartStatus
<1>2. \A p \in Parts : partStatus'[p] \notin {"QUEUED", "RUNNING"} /\
          (partStatus'[p] = partStatus[p] \/ partStatus'[p] = "STOPPING")
  OBVIOUS
<1>3. OneEnder' /\ EndersSpare'
  BY <1>2 DEF RunInv, StatusType, Transaction, OneEnder, EndersSpare
<1> QED
  BY <1>1, <1>2, <1>3 DEF RunInv, StopReachesAll

\* What waits is cancelled: by a stop of a run that is QUEUED, and by deletion.
LEMMA CancelStep ==
    ASSUME RunInv, runStatus \notin {"RUNNING", "STOPPING"},
           \A p \in Parts : partStatus[p] = "QUEUED" => ~PartLocked(p),
           runStatus' \in {"CANCELLED", "DELETED"},
           partStatus' = QueuedCancelled, open' = open
    PROVE  RunInv'
<1> USE DEF QueuedCancelled
<1>1. StatusType'
  BY DEF RunInv, StatusType, RunStatus, PartStatus, ENDED
<1>2. \A p \in Parts : partStatus'[p] = partStatus[p] \/
          (partStatus[p] = "QUEUED" /\ ~PartLocked(p) /\ partStatus'[p] = "CANCELLED")
  OBVIOUS
<1>3. OneEnder' /\ EndersSpare'
  <2> SUFFICES ASSUME NEW t \in open, t.to # "same"
               PROVE  partStatus'[t.part] \notin {"COMPLETED", "CANCELLED"}
    BY DEF RunInv, OneEnder, EndersSpare
  <2>1. t.part \in Parts /\ PartLocked(t.part)
    BY DEF RunInv, StatusType, Transaction, PartLocked
  <2> QED
    BY <1>2, <2>1 DEF RunInv, EndersSpare
<1> QED
  BY <1>1, <1>3 DEF RunInv, StopReachesAll

\* A retry.
LEMMA RetryStep ==
    ASSUME RunInv, NEW D, RetryParts(D)
    PROVE  RunInv'
<1> USE DEF RetryParts
<1>1. StatusType'
  BY DEF RunInv, StatusType, RunStatus, PartStatus
<1>2. OneEnder' /\ EndersSpare'
  BY DEF RunInv, StatusType, Transaction, OneEnder, EndersSpare
<1> QED
  BY <1>1, <1>2 DEF RunInv, StopReachesAll

-----------------------------------------------------------------------------
(* What the rules of finalisation find *)

\* The rule of the workers.
LEMMA VerdictIsRight ==
    ASSUME NEW ps \in [Parts -> PartStatus]
    PROVE  /\ Verdict(ps) \in FINAL \cup {"none"}
           /\ Verdict(ps) # "none" => \A p \in Parts : ps[p] \in ENDED
           /\ Verdict(ps) = "COMPLETED" => \A p \in Parts : ps[p] \in {"COMPLETED", "CANCELLED"}
BY DEF Verdict, FINAL, ENDED, PartStatus

\* The rule of the scheduler.
LEMMA LostVerdictIsRight ==
    ASSUME NEW ps \in [Parts -> PartStatus]
    PROVE  /\ LostVerdict(ps) \in FINAL \cup {"none"}
           /\ LostVerdict(ps) # "none" => \A p \in Parts : ps[p] \in ENDED
           /\ LostVerdict(ps) = "COMPLETED" => \A p \in Parts : ps[p] \in {"COMPLETED", "CANCELLED"}
BY DEF LostVerdict, FINAL, ENDED, PartStatus

\* What a transaction sees are statuses of parts.
LEMMA SeenType ==
    ASSUME StatusType, NEW p \in Parts, NEW to \in (ENDED \ {"CANCELLED"}) \cup {"same"}
    PROVE  Seen(p, to) \in [Parts -> PartStatus]
BY DEF StatusType, Seen, PartStatus

\* Each transaction of a worker begins as it must.
LEMMA WorkerBegins ==
    ASSUME RunInv, retries \in Nat, NEW p \in Parts, NEW k \in Nat,
           NEW to \in (ENDED \ {"CANCELLED"}) \cup {"same"},
           NEW ex \in ExecStatus \cup {"same"},
           WorkerTransacts(p, k, to, ex),
           to # "same" => partStatus[p] \notin {"COMPLETED", "CANCELLED"}
    PROVE  \E t : /\ Begins(t) /\ t.part = p /\ t.attempt = k /\ t.by = "worker"
                  /\ t.to = to /\ t.execution = ex
<1> DEFINE t == [part |-> p, attempt |-> k, by |-> "worker", to |-> to, execution |-> ex,
                 verdict |-> Verdict(Seen(p, to)), round |-> retries]
<1>1. Seen(p, to) \in [Parts -> PartStatus]
  BY SeenType DEF RunInv
<1>2. Verdict(Seen(p, to)) \in FINAL \cup {"none"}
  BY <1>1, VerdictIsRight
<1>3. t \in Transaction
  BY <1>2 DEF Transaction
<1>4. open' = open \cup {t} /\ (to # "same" => ~PartLocked(p))
  BY DEF WorkerTransacts, Transact
<1>5. Begins(t)
  BY <1>3, <1>4 DEF Begins
<1> QED
  BY <1>5

-----------------------------------------------------------------------------
(* How the executions change *)

\* Row k of part p becomes [st, ph]; no other row changes and none is added.
Rewrites(p, k, st, ph) ==
    /\ executions' \in [Parts -> Seq(Row)]
    /\ \A q \in Parts : q # p => executions'[q] = executions[q]
    /\ \A q \in Parts : DOMAIN executions'[q] = DOMAIN executions[q]
    /\ executions'[p][k] = [status |-> st, phase |-> ph]
    /\ \A m \in DOMAIN executions[p] : m # k => executions'[p][m] = executions[p][m]

\* SetExecution rewrites one row.
LEMMA SetExecutionEffect ==
    ASSUME executions \in [Parts -> Seq(Row)],
           NEW p \in Parts, NEW k \in DOMAIN executions[p],
           NEW st \in ExecStatus, NEW ph \in Phase,
           SetExecution(p, k, st, ph)
    PROVE  Rewrites(p, k, st, ph)
<1> DEFINE e == [status |-> st, phase |-> ph]
           s == executions[p]
           t == [s EXCEPT ![k] = e]
<1>1. e \in Row
  BY DEF Row
<1>2. s \in Seq(Row)
  OBVIOUS
<1>3. /\ t \in Seq(Row) /\ Len(t) = Len(s) /\ DOMAIN t = DOMAIN s
      /\ t[k] = e /\ \A m \in DOMAIN s : m # k => t[m] = s[m]
  BY <1>1, <1>2, ExceptSeq
<1>4. executions' = [executions EXCEPT ![p] = t]
  BY DEF SetExecution
<1>5. executions'[p] = t /\ \A q \in Parts : q # p => executions'[q] = executions[q]
  BY <1>4
<1>6. executions' \in [Parts -> Seq(Row)]
  BY <1>3, <1>4
<1>7. \A q \in Parts : DOMAIN executions'[q] = DOMAIN executions[q]
  BY <1>3, <1>5
<1> QED
  BY <1>3, <1>5, <1>6, <1>7 DEF Rewrites

\* A dispatch appends one row that is ASSIGNED.
LEMMA DispatchedEffect ==
    ASSUME NEW s \in Seq(Row)
    PROVE  /\ Dispatched(s) \in Seq(Row)
           /\ Len(s) + 1 \in DOMAIN Dispatched(s)
           /\ Len(s) + 1 \notin DOMAIN s
           /\ Dispatched(s)[Len(s) + 1].status = "ASSIGNED"
           /\ \A k \in DOMAIN s : k \in DOMAIN Dispatched(s) /\ Dispatched(s)[k] = s[k]
<1> DEFINE e == [status |-> "ASSIGNED", phase |-> "none"]
           t == Append(s, e)
<1>1. e \in Row
  BY DEF Row, ExecStatus, Phase
<1>2. t \in Seq(Row) /\ Len(t) = Len(s) + 1 /\ t[Len(s) + 1] = e
  BY <1>1, AppendProperties
<1>3. \A k \in 1 .. Len(s) : t[k] = s[k]
  BY <1>1, AppendProperties
<1>4. DOMAIN t = 1 .. Len(s) + 1 /\ DOMAIN s = 1 .. Len(s) /\ Len(s) \in Nat
  BY <1>2, LenProperties
<1> QED
  BY <1>2, <1>3, <1>4 DEF Dispatched

\* The types of the executions, and the rows open transactions are about.
RowType ==
    /\ executions \in [Parts -> Seq(Row)]
    /\ \A t \in open : t.attempt \in DOMAIN executions[t.part]

\* The process behind an open transaction of a worker does nothing else, and the scheduler
\* opens none but to end a part.
Endings ==
    /\ \A t \in open : t.by = "worker" => executions[t.part][t.attempt].phase = "ending"
    /\ \A t, u \in open : /\ t.by = "worker" /\ u.by = "worker"
                          /\ t.part = u.part /\ t.attempt = u.attempt
                          => t = u
    /\ \A t \in open : t.by = "scheduler" => t.to # "same"

\* A row that is rewritten without a new transaction: nobody's transaction is behind it, or
\* its phase stays.
LEMMA EndingsStay ==
    ASSUME StatusType, RowType, Endings, NEW p \in Parts, NEW k \in DOMAIN executions[p],
           NEW st, NEW ph, Rewrites(p, k, st, ph), open' \subseteq open,
           \/ ph = executions[p][k].phase
           \/ \A t \in open' : ~(t.by = "worker" /\ t.part = p /\ t.attempt = k)
    PROVE  RowType' /\ Endings'
<1>1. \A t \in open' : /\ t.part \in Parts /\ t.attempt \in DOMAIN executions[t.part]
                       /\ ~(t.part = p /\ t.attempt = k) =>
                              executions'[t.part][t.attempt] = executions[t.part][t.attempt]
  BY DEF StatusType, Transaction, RowType, Rewrites
<1>2. RowType'
  BY <1>1 DEF RowType, Rewrites
<1>3. ASSUME NEW t \in open', t.by = "worker"
      PROVE  executions'[t.part][t.attempt].phase = "ending"
  <2>1. executions[t.part][t.attempt].phase = "ending"
    BY <1>3 DEF Endings
  <2>2. CASE t.part = p /\ t.attempt = k
    <3>1. executions'[p][k].phase = ph
      BY DEF Rewrites
    <3> QED
      BY <1>3, <2>1, <2>2, <3>1
  <2>3. CASE ~(t.part = p /\ t.attempt = k)
    BY <1>1, <2>1, <2>3
  <2> QED
    BY <2>2, <2>3
<1> QED
  BY <1>2, <1>3 DEF Endings

\* An open transaction ends execution k of part p, but not the part.
Leaves(p, k) ==
    \E t \in open : t.part = p /\ t.attempt = k /\ t.to = "same" /\ t.execution # "same"

\* Part p has an execution with a status of S that nobody is about to end without it.
HasRow(p, S) ==
    \E k \in DOMAIN executions[p] : executions[p][k].status \in S /\ ~Leaves(p, k)

\* Every part that is s has one.
Held(s, S) == \A p \in Parts : partStatus[p] = s => HasRow(p, S)

\* A rewritten row keeps Held(s, S) if nothing becomes s, and the row of a part
\* that stays s does not leave S.
LEMMA RewriteKeepsHeld ==
    ASSUME NEW p \in Parts, NEW k \in DOMAIN executions[p], NEW st, NEW ph,
           Rewrites(p, k, st, ph), NEW s, NEW S, Held(s, S),
           \A q \in Parts : partStatus'[q] = s => partStatus[q] = s,
           \A q \in Parts : \A m \in DOMAIN executions[q] :
               partStatus'[q] = s /\ Leaves(q, m)' => Leaves(q, m),
           partStatus'[p] = s /\ executions[p][k].status \in S /\ ~Leaves(p, k) => st \in S
    PROVE  Held(s, S)'
<1> SUFFICES ASSUME NEW q \in Parts, partStatus'[q] = s
             PROVE  \E m \in DOMAIN executions'[q] :
                        executions'[q][m].status \in S /\ ~Leaves(q, m)'
  BY DEF Held, HasRow
<1>1. PICK m \in DOMAIN executions[q] : executions[q][m].status \in S /\ ~Leaves(q, m)
  BY DEF Held, HasRow
<1>2. ~Leaves(q, m)'
  BY <1>1
<1>3. CASE q = p /\ m = k
  <2>1. executions'[p][k].status = st
    BY DEF Rewrites
  <2> QED
    BY <1>1, <1>2, <1>3, <2>1 DEF Rewrites
<1>4. CASE ~(q = p /\ m = k)
  <2>1. executions'[q][m] = executions[q][m] /\ m \in DOMAIN executions'[q]
    BY <1>1, <1>4 DEF Rewrites
  <2> QED
    BY <1>1, <1>2, <2>1
<1> QED
  BY <1>3, <1>4

\* What has to be proved of the executions: a part that waits, works or is asked
\* to stop has an execution that can end it.
Pending ==
    /\ Held("QUEUED", {"ASSIGNED"})
    /\ Held("RUNNING", {"RUNNING"})

\* Pending implies the invariant of the runs.
LEMMA PendingIsInvariant ==
    Pending => PendingHasExecution
BY DEF Pending, PendingHasExecution, Held, HasRow

\* A step of a process that leaves the status of its execution alone.
LEMMA GoToEffect ==
    ASSUME RunInv, RowType, NEW p \in Parts, NEW k \in DOMAIN executions[p], NEW ph \in Phase,
           GoTo(p, k, ph)
    PROVE  \E st \in ExecStatus : st = executions[p][k].status /\ Rewrites(p, k, st, ph)
<1>1. PICK st : st = executions[p][k].status
  OBVIOUS
<1>2. executions[p] \in Seq(Row) /\ executions[p][k] \in Row
  BY DEF RowType
<1>3. st \in ExecStatus
  BY <1>1, <1>2 DEF Row
<1>4. SetExecution(p, k, st, ph)
  BY <1>1 DEF GoTo
<1> QED
  BY <1>1, <1>3, <1>4, SetExecutionEffect DEF RowType

-----------------------------------------------------------------------------
(* The inductive invariant and the actions of both kinds of run *)

RunIInv ==
    /\ RunInv
    /\ RowType
    /\ Endings
    /\ Pending
    /\ artifact \in [Parts -> Nat]
    /\ retries \in Nat

\* Inductive only where the loss of an execution ends a part that is STOPPING.
Stoppable == Held("STOPPING", {"ASSIGNED", "RUNNING"})

\* The inductive invariant says what the properties say.
LEMMA RunIInvImplies ==
    ASSUME RunIInv
    PROVE  TypeOK /\ StopReachesAll /\ PendingHasExecution
BY PendingIsInvariant DEF RunIInv, RunInv, StatusType, RowType, Row, TypeOK

\* It holds initially.
LEMMA InitRunIInv ==
    ASSUME Init PROVE RunIInv /\ Stoppable
<1> DEFINE e == [status |-> "ASSIGNED", phase |-> "none"]
<1>1. RunInv
  BY InitRunInv
<1>2. e \in Row
  BY DEF Row, ExecStatus, Phase
<1>3. <<e>> \in Seq(Row) /\ DOMAIN <<e>> = {1} /\ <<e>>[1] = e
  BY <1>2
<1>4. executions = [p \in Parts |-> <<e>>] /\ open = {}
  BY DEF Init
<1>5. RowType /\ Endings
  BY <1>3, <1>4 DEF RowType, Endings
<1>6. \A p \in Parts : executions[p] = <<e>>
  BY <1>4
<1>7. Pending
  BY <1>3, <1>4, <1>6 DEF Init, Pending, Held, HasRow, Leaves
<1>8. Stoppable
  BY DEF Init, Stoppable, Held
<1> QED
  BY <1>1, <1>5, <1>7, <1>8 DEF RunIInv, Init

\* A process goes on, or an execution ends whose part needs it no more.
LEMMA QuietStep ==
    ASSUME RunIInv, NEW p \in Parts, NEW k \in DOMAIN executions[p],
           NEW st \in ExecStatus, NEW ph \in Phase, Rewrites(p, k, st, ph),
           UNCHANGED <<runStatus, partStatus, artifact, open, retries>>,
           ph = executions[p][k].phase \/ executions[p][k].phase # "ending",
           \/ st = executions[p][k].status
           \/ partStatus[p] \notin {"QUEUED", "RUNNING"}
           \/ partStatus[p] = "RUNNING" /\ executions[p][k].status = "ASSIGNED"
    PROVE  /\ RunIInv'
           /\ Stoppable /\ (st = executions[p][k].status \/ partStatus[p] # "STOPPING") => Stoppable'
<1>1. RunInv'
  BY StayStep DEF RunIInv
<1>2. RowType' /\ Endings'
  <2>1. \/ ph = executions[p][k].phase
        \/ \A t \in open' : ~(t.by = "worker" /\ t.part = p /\ t.attempt = k)
    BY DEF RunIInv, Endings
  <2> QED
    BY <2>1, EndingsStay DEF RunIInv, RunInv
<1>3. \A q, m : Leaves(q, m)' = Leaves(q, m)
  BY DEF Leaves
<1>4. Held("QUEUED", {"ASSIGNED"})'
  BY <1>3, RewriteKeepsHeld DEF RunIInv, Pending
<1>5. Held("RUNNING", {"RUNNING"})'
  BY <1>3, RewriteKeepsHeld DEF RunIInv, Pending
<1>6. Stoppable /\ (st = executions[p][k].status \/ partStatus[p] # "STOPPING") => Stoppable'
  BY <1>3, RewriteKeepsHeld DEF Stoppable
<1> QED
  BY <1>1, <1>2, <1>4, <1>5, <1>6 DEF RunIInv, Pending

\* A transaction of a worker has counted.
LEMMA WorkerBeginStep ==
    ASSUME RunIInv, NEW p \in Parts, NEW k \in DOMAIN executions[p],
           NEW to \in (ENDED \ {"CANCELLED"}) \cup {"same"},
           NEW ex \in ExecStatus \cup {"same"},
           WorkerTransacts(p, k, to, ex),
           executions[p][k].phase # "ending",
           to # "same" => partStatus[p] \notin {"COMPLETED", "CANCELLED"},
           to = "same" /\ ex # "same" => partStatus[p] \in {"COMPLETED", "CANCELLED"},
           UNCHANGED <<runStatus, partStatus, artifact, retries>>
    PROVE  RunIInv' /\ (Stoppable => Stoppable')
<1>1. k \in Nat
  <2>1. executions[p] \in Seq(Row)
    BY DEF RunIInv, RowType
  <2> QED
    BY <2>1, LenProperties
<1>2. PICK t : /\ Begins(t) /\ t.part = p /\ t.attempt = k /\ t.by = "worker"
               /\ t.to = to /\ t.execution = ex
  BY <1>1, WorkerBegins DEF RunIInv
<1>3. RunInv'
  BY <1>2, BeginStep DEF RunIInv
<1>4. PICK st \in ExecStatus : st = executions[p][k].status /\ Rewrites(p, k, st, "ending")
  <2>1. "ending" \in Phase /\ GoTo(p, k, "ending")
    BY DEF Phase, WorkerTransacts
  <2> QED
    BY <2>1, GoToEffect DEF RunIInv
<1>5. open' = open \cup {t}
  BY <1>2 DEF Begins
<1>6. RowType'
  BY <1>2, <1>4, <1>5 DEF RunIInv, RunInv, StatusType, Transaction, RowType, Rewrites
<1>7. \A u \in open : ~(u.by = "worker" /\ u.part = p /\ u.attempt = k)
  BY DEF RunIInv, Endings
<1>8. Endings'
  <2>1. ASSUME NEW u \in open', u.by = "worker"
        PROVE  executions'[u.part][u.attempt].phase = "ending"
    <3>1. CASE u = t
      <4>1. executions'[p][k].phase = "ending"
        BY <1>4 DEF Rewrites
      <4> QED
        BY <1>2, <3>1, <4>1
    <3>2. CASE u \in open
      <4>1. /\ u.part \in Parts /\ u.attempt \in DOMAIN executions[u.part]
            /\ executions[u.part][u.attempt].phase = "ending"
        BY <2>1, <3>2 DEF RunIInv, RunInv, StatusType, Transaction, RowType, Endings
      <4>2. executions'[u.part][u.attempt] = executions[u.part][u.attempt]
        BY <1>4, <1>7, <2>1, <3>2, <4>1 DEF Rewrites
      <4> QED
        BY <4>1, <4>2
    <3> QED
      BY <1>5, <3>1, <3>2
  <2> QED
    BY <1>2, <1>5, <1>7, <2>1 DEF RunIInv, Endings
<1>9. \A q, m : Leaves(q, m)' =>
          Leaves(q, m) \/ (q = p /\ partStatus[p] \in {"COMPLETED", "CANCELLED"})
  BY <1>2, <1>5 DEF Leaves
<1>10. Held("QUEUED", {"ASSIGNED"})'
  BY <1>4, <1>9, RewriteKeepsHeld DEF RunIInv, Pending
<1>11. Held("RUNNING", {"RUNNING"})'
  BY <1>4, <1>9, RewriteKeepsHeld DEF RunIInv, Pending
<1>12. Stoppable => Stoppable'
  BY <1>4, <1>9, RewriteKeepsHeld DEF Stoppable
<1> QED
  BY <1>3, <1>6, <1>8, <1>10, <1>11, <1>12 DEF RunIInv, Pending

\* The claim.
LEMMA ClaimPreserves ==
    ASSUME RunIInv, NEW p \in Parts, NEW k \in DOMAIN executions[p], Claim(p, k)
    PROVE  RunIInv' /\ (Stoppable => Stoppable')
<1> USE DEF Claim
<1>1. RunInv'
  BY ClaimStep DEF RunIInv
<1>2. Rewrites(p, k, "RUNNING", "working")
  BY SetExecutionEffect DEF RunIInv, RowType, ExecStatus, Phase
<1>3. \A t \in open : ~(t.by = "worker" /\ t.part = p /\ t.attempt = k)
  BY DEF Claimable, RunIInv, Endings
<1>4. RowType' /\ Endings'
  BY <1>2, <1>3, EndingsStay DEF RunIInv, RunInv
<1>5. \A q \in Parts : partStatus'[q] = IF q = p THEN "RUNNING" ELSE partStatus[q]
  BY DEF RunIInv, RunInv, StatusType
<1>6. \A q, m : Leaves(q, m)' = Leaves(q, m)
  BY DEF Leaves
<1>7. Held("QUEUED", {"ASSIGNED"})'
  BY <1>2, <1>5, <1>6, RewriteKeepsHeld DEF RunIInv, Pending
<1>8. Stoppable => Stoppable'
  BY <1>2, <1>5, <1>6, RewriteKeepsHeld DEF Stoppable
<1>9. ~Leaves(p, k)
  BY <1>3 DEF Leaves, RunIInv, RunInv, StatusType, Transaction, Endings
<1>10. Held("RUNNING", {"RUNNING"})'
  <2> SUFFICES ASSUME NEW q \in Parts, partStatus'[q] = "RUNNING"
               PROVE  \E m \in DOMAIN executions'[q] :
                          executions'[q][m].status \in {"RUNNING"} /\ ~Leaves(q, m)'
    BY DEF Held, HasRow
  <2>1. CASE q = p
    <3>1. k \in DOMAIN executions'[p] /\ executions'[p][k].status = "RUNNING"
      BY <1>2 DEF Rewrites
    <3> QED
      BY <1>6, <1>9, <2>1, <3>1
  <2>2. CASE q # p
    <3>1. partStatus[q] = "RUNNING" /\ executions'[q] = executions[q]
      BY <1>2, <1>5, <2>2 DEF Rewrites
    <3> QED
      BY <1>6, <3>1 DEF RunIInv, Pending, Held, HasRow
  <2> QED
    BY <2>1, <2>2
<1> QED
  BY <1>1, <1>4, <1>7, <1>8, <1>10 DEF RunIInv, Pending

\* The other endings of the claim.
LEMMA ClaimStopsPreserves ==
    ASSUME RunIInv, NEW p \in Parts, NEW k \in DOMAIN executions[p], ClaimStops(p, k)
    PROVE  RunIInv' /\ (Stoppable => Stoppable')
<1>1. executions[p][k].phase # "ending"
  BY DEF ClaimStops, Claimable
<1> QED
  BY <1>1, WorkerBeginStep DEF ClaimStops, ENDED, ExecStatus

\* A claim that is refused cancels an execution its part does not need.
LEMMA ClaimRefusedPreserves ==
    ASSUME RunIInv, NEW p \in Parts, NEW k \in DOMAIN executions[p], ClaimRefused(p, k)
    PROVE  RunIInv' /\ (Stoppable => Stoppable')
<1> USE DEF ClaimRefused
<1>1. Rewrites(p, k, "CANCELLED", "none")
  BY SetExecutionEffect DEF RunIInv, RowType, ExecStatus, Phase
<1>2. /\ partStatus[p] \notin {"QUEUED", "STOPPING"} /\ executions[p][k].status = "ASSIGNED"
      /\ executions[p][k].phase # "ending"
  BY DEF ENDED, Claimable
<1>3. "CANCELLED" \in ExecStatus /\ "none" \in Phase
  BY DEF ExecStatus, Phase
<1> QED
  BY <1>1, <1>2, <1>3, QuietStep

\* A process that only moves on.
LEMMA GoToPreserves ==
    ASSUME RunIInv, NEW p \in Parts, NEW k \in DOMAIN executions[p], NEW ph \in Phase,
           executions[p][k].phase # "ending",
           GoTo(p, k, ph), UNCHANGED <<runStatus, partStatus, artifact, open, retries>>
    PROVE  RunIInv' /\ (Stoppable => Stoppable')
<1>1. PICK st \in ExecStatus : st = executions[p][k].status /\ Rewrites(p, k, st, ph)
  BY GoToEffect DEF RunIInv
<1> QED
  BY <1>1, QuietStep

\* The worker between its transactions.
LEMMA FaultPreserves ==
    ASSUME RunIInv, NEW p \in Parts, NEW k \in DOMAIN executions[p],
           WorkEnds(p, k) \/ NoticeStop(p, k) \/ Fault(p, k)
    PROVE  RunIInv' /\ (Stoppable => Stoppable')
<1>1. CASE WorkEnds(p, k)
  BY <1>1, GoToPreserves DEF WorkEnds, Phase
<1>2. CASE NoticeStop(p, k)
  BY <1>2, GoToPreserves DEF NoticeStop, Phase
<1>3. CASE RaiseError(p, k)
  BY <1>3, GoToPreserves DEF RaiseError, Phase
<1>4. CASE Crash(p, k)
  BY <1>4, GoToPreserves DEF Crash, Phase
<1> QED
  BY <1>1, <1>2, <1>3, <1>4 DEF Fault

\* The transactions that end a part, or only an execution.
LEMMA StoppedPreserves ==
    ASSUME RunIInv, NEW p \in Parts, NEW k \in DOMAIN executions[p], Stopped(p, k)
    PROVE  RunIInv' /\ (Stoppable => Stoppable')
<1>1. CASE partStatus[p] = "STOPPING" /\ WorkerTransacts(p, k, "STOPPED", "STOPPED")
  BY <1>1, WorkerBeginStep DEF Stopped, ENDED, ExecStatus
<1>2. CASE partStatus[p] # "STOPPING" /\ WorkerTransacts(p, k, "same", "same")
  BY <1>2, WorkerBeginStep DEF Stopped
<1> QED
  BY <1>1, <1>2 DEF Stopped

\* An error ends the part, or only the execution of one that is over.
LEMMA FailPreserves ==
    ASSUME RunIInv, NEW p \in Parts, NEW k \in DOMAIN executions[p], Fail(p, k)
    PROVE  RunIInv' /\ (Stoppable => Stoppable')
<1>1. CASE partStatus[p] \notin {"COMPLETED", "CANCELLED"} /\ WorkerTransacts(p, k, "FAILED", "FAILED")
  BY <1>1, WorkerBeginStep DEF Fail, ENDED, ExecStatus
<1>2. CASE partStatus[p] \in {"COMPLETED", "CANCELLED"} /\ WorkerTransacts(p, k, "same", "FAILED")
  BY <1>2, WorkerBeginStep DEF Fail, ExecStatus
<1> QED
  BY <1>1, <1>2 DEF Fail

\* The commit.
LEMMA CommitPreserves ==
    ASSUME RunIInv, NEW t \in open, NEW F, F \subseteq {"RUNNING", "STOPPING"}, Commit(t, F)
    PROVE  RunIInv' /\ (Stoppable => Stoppable')
<1> USE DEF Commit
<1>1. RunInv'
  BY CommitStep DEF RunIInv
<1>2. /\ t.part \in Parts /\ t.attempt \in DOMAIN executions[t.part] /\ t.attempt \in Nat
      /\ t.to \in (ENDED \ {"CANCELLED"}) \cup {"same"} /\ t.execution \in ExecStatus \cup {"same"}
      /\ t.by \in {"worker", "scheduler"}
  BY DEF RunIInv, RunInv, StatusType, Transaction, RowType
<1>3. executions[t.part] \in Seq(Row) /\ executions[t.part][t.attempt] \in Row
  BY <1>2 DEF RunIInv, RowType
<1>4. PICK st, ph : st = EndedStatus(t) /\ ph = EndedPhase(t)
  OBVIOUS
<1>5. st \in ExecStatus /\ ph \in Phase
  BY <1>2, <1>3, <1>4 DEF EndedStatus, EndedPhase, Row, Phase
<1>6. Rewrites(t.part, t.attempt, st, ph)
  BY <1>2, <1>4, <1>5, SetExecutionEffect DEF RunIInv, RowType
<1>7. \A p \in Parts : partStatus'[p] = partStatus[p] \/
          (p = t.part /\ t.to # "same" /\ partStatus'[p] = t.to /\ t.to \in ENDED)
  BY <1>2 DEF Seen, RunIInv, RunInv, StatusType
<1>8. \A q, m : Leaves(q, m)' => Leaves(q, m)
  BY DEF Leaves
<1>9. \A s \in {"QUEUED", "RUNNING", "STOPPING"} :
          /\ \A p \in Parts : partStatus'[p] = s => partStatus[p] = s
          /\ partStatus'[t.part] = s /\ ~Leaves(t.part, t.attempt) =>
                 st = executions[t.part][t.attempt].status
  <2> SUFFICES ASSUME NEW s \in {"QUEUED", "RUNNING", "STOPPING"}, NEW p \in Parts, partStatus'[p] = s
               PROVE  /\ partStatus[p] = s
                      /\ p = t.part /\ ~Leaves(t.part, t.attempt) =>
                             st = executions[t.part][t.attempt].status
    BY <1>2
  <2>1. partStatus[p] = s
    BY <1>7 DEF ENDED
  <2>2. CASE p = t.part /\ ~Leaves(t.part, t.attempt)
    <3>1. t.to = "same"
      BY <1>2, <2>2 DEF Seen, RunIInv, RunInv, StatusType, ENDED
    <3>2. t.execution = "same"
      BY <2>2, <3>1 DEF Leaves
    <3> QED
      BY <1>4, <2>1, <3>2 DEF EndedStatus
  <2> QED
    BY <2>1, <2>2
<1>10. Held("QUEUED", {"ASSIGNED"})'
  BY <1>2, <1>6, <1>8, <1>9, RewriteKeepsHeld DEF RunIInv, Pending
<1>11. Held("RUNNING", {"RUNNING"})'
  BY <1>2, <1>6, <1>8, <1>9, RewriteKeepsHeld DEF RunIInv, Pending
<1>12. Stoppable => Stoppable'
  BY <1>2, <1>6, <1>8, <1>9, RewriteKeepsHeld DEF Stoppable
<1>13. RowType' /\ Endings'
  <2>1. \/ ph = executions[t.part][t.attempt].phase
        \/ \A u \in open' : ~(u.by = "worker" /\ u.part = t.part /\ u.attempt = t.attempt)
    BY <1>2, <1>4 DEF EndedPhase, RunIInv, Endings
  <2> QED
    BY <1>2, <1>6, <2>1, EndingsStay DEF RunIInv, RunInv
<1>14. artifact' \in [Parts -> Nat]
  BY <1>2 DEF RunIInv
<1> QED
  BY <1>1, <1>10, <1>11, <1>12, <1>13, <1>14 DEF RunIInv, Pending

\* Stops, and the cancellation of what waits.
LEMMA StopRunningPreserves ==
    ASSUME RunIInv, StopRunning
    PROVE  RunIInv' /\ (Stoppable => Stoppable')
<1> USE DEF StopRunning
<1>1. RunInv'
  BY StopStep DEF RunIInv
<1>2. \A p \in Parts : partStatus'[p] = IF partStatus[p] \in {"QUEUED", "RUNNING"}
                                      THEN "STOPPING" ELSE partStatus[p]
  OBVIOUS
<1>3. \A q, m : Leaves(q, m)' = Leaves(q, m)
  BY DEF Leaves
<1>4. Pending'
  BY <1>2 DEF Pending, Held
<1>5. Stoppable => Stoppable'
  <2> SUFFICES ASSUME Stoppable, NEW p \in Parts, partStatus'[p] = "STOPPING"
               PROVE  HasRow(p, {"ASSIGNED", "RUNNING"})'
    BY DEF Stoppable, Held
  <2>1. HasRow(p, {"ASSIGNED", "RUNNING"})
    BY <1>2 DEF Stoppable, RunIInv, Pending, Held, HasRow
  <2> QED
    BY <1>3, <2>1 DEF HasRow
<1> QED
  BY <1>1, <1>4, <1>5 DEF RunIInv, RowType, Endings

\* What waits is cancelled, and with it the run.
LEMMA CancelPreserves ==
    ASSUME RunIInv, runStatus \notin {"RUNNING", "STOPPING"},
           \A p \in Parts : partStatus[p] = "QUEUED" => ~PartLocked(p),
           runStatus' \in {"CANCELLED", "DELETED"}, partStatus' = QueuedCancelled,
           artifact' \in [Parts -> Nat], UNCHANGED <<executions, open, retries>>
    PROVE  RunIInv' /\ (Stoppable => Stoppable')
<1>1. RunInv'
  BY CancelStep DEF RunIInv
<1>2. \A p \in Parts : partStatus'[p] = IF partStatus[p] = "QUEUED" THEN "CANCELLED" ELSE partStatus[p]
  BY DEF QueuedCancelled
<1>3. Pending' /\ (Stoppable => Stoppable')
  BY <1>2 DEF RunIInv, Pending, Stoppable, Held, HasRow, Leaves
<1> QED
  BY <1>1, <1>3 DEF RunIInv, RowType, Endings

\* A retry.  The new rows are nobody's yet.
LEMMA RetryPreserves ==
    ASSUME RunIInv, NEW D, D \subseteq Parts, RetryParts(D), artifact' = artifact
    PROVE  RunIInv' /\ (Stoppable => Stoppable')
<1> USE DEF RetryParts
<1>1. RunInv'
  BY RetryStep DEF RunIInv
<1>2. \A p \in Parts : /\ p \in D => partStatus'[p] = "QUEUED" /\ executions'[p] = Dispatched(executions[p])
                       /\ p \notin D => partStatus'[p] = partStatus[p] /\ executions'[p] = executions[p]
  OBVIOUS
<1>3. \A p \in Parts : executions[p] \in Seq(Row)
  BY DEF RunIInv, RowType
<1>4. \A p \in Parts : executions'[p] \in Seq(Row)
  BY <1>2, <1>3, DispatchedEffect
<1>5. \A p \in Parts : \A k \in DOMAIN executions[p] :
          k \in DOMAIN executions'[p] /\ executions'[p][k] = executions[p][k]
  <2> SUFFICES ASSUME NEW p \in Parts, NEW k \in DOMAIN executions[p]
               PROVE  k \in DOMAIN executions'[p] /\ executions'[p][k] = executions[p][k]
    OBVIOUS
  <2>1. executions[p] \in Seq(Row)
    BY <1>3
  <2>2. /\ k \in DOMAIN Dispatched(executions[p])
        /\ Dispatched(executions[p])[k] = executions[p][k]
    BY <2>1, DispatchedEffect
  <2> QED
    BY <1>2, <2>2
<1>6. RowType' /\ Endings'
  <2>1. \A t \in open : t.part \in Parts /\ t.attempt \in DOMAIN executions[t.part]
    BY DEF RunIInv, RunInv, StatusType, Transaction, RowType
  <2>2. \A t \in open : /\ t.attempt \in DOMAIN executions'[t.part]
                        /\ executions'[t.part][t.attempt] = executions[t.part][t.attempt]
    BY <1>5, <2>1
  <2>3. executions' \in [Parts -> Seq(Row)]
    BY <1>4
  <2> QED
    BY <2>2, <2>3 DEF RunIInv, RowType, Endings
<1>7. \A q, m : Leaves(q, m)' = Leaves(q, m)
  BY DEF Leaves
<1>8. \A p \in Parts \ D : \A S : HasRow(p, S) => HasRow(p, S)'
  BY <1>2, <1>7 DEF HasRow
<1>9. Held("QUEUED", {"ASSIGNED"})'
  <2> SUFFICES ASSUME NEW p \in Parts, partStatus'[p] = "QUEUED"
               PROVE  HasRow(p, {"ASSIGNED"})'
    BY DEF Held
  <2>1. CASE p \in D
    <3> DEFINE m == Len(executions[p]) + 1
    <3>1. /\ m \in DOMAIN executions'[p] /\ m \notin DOMAIN executions[p]
          /\ executions'[p][m].status = "ASSIGNED"
      BY <1>2, <1>3, <2>1, DispatchedEffect
    <3>2. ~Leaves(p, m)
      BY <3>1 DEF Leaves, RunIInv, RowType
    <3> QED
      BY <1>7, <3>1, <3>2 DEF HasRow
  <2>2. CASE p \notin D
    BY <1>2, <1>8, <2>2 DEF RunIInv, Pending, Held
  <2> QED
    BY <2>1, <2>2
<1>10. Held("RUNNING", {"RUNNING"})'
  BY <1>2, <1>8 DEF RunIInv, Pending, Held
<1>11. Stoppable => Stoppable'
  BY <1>2, <1>8 DEF Stoppable, Held
<1> QED
  BY <1>1, <1>6, <1>9, <1>10, <1>11 DEF RunIInv, Pending

-----------------------------------------------------------------------------
(* What inference does in its own way *)

InferenceInv == RunIInv /\ Stoppable

\* A completion counts as any transaction of a worker, or is rejected.
LEMMA CompleteDatasetPreserves ==
    ASSUME RunIInv, NEW p \in Parts, NEW k \in DOMAIN executions[p],
           CompleteDataset(p, k) \/ DatasetRejected(p, k)
    PROVE  RunIInv' /\ (Stoppable => Stoppable')
<1>1. CASE CompleteDataset(p, k)
  BY <1>1, WorkerBeginStep DEF CompleteDataset, ENDED, ExecStatus
<1>2. CASE DatasetRejected(p, k)
  <2>1. CASE partStatus[p] = "STOPPING"
    BY <1>2, <2>1, GoToPreserves DEF DatasetRejected, Phase
  <2>2. CASE partStatus[p] # "STOPPING"
    BY <1>2, <2>2, GoToPreserves DEF DatasetRejected, Phase
  <2> QED
    BY <2>1, <2>2
<1> QED
  BY <1>1, <1>2

\* The loss of an execution ends the dataset, or the dataset has ended.
LEMMA LoseDatasetPreserves ==
    ASSUME InferenceInv, NEW p \in Parts, NEW k \in DOMAIN executions[p], LoseDataset(p, k)
    PROVE  InferenceInv'
<1>1. executions[p] \in Seq(Row) /\ executions[p][k] \in Row /\ k \in Nat
  BY LenProperties DEF InferenceInv, RunIInv, RowType
<1>2. CASE partStatus[p] \in ENDED /\ LoseOnly(p, k)
  <2>1. PICK ph : ph = executions[p][k].phase
    OBVIOUS
  <2>2. ph \in Phase /\ "LOST" \in ExecStatus
    BY <1>1, <2>1 DEF Row, ExecStatus
  <2>3. Rewrites(p, k, "LOST", ph)
    BY <1>2, <2>1, <2>2, SetExecutionEffect DEF LoseOnly, InferenceInv, RunIInv, RowType
  <2>4. partStatus[p] \notin {"QUEUED", "RUNNING", "STOPPING"}
    BY <1>2 DEF ENDED
  <2> QED
    BY <1>2, <2>1, <2>2, <2>3, <2>4, QuietStep DEF LoseOnly, InferenceInv
<1>3. CASE /\ partStatus[p] \in {"QUEUED", "RUNNING", "STOPPING"}
           /\ \E to \in {"STOPPED", "FAILED"} : LoseAndEnd(p, k, to, Verdict(Seen(p, to)))
  <2>1. PICK to \in {"STOPPED", "FAILED"} : LoseAndEnd(p, k, to, Verdict(Seen(p, to)))
    BY <1>3
  <2>2. to \in (ENDED \ {"CANCELLED"}) \cup {"same"} /\ to # "same"
    BY DEF ENDED
  <2> DEFINE t == [part |-> p, attempt |-> k, by |-> "scheduler", to |-> to,
                   execution |-> "LOST", verdict |-> Verdict(Seen(p, to)), round |-> retries]
  <2>3. Seen(p, to) \in [Parts -> PartStatus]
    BY <2>2, SeenType DEF InferenceInv, RunIInv, RunInv
  <2>4. Verdict(Seen(p, to)) \in FINAL \cup {"none"}
    BY <2>3, VerdictIsRight
  <2>5. t \in Transaction
    BY <1>1, <2>2, <2>4 DEF Transaction, ExecStatus, InferenceInv, RunIInv
  <2>6. open' = open \cup {t} /\ ~PartLocked(p)
    BY <2>1, <2>2 DEF LoseAndEnd, Transact
  <2>7. Begins(t)
    BY <1>3, <2>2, <2>5, <2>6 DEF Begins
  <2>8. \E u : /\ Begins(u) /\ u.part = p /\ u.attempt = k /\ open' = open \cup {u}
               /\ u.by = "scheduler" /\ u.to # "same"
    BY <2>2, <2>6, <2>7
  <2>9. UNCHANGED <<runStatus, partStatus, executions, artifact, retries>>
    BY <2>1 DEF LoseAndEnd
  <2>10. RunInv'
    BY <2>8, <2>9, BeginStep DEF InferenceInv, RunIInv
  <2>11. RowType' /\ Endings'
    BY <2>8, <2>9 DEF InferenceInv, RunIInv, RowType, Endings
  <2>12. \A q, m : Leaves(q, m)' = Leaves(q, m)
    BY <2>8 DEF Leaves
  <2> QED
    BY <2>9, <2>10, <2>11, <2>12 DEF InferenceInv, RunIInv, Pending, Stoppable, Held, HasRow
<1> QED
  BY <1>2, <1>3 DEF LoseDataset

\* A retry of what did not complete.
LEMMA RetryDatasetsPreserves ==
    ASSUME InferenceInv, RetryDatasets PROVE InferenceInv'
<1>1. PICK D : D = {p \in Parts : partStatus[p] \in RETRYABLE_DATASET}
  OBVIOUS
<1>2. D \subseteq Parts /\ RetryParts(D) /\ artifact' = artifact
  BY <1>1 DEF RetryDatasets
<1> QED
  BY <1>2, RetryPreserves DEF InferenceInv

\* Deletion cancels what waits.
LEMMA DeleteRunPreserves ==
    ASSUME InferenceInv, DeleteRun PROVE InferenceInv'
<1>1. artifact' \in [Parts -> Nat]
  BY DEF DeleteRun
<1> QED
  BY <1>1, CancelPreserves DEF DeleteRun, InferenceInv

\* So does the stop of a run that is QUEUED.
LEMMA CancelQueuedPreserves ==
    ASSUME InferenceInv, CancelQueued PROVE InferenceInv'
BY CancelPreserves DEF CancelQueued, InferenceInv, RunIInv

\* One step, by who takes it.
LEMMA InferenceSteps ==
    ASSUME RunIInv, InferenceNext
    PROVE  \/ StopRunning \/ CancelQueued \/ RetryDatasets \/ DeleteRun
           \/ \E p \in Parts : \E k \in DOMAIN executions[p] :
                 Deliver(p, k) \/ Work(p, k) \/ Fault(p, k)
                    \/ CompleteDataset(p, k) \/ DatasetRejected(p, k) \/ LoseDataset(p, k)
           \/ \E t \in open : Commit(t, {"RUNNING", "STOPPING"})
BY DEF InferenceNext, Attempts, WorkerCommits, DatasetLossCommits

\* Every step of an inference run, action by action.
LEMMA InferencePreserves ==
    ASSUME InferenceInv, InferenceNext PROVE InferenceInv'
<1>1. CASE StopRunning
  BY <1>1, StopRunningPreserves DEF InferenceInv
<1>2. CASE CancelQueued
  BY <1>2, CancelQueuedPreserves
<1>3. CASE RetryDatasets
  BY <1>3, RetryDatasetsPreserves
<1>4. CASE DeleteRun
  BY <1>4, DeleteRunPreserves
<1>5. ASSUME NEW p \in Parts, NEW k \in DOMAIN executions[p],
             Deliver(p, k) \/ Work(p, k) \/ Fault(p, k)
                \/ CompleteDataset(p, k) \/ DatasetRejected(p, k) \/ LoseDataset(p, k)
      PROVE  InferenceInv'
  <2>1. CASE Deliver(p, k)
    BY <2>1, ClaimPreserves, ClaimStopsPreserves, ClaimRefusedPreserves DEF Deliver, InferenceInv
  <2>2. CASE Work(p, k) \/ Fault(p, k)
    BY <2>2, FaultPreserves, StoppedPreserves, FailPreserves DEF Work, InferenceInv
  <2>3. CASE CompleteDataset(p, k) \/ DatasetRejected(p, k)
    BY <2>3, CompleteDatasetPreserves DEF InferenceInv
  <2>4. CASE LoseDataset(p, k)
    BY <2>4, LoseDatasetPreserves
  <2> QED
    BY <1>5, <2>1, <2>2, <2>3, <2>4
<1>6. ASSUME NEW t \in open, Commit(t, {"RUNNING", "STOPPING"})
      PROVE  InferenceInv'
  BY <1>6, CommitPreserves DEF InferenceInv
<1> QED
  BY <1>1, <1>2, <1>3, <1>4, <1>5, <1>6, InferenceSteps DEF InferenceInv

-----------------------------------------------------------------------------
(* What benchmarks do in their own way *)

\* Of a COMPLETED evaluation the metrics are stored.
Measured == \A p \in Parts : partStatus[p] = "COMPLETED" => artifact[p] # 0

BenchmarkInv == RunIInv /\ Measured

\* A step that neither completes an evaluation nor touches an artifact.
LEMMA MetricsStay ==
    ASSUME Measured, artifact' = artifact,
           \A p \in Parts : partStatus'[p] = "COMPLETED" => partStatus[p] = "COMPLETED"
    PROVE  Measured'
BY DEF Measured

\* A completion counts as any transaction of a worker, or is rejected.
LEMMA CompleteEvaluationPreserves ==
    ASSUME RunIInv, NEW p \in Parts, NEW k \in DOMAIN executions[p],
           CompleteEvaluation(p, k) \/ EvaluationRejected(p, k)
    PROVE  RunIInv'
<1>1. CASE CompleteEvaluation(p, k)
  BY <1>1, WorkerBeginStep DEF CompleteEvaluation, ENDED, ExecStatus
<1>2. CASE EvaluationRejected(p, k)
  BY <1>2, GoToPreserves DEF EvaluationRejected, Phase
<1> QED
  BY <1>1, <1>2

\* The loss of an execution ends the evaluation, or the evaluation needs it no
\* more - or is STOPPING, and left to itself.
LEMMA LoseEvaluationPreserves ==
    ASSUME RunIInv, NEW p \in Parts, NEW k \in DOMAIN executions[p], LoseEvaluation(p, k)
    PROVE  RunIInv'
<1>1. executions[p] \in Seq(Row) /\ executions[p][k] \in Row /\ k \in Nat
  BY LenProperties DEF RunIInv, RowType
<1>2. CASE partStatus[p] \notin {"QUEUED", "RUNNING"} /\ LoseOnly(p, k)
  <2>1. PICK ph : ph = executions[p][k].phase
    OBVIOUS
  <2>2. ph \in Phase /\ "LOST" \in ExecStatus
    BY <1>1, <2>1 DEF Row, ExecStatus
  <2>3. Rewrites(p, k, "LOST", ph)
    BY <1>2, <2>1, <2>2, SetExecutionEffect DEF LoseOnly, RunIInv, RowType
  <2> QED
    BY <1>2, <2>1, <2>2, <2>3, QuietStep DEF LoseOnly
<1>3. CASE /\ partStatus[p] \in {"QUEUED", "RUNNING"}
           /\ LoseAndEnd(p, k, "FAILED", LostVerdict(Seen(p, "FAILED")))
  <2> DEFINE seen == Seen(p, "FAILED")
             t == [part |-> p, attempt |-> k, by |-> "scheduler", to |-> "FAILED",
                   execution |-> "LOST", verdict |-> LostVerdict(seen), round |-> retries]
  <2>1. "FAILED" \in (ENDED \ {"CANCELLED"}) \cup {"same"}
    BY DEF ENDED
  <2>2. seen \in [Parts -> PartStatus]
    BY <2>1, SeenType DEF RunIInv, RunInv
  <2>3. LostVerdict(seen) \in FINAL \cup {"none"}
    BY <2>2, LostVerdictIsRight
  <2>4. t \in Transaction
    BY <1>1, <2>1, <2>3 DEF Transaction, ExecStatus, RunIInv
  <2>5. open' = open \cup {t} /\ ~PartLocked(p)
    BY <1>3 DEF LoseAndEnd, Transact
  <2>6. Begins(t)
    BY <1>3, <2>4, <2>5 DEF Begins
  <2>7. \E u : /\ Begins(u) /\ u.part = p /\ u.attempt = k /\ open' = open \cup {u}
               /\ u.by = "scheduler" /\ u.to # "same"
    BY <2>5, <2>6
  <2>8. UNCHANGED <<runStatus, partStatus, executions, artifact, retries>>
    BY <1>3 DEF LoseAndEnd
  <2>9. RunInv'
    BY <2>7, <2>8, BeginStep DEF RunIInv
  <2>10. RowType' /\ Endings'
    BY <2>7, <2>8 DEF RunIInv, RowType, Endings
  <2>11. \A q, m : Leaves(q, m)' = Leaves(q, m)
    BY <2>7 DEF Leaves
  <2> QED
    BY <2>8, <2>9, <2>10, <2>11 DEF RunIInv, Pending, Held, HasRow
<1> QED
  BY <1>2, <1>3 DEF LoseEvaluation

\* A retry takes every evaluation.
LEMMA RetryEvaluationsPreserves ==
    ASSUME BenchmarkInv, RetryEvaluations PROVE BenchmarkInv'
<1>1. RetryParts(Parts) /\ artifact' = artifact
  BY DEF RetryEvaluations
<1>2. RunIInv'
  BY <1>1, RetryPreserves DEF BenchmarkInv
<1>3. Measured'
  BY <1>1 DEF RetryParts, Measured
<1> QED
  BY <1>2, <1>3 DEF BenchmarkInv

\* The commit of a completion stores the metrics with it.
LEMMA CommitKeepsMetrics ==
    ASSUME BenchmarkInv, NEW t \in open, NEW F, F \subseteq {"RUNNING", "STOPPING"}, Commit(t, F)
    PROVE  BenchmarkInv'
<1>1. RunIInv'
  BY CommitPreserves DEF BenchmarkInv
<1>2. t.part \in Parts /\ t.attempt \in DOMAIN executions[t.part] /\ executions[t.part] \in Seq(Row)
  BY DEF BenchmarkInv, RunIInv, RunInv, StatusType, Transaction, RowType
<1>3. t.attempt # 0
  BY <1>2, LenProperties
<1>4. Measured'
  <2> SUFFICES ASSUME NEW p \in Parts, partStatus'[p] = "COMPLETED"
               PROVE  artifact'[p] # 0
    BY DEF Measured
  <2>1. CASE p = t.part /\ t.to = "COMPLETED"
    BY <1>3, <2>1 DEF Commit, BenchmarkInv, RunIInv
  <2>2. CASE ~(p = t.part /\ t.to = "COMPLETED")
    <3>1. partStatus[p] = "COMPLETED"
      BY <1>2, <2>2 DEF Commit, Seen, BenchmarkInv, RunIInv, RunInv, StatusType
    <3>2. artifact'[p] = artifact[p]
      BY <1>2, <2>2 DEF Commit, BenchmarkInv, RunIInv
    <3> QED
      BY <3>1, <3>2 DEF BenchmarkInv, Measured
  <2> QED
    BY <2>1, <2>2
<1> QED
  BY <1>1, <1>4 DEF BenchmarkInv

\* One step, by who takes it.
LEMMA BenchmarkSteps ==
    ASSUME RunIInv, BenchmarkNext
    PROVE  \/ StopRunning \/ CancelQueued \/ RetryEvaluations
           \/ \E p \in Parts : \E k \in DOMAIN executions[p] :
                 Deliver(p, k) \/ Work(p, k) \/ Fault(p, k)
                    \/ CompleteEvaluation(p, k) \/ EvaluationRejected(p, k) \/ LoseEvaluation(p, k)
           \/ \E t \in open : Commit(t, {"RUNNING", "STOPPING"}) \/ Commit(t, {"RUNNING"})
BY DEF BenchmarkNext, Attempts, WorkerCommits, EvaluationLossCommits

\* Every step of a benchmark run, action by action.
LEMMA BenchmarkPreserves ==
    ASSUME BenchmarkInv, BenchmarkNext PROVE BenchmarkInv'
<1>1. CASE StopRunning
  <2>1. Measured'
    BY <1>1, MetricsStay DEF StopRunning, BenchmarkInv
  <2> QED
    BY <1>1, <2>1, StopRunningPreserves DEF BenchmarkInv
<1>2. CASE CancelQueued
  <2>1. Measured'
    BY <1>2, MetricsStay DEF CancelQueued, QueuedCancelled, BenchmarkInv
  <2> QED
    BY <1>2, <2>1, CancelPreserves DEF CancelQueued, BenchmarkInv, RunIInv
<1>3. CASE RetryEvaluations
  BY <1>3, RetryEvaluationsPreserves
<1>4. ASSUME NEW p \in Parts, NEW k \in DOMAIN executions[p],
             Deliver(p, k) \/ Work(p, k) \/ Fault(p, k)
                \/ CompleteEvaluation(p, k) \/ EvaluationRejected(p, k) \/ LoseEvaluation(p, k)
      PROVE  BenchmarkInv'
  <2>1. RunIInv'
    <3>1. CASE Deliver(p, k)
      BY <3>1, ClaimPreserves, ClaimStopsPreserves, ClaimRefusedPreserves DEF Deliver, BenchmarkInv
    <3>2. CASE Work(p, k) \/ Fault(p, k)
      BY <3>2, FaultPreserves, StoppedPreserves, FailPreserves DEF Work, BenchmarkInv
    <3>3. CASE CompleteEvaluation(p, k) \/ EvaluationRejected(p, k)
      BY <3>3, CompleteEvaluationPreserves DEF BenchmarkInv
    <3>4. CASE LoseEvaluation(p, k)
      BY <3>4, LoseEvaluationPreserves DEF BenchmarkInv
    <3> QED
      BY <1>4, <3>1, <3>2, <3>3, <3>4
  <2>2. Measured'
    <3>1. CASE Claim(p, k)
      BY <3>1, MetricsStay DEF Claim, BenchmarkInv, RunIInv, RunInv, StatusType
    <3>2. CASE ~Claim(p, k)
      <4>1. UNCHANGED <<partStatus, artifact>>
        BY <1>4, <3>2 DEF Deliver, Work, Fault, ClaimStops, ClaimRefused, WorkEnds, NoticeStop,
              Stopped, Fail, RaiseError, Crash, CompleteEvaluation, EvaluationRejected,
              LoseEvaluation, LoseOnly, LoseAndEnd
      <4> QED
        BY <4>1, MetricsStay DEF BenchmarkInv
    <3> QED
      BY <3>1, <3>2
  <2> QED
    BY <2>1, <2>2 DEF BenchmarkInv
<1>5. ASSUME NEW t \in open, Commit(t, {"RUNNING", "STOPPING"}) \/ Commit(t, {"RUNNING"})
      PROVE  BenchmarkInv'
  BY <1>5, CommitKeepsMetrics
<1> QED
  BY <1>1, <1>2, <1>3, <1>4, <1>5, BenchmarkSteps DEF BenchmarkInv

-----------------------------------------------------------------------------
(* Datasets that end one after the other *)

\* A transaction that found a part left commits while one is left.
CountIsTrue ==
    \A t \in open : t.verdict = "none" /\ runStatus \in {"QUEUED", "RUNNING", "STOPPING"} =>
        \E p \in Parts : Seen(t.part, t.to)[p] \notin ENDED

\* At most one transaction is open, its count is true, and between transactions a
\* run that is not over has a part left.
Serial ==
    /\ \A t, u \in open : t = u
    /\ CountIsTrue
    /\ open = {} /\ runStatus \in {"RUNNING", "STOPPING"} =>
           \E p \in Parts : partStatus[p] \notin ENDED

\* The rule of the workers leaves a run open only for a part.
LEMMA NoneMeansLeft ==
    ASSUME NEW ps \in [Parts -> PartStatus], Verdict(ps) = "none"
    PROVE  \E p \in Parts : ps[p] \notin ENDED
BY DEF Verdict

\* A step that leaves the statuses and the open transactions alone.
LEMMA SerialStays ==
    ASSUME Serial, UNCHANGED <<runStatus, partStatus, open>> PROVE Serial'
BY DEF Serial, CountIsTrue, Seen

\* A transaction that counts by the rule of the workers.
LEMMA SerialCounts ==
    ASSUME RunInv, Serial, NEW p \in Parts, NEW k, NEW by, NEW ex,
           NEW to \in (ENDED \ {"CANCELLED"}) \cup {"same"},
           Transact(p, k, by, to, ex, Verdict(Seen(p, to))),
           UNCHANGED <<runStatus, partStatus>>, \A t, u \in open' : t = u
    PROVE  Serial'
<1> DEFINE t == [part |-> p, attempt |-> k, by |-> by, to |-> to, execution |-> ex,
                 verdict |-> Verdict(Seen(p, to)), round |-> retries]
<1>1. open' = open \cup {t}
  BY DEF Transact
<1>2. Seen(p, to) \in [Parts -> PartStatus]
  BY SeenType DEF RunInv
<1>3. t.verdict = "none" => \E q \in Parts : Seen(t.part, t.to)[q] \notin ENDED
  BY <1>2, NoneMeansLeft
<1>4. CountIsTrue'
  BY <1>1, <1>3 DEF Serial, CountIsTrue, Seen
<1> QED
  BY <1>1, <1>4 DEF Serial

\* A claim leaves its part at work.
LEMMA SerialClaims ==
    ASSUME RunInv, Serial, NEW p \in Parts, NEW k, Claim(p, k) PROVE Serial'
<1>1. /\ partStatus' = [partStatus EXCEPT ![p] = "RUNNING"] /\ open' = open
      /\ partStatus[p] = "QUEUED" /\ ~PartLocked(p) /\ partStatus \in [Parts -> PartStatus]
  BY DEF Claim, RunInv, StatusType
<1>2. partStatus'[p] \notin ENDED
  BY <1>1 DEF ENDED
<1>3. \A t \in open : Seen(t.part, t.to)'[p] = partStatus'[p]
  BY <1>1 DEF PartLocked, Seen
<1> QED
  BY <1>1, <1>2, <1>3 DEF Serial, CountIsTrue

\* A stop leaves what was left.
LEMMA SerialStops ==
    ASSUME RunInv, Serial, StopRunning PROVE Serial'
<1>1. /\ open' = open /\ runStatus = "RUNNING" /\ partStatus' \in [Parts -> PartStatus]
      /\ \A p \in Parts : partStatus[p] \notin ENDED => partStatus'[p] \notin ENDED
  BY DEF StopRunning, RunInv, StatusType, PartStatus, ENDED
<1>2. ASSUME NEW t \in open, NEW p \in Parts, Seen(t.part, t.to)[p] \notin ENDED
      PROVE  Seen(t.part, t.to)'[p] \notin ENDED
  BY <1>1, <1>2 DEF Seen, RunInv, StatusType
<1>3. CountIsTrue'
  BY <1>1, <1>2 DEF Serial, CountIsTrue
<1> QED
  BY <1>1, <1>3 DEF Serial

\* A commit ends the run, or a part is left as the count said.
LEMMA SerialCommits ==
    ASSUME RunInv, Serial, NEW t \in open, Commit(t, {"RUNNING", "STOPPING"}) PROVE Serial'
<1>1. /\ open' = {} /\ partStatus' = Seen(t.part, t.to)
      /\ runStatus' = IF t.verdict # "none" /\ runStatus \in {"RUNNING", "STOPPING"}
                        THEN t.verdict ELSE runStatus
      /\ t.verdict \in FINAL \cup {"none"}
  BY DEF Commit, Serial, RunInv, StatusType, Transaction
<1>2. runStatus' \in {"RUNNING", "STOPPING"} => t.verdict = "none" /\ runStatus' = runStatus
  BY <1>1 DEF FINAL
<1> QED
  BY <1>1, <1>2 DEF Serial, CountIsTrue

\* Every step of an inference run that opens no second transaction.
LEMMA InferenceIsSerial ==
    ASSUME InferenceInv, InferenceNext, retries' = retries, Serial, \A t, u \in open' : t = u
    PROVE  Serial'
<1>1. CASE StopRunning
  BY <1>1, SerialStops DEF InferenceInv, RunIInv
<1>2. CASE CancelQueued \/ DeleteRun
  BY <1>2 DEF CancelQueued, DeleteRun, Serial, CountIsTrue
<1>3. CASE RetryDatasets
  BY <1>3 DEF RetryDatasets, RetryParts, InferenceInv, RunIInv
<1>4. ASSUME NEW p \in Parts, NEW k \in DOMAIN executions[p],
             Deliver(p, k) \/ Work(p, k) \/ Fault(p, k)
                \/ CompleteDataset(p, k) \/ DatasetRejected(p, k) \/ LoseDataset(p, k)
      PROVE  Serial'
  <2>1. CASE Claim(p, k)
    BY <2>1, SerialClaims DEF InferenceInv, RunIInv
  <2>2. CASE UNCHANGED <<runStatus, partStatus, open>>
    BY <2>2, SerialStays
  <2>3. CASE /\ UNCHANGED <<runStatus, partStatus>>
             /\ \E by, ex, to : /\ to \in (ENDED \ {"CANCELLED"}) \cup {"same"}
                                /\ Transact(p, k, by, to, ex, Verdict(Seen(p, to)))
    BY <2>3, SerialCounts DEF InferenceInv, RunIInv
  <2>4. ASSUME NEW to, NEW ex, to \in {"COMPLETED", "FAILED", "STOPPED", "same"},
               WorkerTransacts(p, k, to, ex)
        PROVE  \E by, x, s : /\ s \in (ENDED \ {"CANCELLED"}) \cup {"same"}
                             /\ Transact(p, k, by, s, x, Verdict(Seen(p, s)))
    BY <2>4 DEF WorkerTransacts, ENDED
  <2>5. ASSUME NEW to, to \in {"FAILED", "STOPPED"}, LoseAndEnd(p, k, to, Verdict(Seen(p, to)))
        PROVE  \E by, x, s : /\ s \in (ENDED \ {"CANCELLED"}) \cup {"same"}
                             /\ Transact(p, k, by, s, x, Verdict(Seen(p, s)))
    BY <2>5 DEF LoseAndEnd, ENDED
  <2>6. CASE LoseDataset(p, k)
    BY <2>2, <2>3, <2>5, <2>6 DEF LoseDataset, LoseAndEnd, LoseOnly
  <2>7. CASE ClaimStops(p, k) \/ CompleteDataset(p, k) \/ Stopped(p, k) \/ Fail(p, k)
    BY <2>3, <2>4, <2>7 DEF ClaimStops, CompleteDataset, Stopped, Fail
  <2>8. CASE ClaimRefused(p, k) \/ WorkEnds(p, k) \/ NoticeStop(p, k) \/ Fault(p, k)
                \/ DatasetRejected(p, k)
    BY <2>2, <2>8 DEF ClaimRefused, WorkEnds, NoticeStop, Fault, RaiseError, Crash, DatasetRejected
  <2> QED
    BY <1>4, <2>1, <2>6, <2>7, <2>8 DEF Deliver, Work
<1>5. ASSUME NEW t \in open, Commit(t, {"RUNNING", "STOPPING"})
      PROVE  Serial'
  BY <1>5, SerialCommits DEF InferenceInv, RunIInv
<1> QED
  BY <1>1, <1>2, <1>3, <1>4, <1>5, InferenceSteps DEF InferenceInv

\* One transaction opens or closes in a step.
LEMMA OpenIsFinite ==
    ASSUME IsFiniteSet(open), RunIInv, InferenceNext \/ BenchmarkNext
    PROVE  IsFiniteSet(open')
<1>1. open' = open \/ (\E t : open' = open \cup {t}) \/ (\E t : open' = open \ {t})
  <2>1. CASE StopRunning \/ CancelQueued \/ RetryDatasets \/ DeleteRun \/ RetryEvaluations
    BY <2>1 DEF StopRunning, CancelQueued, RetryDatasets, DeleteRun, RetryEvaluations, RetryParts
  <2>2. ASSUME NEW p \in Parts, NEW k \in DOMAIN executions[p],
               Deliver(p, k) \/ Work(p, k) \/ Fault(p, k)
                  \/ CompleteDataset(p, k) \/ DatasetRejected(p, k) \/ LoseDataset(p, k)
                  \/ CompleteEvaluation(p, k) \/ EvaluationRejected(p, k) \/ LoseEvaluation(p, k)
        PROVE  open' = open \/ \E t : open' = open \cup {t}
    BY <2>2 DEF Deliver, Work, Fault, Claim, ClaimStops, ClaimRefused, WorkEnds, NoticeStop,
          Stopped, Fail, RaiseError, Crash, CompleteDataset, DatasetRejected, LoseDataset,
          CompleteEvaluation, EvaluationRejected, LoseEvaluation, LoseOnly, LoseAndEnd,
          WorkerTransacts, Transact
  <2>3. ASSUME NEW t \in open, NEW F, Commit(t, F)
        PROVE  open' = open \ {t}
    BY <2>3 DEF Commit
  <2> QED
    BY <2>1, <2>2, <2>3, InferenceSteps, BenchmarkSteps
<1> QED
  BY <1>1, FS_AddElement, FS_RemoveElement
-----------------------------------------------------------------------------
(* Both kinds of run *)

IInv ==
    /\ RunIInv
    /\ kind \in {"inference", "benchmark"}
    /\ IsFiniteSet(open)
    /\ kind = "inference" => Stoppable
    /\ kind = "benchmark" => Measured
    /\ kind = "inference" /\ ~overlapped => Serial

\* Initially nothing is claimed or counted.
LEMMA InitIInv ==
    ASSUME RunsInit PROVE IInv
<1>1. RunIInv /\ Stoppable
  BY InitRunIInv DEF RunsInit
<1>2. Measured
  BY DEF RunsInit, Init, Measured
<1>3. Serial
  BY DEF RunsInit, Init, Serial, CountIsTrue
<1>4. IsFiniteSet(open)
  BY FS_EmptySet DEF RunsInit, Init
<1> QED
  BY <1>1, <1>2, <1>3, <1>4 DEF IInv, RunsInit

\* A retry leaves the run QUEUED.
LEMMA RetryIsSerial ==
    ASSUME InferenceInv, InferenceNext, retries' # retries, open' = {} PROVE Serial'
<1>1. RetryDatasets
  <2>1. CASE StopRunning \/ CancelQueued \/ DeleteRun
    BY <2>1 DEF StopRunning, CancelQueued, DeleteRun
  <2>2. ASSUME NEW p \in Parts, NEW k \in DOMAIN executions[p],
               Deliver(p, k) \/ Work(p, k) \/ Fault(p, k)
                  \/ CompleteDataset(p, k) \/ DatasetRejected(p, k) \/ LoseDataset(p, k)
        PROVE  FALSE
    BY <2>2 DEF Deliver, Work, Fault, Claim, ClaimStops, ClaimRefused, WorkEnds, NoticeStop,
          Stopped, Fail, RaiseError, Crash, CompleteDataset, DatasetRejected, LoseDataset,
          LoseOnly, LoseAndEnd
  <2>3. ASSUME NEW t \in open, Commit(t, {"RUNNING", "STOPPING"})
        PROVE  FALSE
    BY <2>3 DEF Commit
  <2> QED
    BY <2>1, <2>2, <2>3, InferenceSteps DEF InferenceInv
<1> QED
  BY <1>1 DEF RetryDatasets, RetryParts, Serial, CountIsTrue

\* While no two transactions have overlapped, there is at most one.
LEMMA AtMostOne ==
    ASSUME NEW S, IsFiniteSet(S), ~(Cardinality(S) > 1)
    PROVE  \A t, u \in S : t = u
<1>1. Cardinality(S) \in Nat
  BY FS_CardinalityType
<1>2. Cardinality(S) = 0 \/ Cardinality(S) = 1
  BY <1>1
<1>3. CASE Cardinality(S) = 0
  BY <1>3, FS_EmptySet
<1>4. CASE Cardinality(S) = 1
  BY <1>4, FS_Singleton
<1> QED
  BY <1>2, <1>3, <1>4

\* Every step of either kind keeps the inductive invariant.
LEMMA NextKeepsIInv ==
    ASSUME IInv, [RunsNext]_runsVars PROVE IInv'
<1>1. CASE UNCHANGED runsVars
  <2>1. RunInv'
    BY <1>1, StayStep DEF runsVars, vars, IInv, RunIInv
  <2>2. Serial => Serial'
    BY <1>1, SerialStays DEF runsVars, vars
  <2> QED
    BY <1>1, <2>1, <2>2 DEF runsVars, vars, IInv, RunIInv, RowType, Endings, Pending,
          Stoppable, Held, HasRow, Leaves, Measured
<1>2. CASE kind = "inference" /\ InferenceNext /\ UNCHANGED kind /\ Overlap
  <2>1. InferenceInv'
    BY <1>2, InferencePreserves DEF IInv, InferenceInv
  <2>2. IsFiniteSet(open')
    BY <1>2, OpenIsFinite DEF IInv
  <2>3. ~overlapped' => Serial'
    <3>1. CASE retries' # retries /\ ~overlapped'
      BY <1>2, <3>1, RetryIsSerial DEF Overlap, IInv, InferenceInv
    <3>2. CASE retries' = retries /\ ~overlapped'
      <4>1. ~overlapped /\ ~(Cardinality(open') > 1)
        BY <1>2, <3>2 DEF Overlap
      <4>2. \A t, u \in open' : t = u
        BY <2>2, <4>1, AtMostOne
      <4> QED
        BY <1>2, <3>2, <4>1, <4>2, InferenceIsSerial DEF IInv, InferenceInv
    <3> QED
      BY <3>1, <3>2
  <2> QED
    BY <1>2, <2>1, <2>2, <2>3 DEF IInv, InferenceInv
<1>3. CASE kind = "benchmark" /\ BenchmarkNext /\ UNCHANGED kind /\ Overlap
  <2>1. BenchmarkInv'
    BY <1>3, BenchmarkPreserves DEF IInv, BenchmarkInv
  <2>2. IsFiniteSet(open')
    BY <1>3, OpenIsFinite DEF IInv
  <2> QED
    BY <1>3, <2>1, <2>2 DEF IInv, BenchmarkInv
<1> QED
  BY <1>1, <1>2, <1>3 DEF RunsNext

\* The inductive invariant holds.
THEOREM Invariant == RunsSpec => []IInv
<1>1. RunsInit => IInv
  BY InitIInv
<1>2. IInv /\ [RunsNext]_runsVars => IInv'
  BY NextKeepsIInv
<1> QED
  BY <1>1, <1>2, PTL DEF RunsSpec

\* Every variable keeps to its domain, and no open transaction outlives its row.
THEOREM TypeCorrect == RunsSpec => []TypeOK
<1>1. IInv => TypeOK
  BY RunIInvImplies DEF IInv
<1> QED
  BY Invariant, <1>1, PTL

\* A run that is stopping has no part that would start or go on unaware.
THEOREM StopIsForAll == RunsSpec => []StopReachesAll
<1>1. IInv => StopReachesAll
  BY RunIInvImplies DEF IInv
<1> QED
  BY Invariant, <1>1, PTL

\* No part that waits or works is left with nobody to end it.
THEOREM NoneIsForgotten == RunsSpec => []PendingHasExecution
<1>1. IInv => PendingHasExecution
  BY RunIInvImplies DEF IInv
<1> QED
  BY Invariant, <1>1, PTL

\* No dataset that was asked to stop is: an execution will notice, or its loss ends it.
THEOREM StoppingIsExecuted == RunsSpec => []StoppingHasExecution
<1>1. IInv => StoppingHasExecution
  BY DEF IInv, Stoppable, Held, HasRow, StoppingHasExecution
<1> QED
  BY Invariant, <1>1, PTL

\* A run that has begun is not left open by datasets that end one after the other: the last
\* count is true, as nothing else was being ended, and finds no dataset left.
THEOREM LastOneFinalises == RunsSpec => []SerialEndsFinalise
<1>1. IInv => SerialEndsFinalise
  BY DEF IInv, Serial, SerialEndsFinalise
<1> QED
  BY Invariant, <1>1, PTL

\* A COMPLETED evaluation has its metrics, whichever attempt stored them.
THEOREM CompletedIsMeasured == RunsSpec => []CompletedHasMetrics
<1>1. IInv => CompletedHasMetrics
  BY DEF IInv, Measured, CompletedHasMetrics
<1> QED
  BY Invariant, <1>1, PTL

\* What a completed dataset keeps in a step.
Keeps ==
    \A p \in Parts : partStatus[p] = "COMPLETED" =>
        /\ partStatus'[p] = "COMPLETED"
        /\ artifact'[p] = artifact[p] \/ runStatus' = "DELETED"

\* Each step of an inference run keeps it.
LEMMA CompletedStays ==
    ASSUME RunIInv, InferenceNext PROVE Keeps
<1>1. CASE StopRunning \/ CancelQueued \/ DeleteRun
  BY <1>1 DEF Keeps, StopRunning, CancelQueued, DeleteRun, QueuedCancelled
<1>2. CASE RetryDatasets
  BY <1>2 DEF Keeps, RetryDatasets, RetryParts, RETRYABLE_DATASET
<1>3. ASSUME NEW p \in Parts, NEW k \in DOMAIN executions[p],
             Deliver(p, k) \/ Work(p, k) \/ Fault(p, k)
                \/ CompleteDataset(p, k) \/ DatasetRejected(p, k) \/ LoseDataset(p, k)
      PROVE  Keeps
  <2>1. CASE Claim(p, k)
    BY <2>1 DEF Keeps, Claim, RunIInv, RunInv, StatusType
  <2>2. CASE ~Claim(p, k)
    <3>1. UNCHANGED <<partStatus, artifact>>
      BY <1>3, <2>2 DEF Deliver, Work, Fault, ClaimStops, ClaimRefused, WorkEnds, NoticeStop,
            Stopped, Fail, RaiseError, Crash, CompleteDataset, DatasetRejected, LoseDataset,
            LoseOnly, LoseAndEnd
    <3> QED
      BY <3>1 DEF Keeps
  <2> QED
    BY <2>1, <2>2
<1>4. ASSUME NEW t \in open, Commit(t, {"RUNNING", "STOPPING"})
      PROVE  Keeps
  <2> SUFFICES ASSUME NEW p \in Parts, partStatus[p] = "COMPLETED"
               PROVE  partStatus'[p] = "COMPLETED" /\ artifact'[p] = artifact[p]
    BY DEF Keeps
  <2>1. t.to = "same" \/ t.part # p
    BY <1>4 DEF RunIInv, RunInv, EndersSpare
  <2>2. partStatus'[p] = partStatus[p]
    BY <1>4, <2>1 DEF Commit, Seen, RunIInv, RunInv, StatusType
  <2>3. artifact'[p] = artifact[p]
    BY <1>4, <2>1 DEF Commit, RunIInv
  <2> QED
    BY <2>2, <2>3
<1> QED
  BY <1>1, <1>2, <1>3, <1>4, InferenceSteps

\* A completed dataset stays completed, and its ZIP is taken by deletion alone:
\* EndersSpare keeps every late transaction away from it.
THEOREM CompletedIsKept == RunsSpec => CompletedKeepsItsZip
<1>1. IInv /\ [RunsNext]_runsVars => [kind = "inference" => Keeps]_runsVars
  BY CompletedStays DEF IInv, RunsNext
<1>2. [][kind = "inference" => Keeps]_runsVars <=> CompletedKeepsItsZip
  BY PTL DEF CompletedKeepsItsZip, Keeps
<1> QED
  BY Invariant, <1>1, <1>2, PTL DEF RunsSpec

-----------------------------------------------------------------------------
(* The lifecycle of a run that is not misled *)

\* What a transaction counted, by the rule of the workers or of the scheduler, and what it may
\* make of its part.
Counts(t) ==
    /\ t.part \in Parts /\ t.to \in (ENDED \ {"CANCELLED"}) \cup {"same"}
    /\ t.to = "COMPLETED" => partStatus[t.part] = "RUNNING"
    /\ t.to = "STOPPED" => partStatus[t.part] = "STOPPING"
    /\ t.verdict \in {"none", Verdict(Seen(t.part, t.to)), LostVerdict(Seen(t.part, t.to))}
    /\ t.round = retries
    /\ open' = open \cup {t}
    /\ UNCHANGED <<runStatus, partStatus, retries>>

\* The run is given up, and what waits with it.
Abandons ==
    /\ \/ runStatus = "QUEUED" /\ runStatus' = "CANCELLED"
       \/ runStatus \notin {"RUNNING", "STOPPING", "DELETED"} /\ runStatus' = "DELETED"
    /\ \A p \in Parts : partStatus[p] = "QUEUED" => ~PartLocked(p)
    /\ partStatus' = QueuedCancelled
    /\ UNCHANGED <<open, retries>>

\* What has ended without completing is done again, and possibly more.
Retries ==
    /\ runStatus \in TERMINAL_STATUSES
    /\ \E D \in SUBSET Parts :
          /\ \A p \in Parts \ D : partStatus[p] \in ENDED => partStatus[p] = "COMPLETED"
          /\ RetryParts(D)

\* What a worker or the scheduler does with one execution.
LEMMA ExecutionSteps ==
    ASSUME RunIInv, NEW p \in Parts, NEW k \in DOMAIN executions[p],
           \/ Deliver(p, k) \/ Work(p, k) \/ Fault(p, k)
           \/ CompleteDataset(p, k) \/ DatasetRejected(p, k) \/ LoseDataset(p, k)
           \/ CompleteEvaluation(p, k) \/ EvaluationRejected(p, k) \/ LoseEvaluation(p, k)
    PROVE  \/ UNCHANGED <<runStatus, partStatus, open, retries>>
           \/ Claim(p, k)
           \/ \E t : Counts(t)
<1>1. CASE \/ ClaimRefused(p, k) \/ WorkEnds(p, k) \/ NoticeStop(p, k) \/ Fault(p, k)
           \/ DatasetRejected(p, k) \/ EvaluationRejected(p, k) \/ LoseOnly(p, k)
  BY <1>1 DEF ClaimRefused, WorkEnds, NoticeStop, Fault, RaiseError, Crash, DatasetRejected,
        EvaluationRejected, LoseOnly
<1>2. ASSUME NEW by, NEW to \in (ENDED \ {"CANCELLED"}) \cup {"same"}, NEW ex, NEW v,
             v \in {"none", Verdict(Seen(p, to)), LostVerdict(Seen(p, to))},
             Transact(p, k, by, to, ex, v), UNCHANGED <<runStatus, partStatus, retries>>,
             to = "COMPLETED" => partStatus[p] = "RUNNING",
             to = "STOPPED" => partStatus[p] = "STOPPING"
      PROVE  \E t : Counts(t)
  <2> DEFINE t == [part |-> p, attempt |-> k, by |-> by, to |-> to, execution |-> ex,
                   verdict |-> v, round |-> retries]
  <2>1. /\ t.part = p /\ t.to = to /\ t.verdict = v /\ t.round = retries
        /\ open' = open \cup {t}
    BY <1>2 DEF Transact
  <2> HIDE DEF t
  <2> QED
    BY <1>2, <2>1 DEF Counts
<1>3. ASSUME NEW to \in (ENDED \ {"CANCELLED"}) \cup {"same"}, NEW ex,
             WorkerTransacts(p, k, to, ex), UNCHANGED <<runStatus, partStatus, retries>>,
             to = "COMPLETED" => partStatus[p] = "RUNNING",
             to = "STOPPED" => partStatus[p] = "STOPPING"
      PROVE  \E t : Counts(t)
  BY <1>2, <1>3 DEF WorkerTransacts
<1>4. CASE ClaimStops(p, k) \/ CompleteDataset(p, k) \/ CompleteEvaluation(p, k)
  BY <1>3, <1>4 DEF ClaimStops, CompleteDataset, CompleteEvaluation, ENDED
<1>5. CASE Stopped(p, k)
  BY <1>3, <1>5 DEF Stopped, ENDED
<1>6. CASE Fail(p, k)
  BY <1>3, <1>6 DEF Fail, ENDED
<1>7. CASE LoseDataset(p, k) /\ ~LoseOnly(p, k)
  <2>1. PICK to \in {"STOPPED", "FAILED"} :
            /\ to = "STOPPED" => partStatus[p] = "STOPPING"
            /\ LoseAndEnd(p, k, to, Verdict(Seen(p, to)))
    BY <1>7 DEF LoseDataset
  <2>2. to \in (ENDED \ {"CANCELLED"}) \cup {"same"}
    BY DEF ENDED
  <2> QED
    BY <1>2, <2>1, <2>2 DEF LoseAndEnd
<1>8. CASE LoseEvaluation(p, k) /\ ~LoseOnly(p, k)
  <2>1. "FAILED" \in (ENDED \ {"CANCELLED"}) \cup {"same"}
    BY DEF ENDED
  <2>2. LoseAndEnd(p, k, "FAILED", LostVerdict(Seen(p, "FAILED")))
    BY <1>8 DEF LoseEvaluation
  <2> QED
    BY <1>2, <2>1, <2>2 DEF LoseAndEnd
<1> QED
  BY <1>1, <1>4, <1>5, <1>6, <1>7, <1>8 DEF Deliver, Work

\* Every step of either kind of run.
LEMMA RunSteps ==
    ASSUME RunIInv, InferenceNext \/ BenchmarkNext
    PROVE  \/ UNCHANGED <<runStatus, partStatus, open, retries>>
           \/ \E p \in Parts : \E k : Claim(p, k)
           \/ \E t : Counts(t)
           \/ \E t \in open : \E F \in SUBSET {"RUNNING", "STOPPING"} : Commit(t, F)
           \/ StopRunning \/ Abandons \/ Retries
<1>1. CASE CancelQueued \/ DeleteRun
  BY <1>1 DEF CancelQueued, DeleteRun, Abandons
<1>2. CASE RetryDatasets
  <2>1. PICK D : D = {p \in Parts : partStatus[p] \in RETRYABLE_DATASET}
    OBVIOUS
  <2>2. \A p \in Parts \ D : partStatus[p] \in ENDED => partStatus[p] = "COMPLETED"
    BY <2>1 DEF RETRYABLE_DATASET, ENDED
  <2> QED
    BY <1>2, <2>1, <2>2 DEF RetryDatasets, Retries, RETRYABLE_RUN, TERMINAL_STATUSES, FINAL
<1>3. CASE RetryEvaluations
  <2>1. Parts \in SUBSET Parts /\ \A p \in Parts \ Parts : partStatus[p] = "COMPLETED"
    OBVIOUS
  <2> QED
    BY <1>3, <2>1 DEF RetryEvaluations, Retries
<1> QED
  BY <1>1, <1>2, <1>3, ExecutionSteps, InferenceSteps, BenchmarkSteps

\* What a transaction makes of its part is still a step of the part when it commits.
EnderFits ==
    \A t \in open :
        /\ t.to = "COMPLETED" => partStatus[t.part] = "RUNNING"
        /\ t.to = "STOPPED" => partStatus[t.part] = "STOPPING"

\* Only a transaction that ends no part can have counted before the last retry: that retry
\* waited for every other.
Rounds ==
    \A t \in open : t.round <= retries /\ (t.round # retries => t.to = "same")

\* What was counted since the last retry stays true until it is used: of a transaction that
\* found no part left, every part is still ended, and if none had failed, none has since.
VerdictHolds ==
    \A t \in open : t.round = retries =>
        /\ t.verdict # "none" => \A p \in Parts : Seen(t.part, t.to)[p] \in ENDED
        /\ t.verdict = "COMPLETED" =>
               \A p \in Parts : Seen(t.part, t.to)[p] \in {"COMPLETED", "CANCELLED"}

\* No part of a run that nobody has claimed from is at work.
QueuedRunWaits ==
    runStatus = "QUEUED" => \A p \in Parts : partStatus[p] \in ENDED \cup {"QUEUED"}

\* Only users cancel parts, and the run with them.
CancelledWithRun ==
    runStatus \notin {"CANCELLED", "DELETED"} => \A p \in Parts : partStatus[p] # "CANCELLED"

\* A run that is over has no part left.
OverAllEnded ==
    runStatus \notin {"QUEUED", "RUNNING", "STOPPING"} => \A p \in Parts : partStatus[p] \in ENDED

\* Nothing stops in a run that nobody asked to stop, and no transaction of its round will say so.
StopWasAsked ==
    runStatus \in {"QUEUED", "RUNNING"} =>
        /\ \A p \in Parts : partStatus[p] \notin {"STOPPING", "STOPPED"}
        /\ \A t \in open : t.round = retries => t.verdict # "STOPPED"

\* The statuses of parts make a run fail, all or some of it.
Fails(verdict, ps) ==
    /\ \A p \in Parts : ps[p] \in {"COMPLETED", "FAILED", "CANCELLED"}
    /\ verdict = "FAILED" => \A p \in Parts : ps[p] # "COMPLETED"
    /\ verdict = "PARTIALLY_FAILED" =>
           (\E p \in Parts : ps[p] = "COMPLETED") /\ (\E p \in Parts : ps[p] = "FAILED")

\* A failure that was counted since the last retry is one until it is said.
FailureHolds ==
    \A t \in open : t.round = retries /\ t.verdict \in {"FAILED", "PARTIALLY_FAILED"} =>
        Fails(t.verdict, Seen(t.part, t.to))

\* The verdict of the run is true of its parts.
SaysTrue ==
    runStatus \in {"COMPLETED", "PARTIALLY_FAILED", "FAILED"} =>
        /\ \A p \in Parts : partStatus[p] \in {"COMPLETED", "FAILED"}
        /\ runStatus = Lifecycle!Outcome(partStatus)

Truth ==
    /\ EnderFits
    /\ Rounds
    /\ VerdictHolds
    /\ QueuedRunWaits
    /\ CancelledWithRun
    /\ OverAllEnded
    /\ StopWasAsked
    /\ FailureHolds
    /\ SaysTrue

\* A step that leaves the statuses and the transactions alone.
LEMMA TruthStays ==
    ASSUME Truth, UNCHANGED <<runStatus, partStatus, open, retries>> PROVE Truth'
<1>1. (EnderFits /\ Rounds /\ VerdictHolds)'
  BY DEF Truth, EnderFits, Rounds, VerdictHolds, Seen
<1>2. (QueuedRunWaits /\ CancelledWithRun /\ OverAllEnded /\ StopWasAsked)'
  BY DEF Truth, QueuedRunWaits, CancelledWithRun, OverAllEnded, StopWasAsked
<1>3. (FailureHolds /\ SaysTrue)'
  BY DEF Truth, FailureHolds, Fails, Seen, SaysTrue, Lifecycle!Outcome
<1> QED
  BY <1>1, <1>2, <1>3 DEF Truth

\* A part that waits is waited for: no transaction of its round has a verdict unless it ends
\* this very part.
LEMMA WaitingIsCounted ==
    ASSUME RunInv, Truth, NEW p \in Parts, partStatus[p] \notin ENDED, ~PartLocked(p),
           NEW t \in open, t.round = retries
    PROVE  t.verdict = "none"
BY DEF RunInv, StatusType, Truth, VerdictHolds, PartLocked, Seen

\* A claim begins its part.
LEMMA TruthOfClaim ==
    ASSUME RunInv, Truth, NEW p \in Parts, NEW k, Claim(p, k)
    PROVE  Truth' /\ Lifecycle!Begin(p)
<1>1. /\ partStatus[p] = "QUEUED" /\ ~PartLocked(p) /\ open' = open /\ retries' = retries
      /\ partStatus' = [partStatus EXCEPT ![p] = "RUNNING"]
      /\ runStatus' = IF runStatus = "QUEUED" THEN "RUNNING" ELSE runStatus
      /\ partStatus \in [Parts -> PartStatus]
  BY DEF Claim, RunInv, StatusType
<1>2. \A t \in open : t.round = retries => t.verdict = "none"
  BY <1>1, WaitingIsCounted DEF ENDED
<1>3. \A t \in open : t.to # "same" => t.part # p
  BY <1>1 DEF PartLocked
<1>4. runStatus \in {"QUEUED", "RUNNING"} /\ runStatus' = "RUNNING"
  BY <1>1 DEF RunInv, StopReachesAll, Truth, OverAllEnded, ENDED
<1>5. EnderFits' /\ Rounds'
  BY <1>1, <1>3 DEF Truth, EnderFits, Rounds
<1>6. VerdictHolds' /\ FailureHolds'
  BY <1>1, <1>2 DEF VerdictHolds, FailureHolds
<1>7. (QueuedRunWaits /\ OverAllEnded /\ SaysTrue)'
  BY <1>4 DEF QueuedRunWaits, OverAllEnded, SaysTrue
<1>8. CancelledWithRun'
  BY <1>1, <1>4 DEF Truth, CancelledWithRun
<1>9. StopWasAsked'
  BY <1>1, <1>2, <1>4 DEF Truth, StopWasAsked
<1> QED
  BY <1>1, <1>4, <1>5, <1>6, <1>7, <1>8, <1>9 DEF Truth, Lifecycle!Begin

\* What either rule says of a failure.
LEMMA FailureIsRight ==
    ASSUME NEW ps \in [Parts -> PartStatus]
    PROVE  /\ Verdict(ps) \in {"FAILED", "PARTIALLY_FAILED"} => Fails(Verdict(ps), ps)
           /\ LostVerdict(ps) \in {"FAILED", "PARTIALLY_FAILED"} => Fails(LostVerdict(ps), ps)
           /\ Verdict(ps) = "STOPPED" => \E p \in Parts : ps[p] = "STOPPED"
           /\ LostVerdict(ps) # "STOPPED"
<1>1. Verdict(ps) \in {"FAILED", "PARTIALLY_FAILED"} => Fails(Verdict(ps), ps)
  BY DEF Verdict, Fails, ENDED
<1>2. LostVerdict(ps) \in {"FAILED", "PARTIALLY_FAILED"} => Fails(LostVerdict(ps), ps)
  BY DEF LostVerdict, Fails
<1>3. Verdict(ps) = "STOPPED" => \E p \in Parts : ps[p] = "STOPPED"
  BY DEF Verdict
<1>4. LostVerdict(ps) # "STOPPED"
  BY DEF LostVerdict
<1> QED
  BY <1>1, <1>2, <1>3, <1>4

\* A transaction that counts finds what is true.
LEMMA TruthOfCount ==
    ASSUME RunInv, Truth, retries \in Nat, NEW t, Counts(t) PROVE Truth'
<1>1. /\ open' = open \cup {t} /\ UNCHANGED <<runStatus, partStatus, retries>>
      /\ partStatus \in [Parts -> PartStatus] /\ t.round = retries
  BY DEF Counts, RunInv, StatusType
<1>2. Seen(t.part, t.to) \in [Parts -> PartStatus]
  BY SeenType DEF Counts, RunInv
<1>3. EnderFits' /\ Rounds'
  BY <1>1 DEF Truth, EnderFits, Rounds, Counts
<1>4. /\ t.verdict # "none" => \A p \in Parts : Seen(t.part, t.to)[p] \in ENDED
      /\ t.verdict = "COMPLETED" => \A p \in Parts : Seen(t.part, t.to)[p] \in {"COMPLETED", "CANCELLED"}
  BY <1>2, VerdictIsRight, LostVerdictIsRight DEF Counts
<1>5. VerdictHolds'
  BY <1>1, <1>4 DEF Truth, VerdictHolds, Seen
<1>6. (QueuedRunWaits /\ CancelledWithRun /\ OverAllEnded)'
  BY <1>1 DEF Truth, QueuedRunWaits, CancelledWithRun, OverAllEnded
<1>7. t.verdict = "STOPPED" => \E p \in Parts : Seen(t.part, t.to)[p] = "STOPPED"
  BY <1>2, FailureIsRight DEF Counts
<1>8. runStatus \in {"QUEUED", "RUNNING"} => t.verdict # "STOPPED"
  BY <1>1, <1>7 DEF Truth, StopWasAsked, Counts, Seen
<1>9. StopWasAsked'
  BY <1>1, <1>8 DEF Truth, StopWasAsked
<1>10. t.verdict \in {"FAILED", "PARTIALLY_FAILED"} => Fails(t.verdict, Seen(t.part, t.to))
  BY <1>2, FailureIsRight DEF Counts
<1>11. FailureHolds'
  BY <1>1, <1>10 DEF Truth, FailureHolds, Fails, Seen
<1>12. SaysTrue'
  BY <1>1 DEF Truth, SaysTrue, Lifecycle!Outcome
<1> QED
  BY <1>3, <1>5, <1>6, <1>9, <1>11, <1>12 DEF Truth

\* A stop or a cancellation changes no part that an open verdict has counted: parts that are
\* left keep every verdict of the round away, and if none is left nothing changes.
LEMMA VerdictsOutlast ==
    ASSUME RunInv, Truth, NEW S, S \cap ENDED = {},
           \A p \in Parts : partStatus[p] \in S => ~PartLocked(p),
           (\A p \in Parts : partStatus[p] \notin S) => partStatus' = partStatus,
           UNCHANGED <<open, retries>>
    PROVE  VerdictHolds' /\ FailureHolds'
<1>1. CASE \E p \in Parts : partStatus[p] \in S
  <2>1. \A t \in open : t.round = retries => t.verdict = "none"
    BY <1>1, WaitingIsCounted
  <2> QED
    BY <2>1 DEF VerdictHolds, FailureHolds
<1>2. CASE \A p \in Parts : partStatus[p] \notin S
  BY <1>2 DEF Truth, VerdictHolds, FailureHolds, Fails, Seen
<1> QED
  BY <1>1, <1>2

\* A stop.
LEMMA TruthOfStop ==
    ASSUME RunInv, Truth, StopRunning
    PROVE  Truth' /\ Lifecycle!Stop
<1>1. /\ runStatus = "RUNNING" /\ runStatus' = "STOPPING" /\ open' = open /\ retries' = retries
      /\ partStatus \in [Parts -> PartStatus]
      /\ \A p \in Parts : partStatus[p] \in {"QUEUED", "RUNNING"} => ~PartLocked(p)
      /\ partStatus' = [p \in Parts |-> IF partStatus[p] \in {"QUEUED", "RUNNING"}
                                        THEN "STOPPING" ELSE partStatus[p]]
  BY DEF StopRunning, RunInv, StatusType
<1>2. EnderFits' /\ Rounds'
  BY <1>1 DEF Truth, EnderFits, Rounds, PartLocked, RunInv, StatusType, Transaction
<1>3. VerdictHolds' /\ FailureHolds'
  <2>1. (\A p \in Parts : partStatus[p] \notin {"QUEUED", "RUNNING"}) => partStatus' = partStatus
    BY <1>1
  <2>2. {"QUEUED", "RUNNING"} \cap ENDED = {}
    BY DEF ENDED
  <2> QED
    BY <1>1, <2>1, <2>2, VerdictsOutlast
<1>4. (QueuedRunWaits /\ OverAllEnded /\ StopWasAsked /\ SaysTrue)'
  BY <1>1 DEF QueuedRunWaits, OverAllEnded, StopWasAsked, SaysTrue
<1>5. CancelledWithRun'
  BY <1>1 DEF Truth, CancelledWithRun
<1>6. Lifecycle!Stop
  <2>1. \A p \in Parts : (partStatus[p] \in {"QUEUED", "RUNNING"}) \/ partStatus[p] = "STOPPING"
                            \/ partStatus[p] \in Lifecycle!Ended
    BY <1>1 DEF PartStatus, ENDED, Lifecycle!Ended
  <2>2. \A p \in Parts : (IF partStatus[p] \in {"QUEUED", "RUNNING"} THEN "STOPPING" ELSE partStatus[p])
                            = (IF partStatus[p] \in Lifecycle!Ended THEN partStatus[p] ELSE "STOPPING")
    BY <2>1 DEF Lifecycle!Ended
  <2> QED
    BY <1>1, <2>2 DEF Lifecycle!Stop
<1> QED
  BY <1>2, <1>3, <1>4, <1>5, <1>6 DEF Truth

\* A run that is given up.
LEMMA TruthOfAbandon ==
    ASSUME RunInv, Truth, Abandons
    PROVE  Truth' /\ (Lifecycle!Cancel \/ Lifecycle!Delete)
<1>1. /\ runStatus' \in {"CANCELLED", "DELETED"} /\ open' = open /\ retries' = retries
      /\ partStatus \in [Parts -> PartStatus] /\ runStatus \in RunStatus
      /\ \A p \in Parts : partStatus[p] = "QUEUED" => ~PartLocked(p)
      /\ partStatus' = [p \in Parts |-> IF partStatus[p] = "QUEUED" THEN "CANCELLED" ELSE partStatus[p]]
  BY DEF Abandons, QueuedCancelled, RunInv, StatusType
<1>2. EnderFits' /\ Rounds'
  BY <1>1 DEF Truth, EnderFits, Rounds, PartLocked, RunInv, StatusType, Transaction
<1>3. VerdictHolds' /\ FailureHolds'
  <2>1. (\A p \in Parts : partStatus[p] \notin {"QUEUED"}) => partStatus' = partStatus
    BY <1>1
  <2>2. {"QUEUED"} \cap ENDED = {}
    BY DEF ENDED
  <2> QED
    BY <1>1, <2>1, <2>2, VerdictsOutlast
<1>4. \A p \in Parts : partStatus[p] = "QUEUED" \/ partStatus[p] \in Lifecycle!Ended
  BY DEF Abandons, Truth, OverAllEnded, QueuedRunWaits, ENDED, Lifecycle!Ended
<1>5. partStatus' = [p \in Parts |-> IF partStatus[p] \in Lifecycle!Ended THEN partStatus[p] ELSE "CANCELLED"]
  <2>1. \A p \in Parts : (IF partStatus[p] = "QUEUED" THEN "CANCELLED" ELSE partStatus[p])
                            = (IF partStatus[p] \in Lifecycle!Ended THEN partStatus[p] ELSE "CANCELLED")
    BY <1>4 DEF Lifecycle!Ended
  <2> QED
    BY <1>1, <2>1
<1>6. \A p \in Parts : partStatus'[p] \in ENDED
  BY <1>4, <1>5 DEF ENDED, Lifecycle!Ended
<1>7. (QueuedRunWaits /\ CancelledWithRun /\ OverAllEnded /\ StopWasAsked /\ SaysTrue)'
  BY <1>1, <1>6 DEF QueuedRunWaits, CancelledWithRun, OverAllEnded, StopWasAsked, SaysTrue
<1>8. Lifecycle!Cancel \/ Lifecycle!Delete
  <2>1. CASE runStatus = "QUEUED" /\ runStatus' = "CANCELLED"
    BY <1>5, <2>1 DEF Lifecycle!Cancel, Lifecycle!Abandon
  <2>2. CASE runStatus \notin {"RUNNING", "STOPPING", "DELETED"} /\ runStatus' = "DELETED"
    BY <1>1, <1>5, <2>2 DEF Lifecycle!Delete, Lifecycle!Abandon, Lifecycle!Over, RunStatus, FINAL
  <2> QED
    BY <2>1, <2>2 DEF Abandons
<1> QED
  BY <1>2, <1>3, <1>7, <1>8 DEF Truth

\* A retry.  No transaction that ends a part is open beside it: the part would have to be one
\* that completed.
LEMMA TruthOfRetry ==
    ASSUME RunInv, Truth, retries \in Nat, Retries
    PROVE  Truth' /\ Lifecycle!Retry
<1>1. PICK D \in SUBSET Parts :
          (\A p \in Parts \ D : partStatus[p] \in ENDED => partStatus[p] = "COMPLETED") /\ RetryParts(D)
  BY DEF Retries
<1>2. /\ open' = open /\ runStatus' = "QUEUED" /\ retries' = retries + 1
      /\ partStatus' = [p \in Parts |-> IF p \in D THEN "QUEUED" ELSE partStatus[p]]
      /\ \A p \in D : ~PartLocked(p)
  BY <1>1 DEF RetryParts
<1>3. \A p \in Parts \ D : partStatus[p] = "COMPLETED"
  BY <1>1 DEF Retries, Truth, OverAllEnded, TERMINAL_STATUSES, FINAL
<1>4. \A t \in open : t.to = "same"
  <2> SUFFICES ASSUME NEW t \in open, t.to # "same" PROVE FALSE
    OBVIOUS
  <2>1. t.part \in Parts /\ partStatus[t.part] # "COMPLETED" /\ PartLocked(t.part)
    BY DEF RunInv, StatusType, Transaction, EndersSpare, PartLocked
  <2> QED
    BY <1>2, <1>3, <2>1
<1>5. \A t \in open : t.round <= retries /\ t.round \in Nat
  BY DEF RunInv, StatusType, Transaction, Truth, Rounds
<1>6. \A t \in open' : t.round <= retries' /\ t.round # retries' /\ t.to = "same"
  BY <1>2, <1>4, <1>5
<1>7. (EnderFits /\ Rounds /\ VerdictHolds /\ FailureHolds)'
  BY <1>6 DEF EnderFits, Rounds, VerdictHolds, FailureHolds
<1>8. \A p \in Parts : partStatus'[p] \in {"QUEUED", "COMPLETED"}
  BY <1>2, <1>3
<1>9. (QueuedRunWaits /\ CancelledWithRun /\ OverAllEnded /\ StopWasAsked /\ SaysTrue)'
  BY <1>2, <1>6, <1>8
     DEF QueuedRunWaits, CancelledWithRun, OverAllEnded, StopWasAsked, SaysTrue, ENDED
<1>10. Lifecycle!Retry
  BY <1>2, <1>3 DEF Retries, TERMINAL_STATUSES, FINAL, Lifecycle!Retry, Lifecycle!Over
<1> QED
  BY <1>7, <1>9, <1>10 DEF Truth

\* The commit of a transaction that does not mislead the run.  What others have counted as a
\* failure is not touched: the only parts that are written twice are those that failed, and they
\* fail again.
LEMMA TruthOfCommit ==
    ASSUME RunInv, RunInv', Truth, NEW t \in open, NEW F \in SUBSET {"RUNNING", "STOPPING"}, Commit(t, F),
           t.round # retries => runStatus' = runStatus
    PROVE  Truth' /\ (Lifecycle!End(t.part) \/ Lifecycle!Finish)
<1>1. /\ t.part \in Parts /\ t.to \in (ENDED \ {"CANCELLED"}) \cup {"same"}
      /\ t.verdict \in FINAL \cup {"none"} /\ partStatus \in [Parts -> PartStatus]
      /\ open' = open \ {t} /\ partStatus' = Seen(t.part, t.to) /\ retries' = retries
      /\ runStatus' = IF t.verdict # "none" /\ runStatus \in F THEN t.verdict ELSE runStatus
  BY DEF Commit, RunInv, StatusType, Transaction
<1>2. t.to # "same" =>
          /\ partStatus' = [partStatus EXCEPT ![t.part] = t.to]
          /\ t.to \in {"COMPLETED", "FAILED", "STOPPED"}
          /\ partStatus[t.part] \notin {"COMPLETED", "CANCELLED"}
          /\ t.to = "COMPLETED" => partStatus[t.part] = "RUNNING"
          /\ t.to = "STOPPED" => partStatus[t.part] = "STOPPING"
  BY <1>1 DEF Seen, ENDED, RunInv, EndersSpare, Truth, EnderFits
<1>3. t.to = "same" => partStatus' = partStatus
  BY <1>1 DEF Seen
<1>4. \A p \in Parts : /\ partStatus[p] \in {"COMPLETED", "FAILED", "CANCELLED"} => partStatus'[p] = partStatus[p]
                       /\ partStatus'[p] = partStatus[p] \/ partStatus'[p] \in {"COMPLETED", "FAILED", "STOPPED"}
  BY <1>1, <1>2, <1>3
<1>5. ASSUME NEW u \in open'
      PROVE  /\ u \in open /\ u.part \in Parts
             /\ u.to # "same" => partStatus'[u.part] = partStatus[u.part]
             /\ \A p \in Parts :
                   \/ u.to # "same" /\ u.part = p /\ Seen(u.part, u.to)'[p] = Seen(u.part, u.to)[p]
                   \/ Seen(u.part, u.to)[p] = partStatus[p] /\ Seen(u.part, u.to)'[p] = partStatus'[p]
  <2>1. u \in open /\ u # t /\ u.part \in Parts
    BY <1>1 DEF RunInv, StatusType, Transaction
  <2>2. t.to # "same" /\ u.to # "same" => u.part # t.part
    BY <2>1 DEF RunInv, OneEnder
  <2>3. u.to # "same" => partStatus'[u.part] = partStatus[u.part]
    BY <1>1, <1>2, <1>3, <2>1, <2>2
  <2>4. partStatus' \in [Parts -> PartStatus]
    BY DEF RunInv, StatusType
  <2> QED
    BY <1>1, <2>1, <2>3, <2>4 DEF Seen
<1>6. EnderFits' /\ Rounds'
  BY <1>1, <1>5 DEF Truth, EnderFits, Rounds
<1>7. StopWasAsked'
  BY <1>1, <1>2, <1>3 DEF Truth, StopWasAsked, FINAL
<1>8. FailureHolds'
  <2> SUFFICES ASSUME NEW u \in open', u.round = retries, u.verdict \in {"FAILED", "PARTIALLY_FAILED"}
               PROVE  Fails(u.verdict, Seen(u.part, u.to)')
    BY <1>1 DEF FailureHolds, Fails, Seen
  <2>1. Fails(u.verdict, Seen(u.part, u.to))
    BY <1>5 DEF Truth, FailureHolds
  <2>2. \A p \in Parts : Seen(u.part, u.to)'[p] = Seen(u.part, u.to)[p]
    BY <1>4, <1>5, <2>1 DEF Fails
  <2> QED
    BY <2>1, <2>2 DEF Fails
<1>9. VerdictHolds'
  <2> SUFFICES ASSUME NEW u \in open', u.round = retries, NEW p \in Parts
               PROVE  /\ u.verdict # "none" => Seen(u.part, u.to)'[p] \in ENDED
                      /\ u.verdict = "COMPLETED" => Seen(u.part, u.to)'[p] \in {"COMPLETED", "CANCELLED"}
    BY <1>1 DEF VerdictHolds, Seen
  <2>1. /\ u.verdict # "none" => Seen(u.part, u.to)[p] \in ENDED
        /\ u.verdict = "COMPLETED" => Seen(u.part, u.to)[p] \in {"COMPLETED", "CANCELLED"}
    BY <1>5 DEF Truth, VerdictHolds
  <2> QED
    BY <1>4, <1>5, <2>1 DEF ENDED
<1>10. QueuedRunWaits' /\ CancelledWithRun'
  BY <1>1, <1>4 DEF Truth, QueuedRunWaits, CancelledWithRun, FINAL, ENDED
<1>11. CASE runStatus' = runStatus
  <2>1. SaysTrue'
    <3> SUFFICES ASSUME runStatus \in {"COMPLETED", "PARTIALLY_FAILED", "FAILED"}
                 PROVE  SaysTrue'
      BY <1>11 DEF SaysTrue
    <3>1. \A p \in Parts : partStatus[p] \in {"COMPLETED", "FAILED"} /\ partStatus'[p] = partStatus[p]
      BY <1>4 DEF Truth, SaysTrue
    <3> QED
      BY <1>11, <3>1 DEF Truth, SaysTrue, Lifecycle!Outcome
  <2>2. OverAllEnded'
    BY <1>4, <1>11 DEF Truth, OverAllEnded, ENDED
  <2>3. Lifecycle!GoOnOrFinish
    BY <1>11 DEF Lifecycle!GoOnOrFinish
  <2>4. Lifecycle!End(t.part) \/ Lifecycle!Finish
    BY <1>2, <1>3, <2>3 DEF Lifecycle!End, Lifecycle!Finish
  <2> QED
    BY <1>6, <1>7, <1>8, <1>9, <1>10, <2>1, <2>2, <2>4 DEF Truth
<1>12. CASE t.verdict # "none" /\ runStatus \in F /\ runStatus' # runStatus
  <2>1. runStatus' = t.verdict /\ t.verdict \in FINAL /\ runStatus \in {"RUNNING", "STOPPING"}
        /\ t.round = retries
    BY <1>1, <1>12
  <2>2. \A p \in Parts : partStatus'[p] \in ENDED /\ partStatus'[p] # "CANCELLED"
    BY <1>1, <1>10, <1>12, <2>1 DEF Truth, VerdictHolds, CancelledWithRun, FINAL
  <2>3. t.verdict = "COMPLETED" => \A p \in Parts : partStatus'[p] = "COMPLETED"
    BY <1>1, <2>1, <2>2 DEF Truth, VerdictHolds
  <2>4. t.verdict \in {"FAILED", "PARTIALLY_FAILED"} => Fails(t.verdict, partStatus')
    BY <1>1, <2>1 DEF Truth, FailureHolds
  <2>5. SaysTrue'
    <3>1. CASE t.verdict = "COMPLETED"
      BY <2>1, <2>3, <3>1 DEF SaysTrue, Lifecycle!Outcome
    <3>2. CASE t.verdict = "FAILED"
      <4>1. \A p \in Parts : partStatus'[p] = "FAILED"
        BY <2>2, <2>4, <3>2 DEF Fails
      <4> QED
        BY <2>1, <3>2, <4>1, ConstantsAssumption DEF SaysTrue, Lifecycle!Outcome
    <3>3. CASE t.verdict = "PARTIALLY_FAILED"
      BY <2>1, <2>2, <2>4, <3>3 DEF SaysTrue, Lifecycle!Outcome, Fails
    <3>4. CASE t.verdict = "STOPPED"
      BY <2>1, <3>4 DEF SaysTrue
    <3> QED
      BY <2>1, <3>1, <3>2, <3>3, <3>4 DEF FINAL
  <2>6. t.verdict = "STOPPED" => runStatus = "STOPPING"
    BY <2>1 DEF Truth, StopWasAsked
  <2>7. Lifecycle!GoOnOrFinish
    BY <2>1, <2>2, <2>5, <2>6 DEF Lifecycle!GoOnOrFinish, Lifecycle!Ended, SaysTrue, FINAL, ENDED
  <2>8. Lifecycle!End(t.part) \/ Lifecycle!Finish
    BY <1>2, <1>3, <2>7 DEF Lifecycle!End, Lifecycle!Finish
  <2>9. OverAllEnded'
    BY <2>2 DEF OverAllEnded
  <2> QED
    BY <1>6, <1>7, <1>8, <1>9, <1>10, <2>5, <2>8, <2>9 DEF Truth
<1> QED
  BY <1>1, <1>11, <1>12

\* A step that does not mislead the run keeps the truth, and is a step of the lifecycle or
\* changes nothing of it.
LEMMA TruthIsKept ==
    ASSUME IInv, IInv', Truth, [RunsNext]_runsVars, ~misled'
    PROVE  Truth' /\ [Lifecycle!Next]_(Lifecycle!vars)
<1>1. RunIInv /\ RunInv /\ RunInv' /\ retries \in Nat
  BY DEF IInv, RunIInv
<1>2. CASE UNCHANGED <<runStatus, partStatus, open, retries>>
  BY <1>2, TruthStays DEF Lifecycle!vars
<1>3. ASSUME NEW p \in Parts, NEW k, Claim(p, k)
      PROVE  Truth' /\ [Lifecycle!Next]_(Lifecycle!vars)
  BY <1>1, <1>3, TruthOfClaim DEF Lifecycle!Next
<1>4. ASSUME NEW t, Counts(t)
      PROVE  Truth' /\ [Lifecycle!Next]_(Lifecycle!vars)
  <2>1. Truth'
    BY <1>1, <1>4, TruthOfCount
  <2> QED
    BY <1>4, <2>1 DEF Counts, Lifecycle!vars
<1>5. ASSUME NEW t \in open, NEW F \in SUBSET {"RUNNING", "STOPPING"}, Commit(t, F), Mislead
      PROVE  Truth' /\ [Lifecycle!Next]_(Lifecycle!vars)
  <2>1. t.part \in Parts
    BY <1>1 DEF RunInv, StatusType, Transaction
  <2>2. t \in open \ open'
    BY <1>5 DEF Commit
  <2>3. t.round # retries => runStatus' = runStatus
    BY <1>5, <2>2 DEF Mislead
  <2> QED
    BY <1>1, <1>5, <2>1, <2>3, TruthOfCommit DEF Lifecycle!Next
<1>6. CASE StopRunning \/ Abandons \/ Retries
  BY <1>1, <1>6, TruthOfStop, TruthOfAbandon, TruthOfRetry DEF Lifecycle!Next
<1>7. CASE (InferenceNext \/ BenchmarkNext) /\ Mislead
  BY <1>1, <1>2, <1>3, <1>4, <1>5, <1>6, <1>7, RunSteps
<1> QED
  BY <1>2, <1>7 DEF RunsNext, runsVars, vars

\* Initially nothing is said.
LEMMA TruthInitially ==
    ASSUME RunsInit PROVE Truth /\ Lifecycle!Init
<1>1. open = {} /\ runStatus = "QUEUED" /\ partStatus = [p \in Parts |-> "QUEUED"]
  BY DEF RunsInit, Init
<1>2. EnderFits /\ Rounds /\ VerdictHolds /\ FailureHolds
  BY <1>1 DEF EnderFits, Rounds, VerdictHolds, FailureHolds
<1>3. QueuedRunWaits /\ CancelledWithRun /\ OverAllEnded /\ StopWasAsked /\ SaysTrue
  BY <1>1 DEF QueuedRunWaits, CancelledWithRun, OverAllEnded, StopWasAsked, SaysTrue
<1> QED
  BY <1>1, <1>2, <1>3 DEF Truth, Lifecycle!Init

\* Once misled, a run stays so.
LEMMA StaysMisled ==
    ASSUME misled, [RunsNext]_runsVars PROVE misled'
BY DEF RunsNext, Mislead, runsVars

\* The truth holds of a run until it is misled.
LEMMA TruthHolds == RunsSpec => [](~misled => Truth)
<1>1. RunsInit => (~misled => Truth)
  BY TruthInitially
<1>2. IInv /\ IInv' /\ (~misled => Truth) /\ [RunsNext]_runsVars => (~misled => Truth)'
  BY TruthIsKept, StaysMisled
<1> QED
  BY Invariant, <1>1, <1>2, PTL DEF RunsSpec

\* However the transactions that end parts overlap with each other, with losses, stops,
\* deletion and retries, and although worker and scheduler finalise benchmarks by
\* different rules, a run that is over has no part left, unless a verdict counted before a
\* retry was written over it.
THEOREM OverIsEnded == RunsSpec => []OverMeansEnded
<1>1. (~misled => Truth) => OverMeansEnded
  BY DEF Truth, OverAllEnded, OverMeansEnded
<1> QED
  BY TruthHolds, <1>1, PTL

\* What a run that is not misled says of itself stays true, whatever the transactions that ended
\* its parts counted before they committed, and whichever late attempts fail afterwards.
THEOREM VerdictStaysTrue == RunsSpec => []VerdictIsTrue
<1>1. (~misled => Truth) => VerdictIsTrue
  BY DEF Truth, SaysTrue, VerdictIsTrue
<1> QED
  BY TruthHolds, <1>1, PTL

\* Both kinds of run implement RunLifecycle until they are misled: transactions that count under
\* READ COMMITTED and overlap, two rules of finalisation, lost, late and repeated attempts are, to
\* who looks at the statuses, endings one at a time with a true verdict.
THEOREM RunsAsPromised == RunsSpec => AsPromised
<1>1. RunsInit => Lifecycle!Init
  BY TruthInitially
<1>2. IInv /\ IInv' /\ (~misled => Truth) /\ [RunsNext]_runsVars
          => [Lifecycle!Next \/ misled']_(Lifecycle!vars)
  BY TruthIsKept, StaysMisled
<1> QED
  BY Invariant, TruthHolds, <1>1, <1>2, PTL DEF RunsSpec, AsPromised
===============================================================================
