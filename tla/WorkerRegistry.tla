--------------------------- MODULE WorkerRegistry ---------------------------
(***************************************************************************)
(* The registry of workers and of their GPUs: what a worker says of itself *)
(* when it starts and at every heartbeat, how the scheduler and a shutdown *)
(* take it back, and which cards an execution is shown to occupy.  A step  *)
(* is one transaction, or what the machine does to a process or its cards. *)
(*                                                                         *)
(* A worker without cards is a dataset worker, or one without a driver.    *)
(* NVML is taken to answer, and to count the cards as CUDA does.           *)
(***************************************************************************)
EXTENDS Naturals, FiniteSets

CONSTANTS
    Workers,     \* workers.worker_key
    Cards,       \* worker_gpus.gpu_uuid
    Executions,  \* executions that ask for cards by position
    MaxChanges   \* bound: how often cards change

ASSUME RegistryAssumption == MaxChanges \in Nat

VARIABLES
    process,     \* of a worker: down, up, or exiting (stop() has begun)
    slots,       \* the card at each CUDA index of the worker's host
    changes,     \* changes of slots so far, bounded by MaxChanges
    row,         \* workers: status, and whether last_heartbeat_at is recent
    recorded,    \* the last transaction of the process on its row was committed
    inventory,   \* worker_gpus: worker and gpu_index of each card
    executions   \* worker, process behind it, what it uses, job_execution_gpus

vars == <<process, slots, changes, row, recorded, inventory, executions>>

Nowhere == <<"none", 0>>

NotStarted == [status |-> "NEW", worker |-> "none", alive |-> FALSE, uses |-> {}, shown |-> {}]

\* The rows of job_execution_gpus stay, but nobody reads those of an execution that is over.
Over == [NotStarted EXCEPT !.status = "OVER"]

\* The cards of a host are numbered from 0.
Listings == {f \in UNION {[0 .. n - 1 -> Cards] : n \in 0 .. Cardinality(Cards)} :
                \A i, k \in DOMAIN f : f[i] = f[k] => i = k}

CardsOf(f) == {f[i] : i \in DOMAIN f}

Layouts == {s \in [Workers -> Listings] :
                \A v, w \in Workers : v # w => CardsOf(s[v]) \cap CardsOf(s[w]) = {}}

Init ==
    /\ process = [w \in Workers |-> "down"]
    /\ slots \in Layouts
    /\ changes = 0
    /\ row = [w \in Workers |-> [status |-> "ABSENT", recent |-> FALSE]]
    /\ recorded = [w \in Workers |-> FALSE]
    /\ inventory = [c \in Cards |-> Nowhere]
    /\ executions = [x \in Executions |-> NotStarted]

-----------------------------------------------------------------------------
(* _sync_gpus: the cards are upserted one by one, by index *)

\* Some upsert meets the row of another card at its position, which no earlier
\* upsert of the same heartbeat has moved away.  uq_worker_gpu_index is
\* INITIALLY IMMEDIATE: the statement fails, and the transaction with it.
Collides(w) ==
    \E i \in DOMAIN slots[w], c \in Cards :
        /\ inventory[c] = <<w, i>> /\ c # slots[w][i]
        /\ \A k \in DOMAIN slots[w] : slots[w][k] = c => k > i

\* All cards of the host are where they are.
Synced(w) ==
    [c \in Cards |-> IF c \in CardsOf(slots[w])
                       THEN <<w, CHOOSE i \in DOMAIN slots[w] : slots[w][i] = c>>
                       ELSE inventory[c]]

\* Mutant of Record: a savepoint for each card, so that the heartbeat is kept.
RecordWhatFits(w, online) ==
    /\ row' = [row EXCEPT ![w] = online]
    /\ inventory' = IF Collides(w) THEN inventory ELSE Synced(w)
    /\ recorded' = [recorded EXCEPT ![w] = TRUE]

\* The exception is caught, but the commit of a failed transaction is a rollback:
\* the heartbeat before it is lost with it.
Record(w, online) ==
    \/ /\ ~Collides(w)
       /\ row' = [row EXCEPT ![w] = online]
       /\ inventory' = Synced(w)
       /\ recorded' = [recorded EXCEPT ![w] = TRUE]
    \/ /\ Collides(w)
       /\ recorded' = [recorded EXCEPT ![w] = FALSE]
       /\ UNCHANGED <<row, inventory>>

Online == [status |-> "ONLINE", recent |-> TRUE]

\* register(): an upsert of the row, which a worker does once.
Start(w) ==
    /\ process[w] = "down"
    /\ process' = [process EXCEPT ![w] = "up"]
    /\ Record(w, Online)
    /\ UNCHANGED <<slots, changes, executions>>

\* The database does not answer, and registration is not repeated.
StartUnregistered(w) ==
    /\ process[w] = "down"
    /\ process' = [process EXCEPT ![w] = "up"]
    /\ recorded' = [recorded EXCEPT ![w] = FALSE]
    /\ UNCHANGED <<slots, changes, row, inventory, executions>>

\* A heartbeat updates the row, if there is one; stop() does not wait for one
\* that is under way.  Nothing in the code sets disabled_at.
Beat(w) ==
    /\ process[w] \in {"up", "exiting"}
    /\ row[w].status # "ABSENT"
    /\ Record(w, Online)
    /\ UNCHANGED <<process, slots, changes, executions>>

BeatFails(w) ==
    /\ process[w] \in {"up", "exiting"}
    /\ recorded' = [recorded EXCEPT ![w] = FALSE]
    /\ UNCHANGED <<process, slots, changes, row, inventory, executions>>

\* Nobody is behind the executions of this worker any more.
Abandoned(w, shown) ==
    [x \in Executions |->
        IF executions[x].alive /\ executions[x].worker = w
          THEN [executions[x] EXCEPT !.alive = FALSE, !.uses = {}, !.shown = IF shown THEN @ ELSE {}]
          ELSE executions[x]]

\* An exception leaves the consume loop, which main() enters again.
Restart(w) ==
    /\ process[w] = "up"
    /\ \E shown \in BOOLEAN : executions' = Abandoned(w, shown)
    /\ UNCHANGED <<process, slots, changes, row, recorded, inventory>>

\* An interrupt leaves an execution in the middle, its cards released on the way
\* out; then stop(), whose update may fail like that, and the end of the interpreter.
Stop(w) ==
    /\ process[w] = "up"
    /\ process' = [process EXCEPT ![w] = "exiting"]
    /\ \E shown \in BOOLEAN : executions' = Abandoned(w, shown)
    /\ \/ UNCHANGED row
       \/ row[w].status # "ABSENT" /\ row' = [row EXCEPT ![w].status = "OFFLINE"]
    /\ UNCHANGED <<slots, changes, recorded, inventory>>

Exit(w) ==
    /\ process[w] = "exiting"
    /\ process' = [process EXCEPT ![w] = "down"]
    /\ UNCHANGED <<slots, changes, row, recorded, inventory, executions>>

Crash(w) ==
    /\ process[w] = "up"
    /\ process' = [process EXCEPT ![w] = "down"]
    /\ executions' = Abandoned(w, TRUE)
    /\ UNCHANGED <<slots, changes, row, recorded, inventory>>

\* Cards are added, removed, moved to another host, or numbered anew, while the
\* hosts concerned are off.
ChangeCards ==
    /\ changes < MaxChanges
    /\ slots' \in {s \in Layouts : s # slots /\ \A w \in Workers : process[w] # "down" => s[w] = slots[w]}
    /\ changes' = changes + 1
    /\ UNCHANGED <<process, row, recorded, inventory, executions>>

-----------------------------------------------------------------------------
(* The scheduler *)

\* The timeout is several heartbeats long: a row grows old when they fail or
\* when there are none.
Age(w) ==
    /\ row[w].recent
    /\ process[w] = "down" \/ ~recorded[w]
    /\ row' = [row EXCEPT ![w].recent = FALSE]
    /\ UNCHANGED <<process, slots, changes, recorded, inventory, executions>>

\* Mutant of MarkOffline: the comparison of times the wrong way round.
MarkRecentOffline(w) ==
    /\ row[w].status = "ONLINE" /\ row[w].recent
    /\ row' = [row EXCEPT ![w].status = "OFFLINE"]
    /\ UNCHANGED <<process, slots, changes, recorded, inventory, executions>>

\* markStaleWorkersOffline
MarkOffline(w) ==
    /\ row[w].status = "ONLINE" /\ ~row[w].recent
    /\ row' = [row EXCEPT ![w].status = "OFFLINE"]
    /\ UNCHANGED <<process, slots, changes, recorded, inventory, executions>>

\* reconcileStaleExecutions, as far as cards are concerned.
Lose(x) ==
    /\ executions[x].status = "RUNNING" /\ ~executions[x].alive
    /\ executions' = [executions EXCEPT ![x] = Over]
    /\ UNCHANGED <<process, slots, changes, row, recorded, inventory>>

-----------------------------------------------------------------------------
(* GpuAllocation: rows of job_execution_gpus for the time of the work *)

\* The cards the inventory has for these positions of the worker.
Listed(w, P) == {c \in Cards : \E i \in P : inventory[c] = <<w, i>>}

\* __enter__: recorded or, when its connection fails, not.  One execution at a time.
Work(x, w, P) ==
    /\ executions[x].status = "NEW" /\ process[w] = "up"
    /\ \A y \in Executions : ~(executions[y].alive /\ executions[y].worker = w)
    /\ \E rows \in {Listed(w, P), {}} :
          executions' = [executions EXCEPT ![x] =
              [status |-> "RUNNING", worker |-> w, alive |-> TRUE,
               uses |-> {slots[w][i] : i \in P}, shown |-> rows]]
    /\ UNCHANGED <<process, slots, changes, row, recorded, inventory>>

\* __exit__, whose update may fail, and the end of the execution that follows: the
\* dashboard leaves out the rows of executions that are over.
Release(x) ==
    /\ executions[x].alive
    /\ executions' = [executions EXCEPT ![x] = Over]
    /\ UNCHANGED <<process, slots, changes, row, recorded, inventory>>

\* activeAllocations: card c is shown as busy with execution x.
Busy(x, c) == executions[x].status = "RUNNING" /\ c \in executions[x].shown

-----------------------------------------------------------------------------
Next ==
    \/ ChangeCards
    \/ \E w \in Workers :
          \/ Start(w) \/ StartUnregistered(w) \/ Beat(w) \/ BeatFails(w)
          \/ Restart(w) \/ Stop(w) \/ Exit(w) \/ Crash(w)
          \/ Age(w) \/ MarkOffline(w)
    \/ \E x \in Executions :
          \/ Lose(x) \/ Release(x)
          \/ \E w \in Workers : \E P \in SUBSET DOMAIN slots[w] : P # {} /\ Work(x, w, P)

Spec == Init /\ [][Next]_vars

(* Fairness: heartbeats go on and the database answers some of them; time passes, *)
(* the scheduler ticks, an interpreter that exits is gone.                        *)
FairSpec ==
    /\ Spec
    /\ \A w \in Workers : /\ SF_vars(Beat(w)) /\ WF_vars(Age(w))
                          /\ WF_vars(MarkOffline(w)) /\ WF_vars(Exit(w))
    /\ \A x \in Executions : WF_vars(Lose(x))

-----------------------------------------------------------------------------
(* Properties *)

\* Every variable keeps to its domain; an execution that has not begun, or that nobody is
\* behind, uses no card.
TypeOK ==
    /\ process \in [Workers -> {"down", "up", "exiting"}]
    /\ slots \in Layouts
    /\ changes \in 0 .. MaxChanges
    /\ row \in [Workers -> [status : {"ABSENT", "ONLINE", "OFFLINE"}, recent : BOOLEAN]]
    /\ recorded \in [Workers -> BOOLEAN]
    /\ inventory \in [Cards -> (Workers \X Nat) \cup {Nowhere}]
    /\ executions \in [Executions -> [status : {"NEW", "RUNNING", "OVER"}, worker : Workers \cup {"none"},
                                      alive : BOOLEAN, uses : SUBSET Cards, shown : SUBSET Cards]]
    /\ \A x \in Executions : ~executions[x].alive => executions[x].uses = {}

\* What the dashboard says is busy is what the execution works on, if the
\* worker's last heartbeat was recorded when the work began: rows are found by
\* index, so every card of the host must be in its place, and none of another
\* host or of an earlier order of the cards may be listed there.
AttributionIsTrue ==
    [][\A x \in Executions, w \in Workers :
          executions[x].status = "NEW" /\ executions'[x].worker = w /\ recorded[w] =>
              \A c \in Cards : Busy(x, c)' => c \in executions'[x].uses]_vars

\* The dashboard is true in the end.  A worker that is gone for good is not shown ONLINE,
\* also when a last heartbeat overtook the update of its own shutdown.  One that stays,
\* was registered once and whose cards fit the inventory is shown ONLINE again, however
\* often it was taken for dead ("Inventory bookkeeping must never take down the
\* heartbeat", registry.py:112, does not hold of cards that collide).  And no card
\* stays busy with an execution whose worker died.
DashboardIsTrue ==
    /\ \A w \in Workers :
          /\ <>[](process[w] = "down") => <>[](row[w].status # "ONLINE")
          /\ <>[](process[w] = "up" /\ row[w].status # "ABSENT" /\ ~Collides(w)) =>
                 []<>(row[w].status = "ONLINE")
    /\ \A x \in Executions :
          (\E c \in Cards : Busy(x, c)) /\ ~executions[x].alive ~> \A c \in Cards : ~Busy(x, c)
=============================================================================
