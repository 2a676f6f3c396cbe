------------------------ MODULE WorkerRegistryProofs ------------------------
(***************************************************************************)
(* Proofs about WorkerRegistry, for any workers, cards and executions and  *)
(* any number of exchanges of cards.                                       *)
(***************************************************************************)
EXTENDS WorkerRegistry, TLAPS

-----------------------------------------------------------------------------
(* The inductive invariant *)

\* After a heartbeat that was recorded, and until the process ends, no card stands in the
\* inventory at a position of the host where another card is: what was listed there before
\* has moved, or the heartbeat would have collided with it.
InventoryIsTrue ==
    \A w \in Workers : recorded[w] /\ process[w] # "down" =>
        \A c \in Cards : \A i \in DOMAIN slots[w] : inventory[c] = <<w, i>> => slots[w][i] = c

\* Nothing is shown of an execution before it begins or after it is over.
IdleIsBlank ==
    \A x \in Executions : executions[x].status # "RUNNING" =>
        ~executions[x].alive /\ executions[x].shown = {}

IInv == TypeOK /\ InventoryIsTrue /\ IdleIsBlank

-----------------------------------------------------------------------------
(* Heartbeats *)

\* A layout gives each worker a listing of cards, by positions from 0.
LEMMA LayoutType ==
    ASSUME NEW s \in Layouts, NEW w \in Workers
    PROVE  DOMAIN s[w] \subseteq Nat /\ \A i \in DOMAIN s[w] : s[w][i] \in Cards
<1>1. s[w] \in Listings
  BY DEF Layouts
<1>2. PICK n \in 0 .. Cardinality(Cards) : s[w] \in [0 .. n - 1 -> Cards]
  BY <1>1 DEF Listings
<1> QED
  BY <1>2

\* What a heartbeat without a collision writes of a card that is in the host, and of one
\* that is not.
LEMMA SyncedCard ==
    ASSUME TypeOK, NEW w \in Workers, NEW c \in Cards
    PROVE  /\ c \in CardsOf(slots[w]) => \E i \in DOMAIN slots[w] : slots[w][i] = c /\ Synced(w)[c] = <<w, i>>
           /\ c \notin CardsOf(slots[w]) => Synced(w)[c] = inventory[c]
<1>1. CASE c \in CardsOf(slots[w])
  <2> DEFINE i == CHOOSE k \in DOMAIN slots[w] : slots[w][k] = c
  <2>1. i \in DOMAIN slots[w] /\ slots[w][i] = c
    BY <1>1 DEF CardsOf
  <2>2. Synced(w)[c] = <<w, i>>
    BY <1>1 DEF Synced
  <2> QED
    BY <1>1, <2>1, <2>2
<1>2. CASE c \notin CardsOf(slots[w])
  BY <1>2 DEF Synced
<1> QED
  BY <1>1, <1>2

\* The inventory stays one.
LEMMA SyncedType ==
    ASSUME TypeOK, NEW w \in Workers
    PROVE  Synced(w) \in [Cards -> (Workers \X Nat) \cup {Nowhere}]
<1> SUFFICES ASSUME NEW c \in Cards
             PROVE  Synced(w)[c] \in (Workers \X Nat) \cup {Nowhere}
  BY DEF Synced
<1>1. CASE c \in CardsOf(slots[w])
  <2>1. PICK i \in DOMAIN slots[w] : Synced(w)[c] = <<w, i>>
    BY <1>1, SyncedCard
  <2>2. i \in Nat
    BY LayoutType DEF TypeOK
  <2> QED
    BY <2>1, <2>2
<1>2. CASE c \notin CardsOf(slots[w])
  BY <1>2, SyncedCard DEF TypeOK
<1> QED
  BY <1>1, <1>2

\* A heartbeat that is recorded leaves the inventory true of its host.
LEMMA SyncedIsTrue ==
    ASSUME TypeOK, NEW w \in Workers, ~Collides(w),
           NEW c \in Cards, NEW i \in DOMAIN slots[w], Synced(w)[c] = <<w, i>>
    PROVE  slots[w][i] = c
<1>1. CASE c \in CardsOf(slots[w])
  BY <1>1, SyncedCard
<1>2. CASE c \notin CardsOf(slots[w])
  <2>1. inventory[c] = <<w, i>>
    BY <1>2, SyncedCard
  <2>2. \A k \in DOMAIN slots[w] : slots[w][k] # c
    BY <1>2 DEF CardsOf
  <2> QED
    BY <2>1, <2>2 DEF Collides
<1> QED
  BY <1>1, <1>2

\* It takes cards away from other hosts and brings them none.
LEMMA SyncedElsewhere ==
    ASSUME TypeOK, NEW w \in Workers, NEW v \in Workers, v # w,
           NEW c \in Cards, NEW i, Synced(w)[c] = <<v, i>>
    PROVE  inventory[c] = <<v, i>>
BY SyncedCard

\* A heartbeat, recorded or rolled back, of a worker whose process lives afterwards.
LEMMA RecordKeeps ==
    ASSUME IInv, NEW w \in Workers, Record(w, Online), slots' = slots,
           \A v \in Workers \ {w} : process'[v] = process[v]
    PROVE  /\ row' \in [Workers -> [status : {"ABSENT", "ONLINE", "OFFLINE"}, recent : BOOLEAN]]
           /\ recorded' \in [Workers -> BOOLEAN]
           /\ inventory' \in [Cards -> (Workers \X Nat) \cup {Nowhere}]
           /\ InventoryIsTrue'
<1>1. CASE /\ ~Collides(w) /\ row' = [row EXCEPT ![w] = Online]
           /\ inventory' = Synced(w) /\ recorded' = [recorded EXCEPT ![w] = TRUE]
  <2>1. InventoryIsTrue'
    <3> SUFFICES ASSUME NEW v \in Workers, recorded'[v] /\ process'[v] # "down",
                        NEW c \in Cards, NEW i \in DOMAIN slots[v], inventory'[c] = <<v, i>>
                 PROVE  slots[v][i] = c
      BY DEF InventoryIsTrue
    <3>1. CASE v = w
      BY <1>1, <3>1, SyncedIsTrue DEF IInv
    <3>2. CASE v # w
      <4>1. inventory[c] = <<v, i>>
        BY <1>1, <3>2, SyncedElsewhere DEF IInv
      <4> QED
        BY <1>1, <3>2, <4>1 DEF IInv, TypeOK, InventoryIsTrue
    <3> QED
      BY <3>1, <3>2
  <2> QED
    BY <1>1, <2>1, SyncedType DEF IInv, TypeOK, Online
<1>2. CASE recorded' = [recorded EXCEPT ![w] = FALSE] /\ UNCHANGED <<row, inventory>>
  BY <1>2 DEF IInv, TypeOK, InventoryIsTrue
<1> QED
  BY <1>1, <1>2 DEF Record

-----------------------------------------------------------------------------
(* Initially *)

LEMMA InitHolds ==
    ASSUME Init
    PROVE  IInv
<1>1. TypeOK
  BY RegistryAssumption DEF Init, TypeOK, NotStarted
<1>2. InventoryIsTrue
  BY DEF Init, InventoryIsTrue
<1>3. IdleIsBlank
  BY DEF Init, IdleIsBlank, NotStarted
<1> QED
  BY <1>1, <1>2, <1>3 DEF IInv

-----------------------------------------------------------------------------
(* Steps of a worker *)

\* Executions that lose their process become idle ones, or running ones that use nothing.
LEMMA AbandonedKeeps ==
    ASSUME IInv, NEW w \in Workers, NEW shown \in BOOLEAN, executions' = Abandoned(w, shown)
    PROVE  /\ executions' \in [Executions -> [status : {"NEW", "RUNNING", "OVER"}, worker : Workers \cup {"none"},
                                            alive : BOOLEAN, uses : SUBSET Cards, shown : SUBSET Cards]]
           /\ \A x \in Executions : ~executions'[x].alive => executions'[x].uses = {}
           /\ IdleIsBlank'
<1> SUFFICES ASSUME NEW x \in Executions
             PROVE  /\ executions'[x] \in [status : {"NEW", "RUNNING", "OVER"}, worker : Workers \cup {"none"},
                                           alive : BOOLEAN, uses : SUBSET Cards, shown : SUBSET Cards]
                    /\ ~executions'[x].alive => executions'[x].uses = {}
                    /\ executions'[x].status # "RUNNING" => ~executions'[x].alive /\ executions'[x].shown = {}
  BY DEF Abandoned, IdleIsBlank
<1> QED
  BY DEF Abandoned, IInv, TypeOK, IdleIsBlank

LEMMA StartKeeps ==
    ASSUME IInv, NEW w \in Workers, Start(w)
    PROVE  IInv'
<1>1. \A v \in Workers \ {w} : process'[v] = process[v]
  BY DEF Start, IInv, TypeOK
<1>2. TypeOK'
  BY <1>1, RecordKeeps DEF Start, IInv, TypeOK
<1>3. InventoryIsTrue'
  BY <1>1, RecordKeeps DEF Start
<1>4. IdleIsBlank'
  BY DEF Start, IInv, IdleIsBlank
<1> QED
  BY <1>2, <1>3, <1>4 DEF IInv

LEMMA StartUnregisteredKeeps ==
    ASSUME IInv, NEW w \in Workers, StartUnregistered(w)
    PROVE  IInv'
<1>1. TypeOK'
  BY DEF StartUnregistered, IInv, TypeOK
<1>2. InventoryIsTrue'
  BY DEF StartUnregistered, IInv, TypeOK, InventoryIsTrue
<1>3. IdleIsBlank'
  BY DEF StartUnregistered, IInv, IdleIsBlank
<1> QED
  BY <1>1, <1>2, <1>3 DEF IInv

LEMMA BeatKeeps ==
    ASSUME IInv, NEW w \in Workers, Beat(w)
    PROVE  IInv'
<1>1. TypeOK'
  BY RecordKeeps DEF Beat, IInv, TypeOK
<1>2. InventoryIsTrue'
  BY RecordKeeps DEF Beat
<1>3. IdleIsBlank'
  BY DEF Beat, IInv, IdleIsBlank
<1> QED
  BY <1>1, <1>2, <1>3 DEF IInv

LEMMA BeatFailsKeeps ==
    ASSUME IInv, NEW w \in Workers, BeatFails(w)
    PROVE  IInv'
<1>1. TypeOK'
  BY DEF BeatFails, IInv, TypeOK
<1>2. InventoryIsTrue'
  BY DEF BeatFails, IInv, TypeOK, InventoryIsTrue
<1>3. IdleIsBlank'
  BY DEF BeatFails, IInv, IdleIsBlank
<1> QED
  BY <1>1, <1>2, <1>3 DEF IInv

LEMMA RestartKeeps ==
    ASSUME IInv, NEW w \in Workers, Restart(w)
    PROVE  IInv'
<1>1. PICK shown \in BOOLEAN : executions' = Abandoned(w, shown)
  BY DEF Restart
<1>2. TypeOK'
  BY <1>1, AbandonedKeeps DEF Restart, IInv, TypeOK
<1>3. InventoryIsTrue'
  BY DEF Restart, IInv, InventoryIsTrue
<1>4. IdleIsBlank'
  BY <1>1, AbandonedKeeps
<1> QED
  BY <1>2, <1>3, <1>4 DEF IInv

LEMMA StopKeeps ==
    ASSUME IInv, NEW w \in Workers, Stop(w)
    PROVE  IInv'
<1>1. PICK shown \in BOOLEAN : executions' = Abandoned(w, shown)
  BY DEF Stop
<1>2. TypeOK'
  <2>1. row' \in [Workers -> [status : {"ABSENT", "ONLINE", "OFFLINE"}, recent : BOOLEAN]]
    BY DEF Stop, IInv, TypeOK
  <2> QED
    BY <1>1, <2>1, AbandonedKeeps DEF Stop, IInv, TypeOK
<1>3. InventoryIsTrue'
  BY DEF Stop, IInv, TypeOK, InventoryIsTrue
<1>4. IdleIsBlank'
  BY <1>1, AbandonedKeeps
<1> QED
  BY <1>2, <1>3, <1>4 DEF IInv

LEMMA ExitKeeps ==
    ASSUME IInv, NEW w \in Workers, Exit(w)
    PROVE  IInv'
<1>1. TypeOK'
  BY DEF Exit, IInv, TypeOK
<1>2. InventoryIsTrue'
  BY DEF Exit, IInv, TypeOK, InventoryIsTrue
<1>3. IdleIsBlank'
  BY DEF Exit, IInv, IdleIsBlank
<1> QED
  BY <1>1, <1>2, <1>3 DEF IInv

LEMMA CrashKeeps ==
    ASSUME IInv, NEW w \in Workers, Crash(w)
    PROVE  IInv'
<1>1. executions' = Abandoned(w, TRUE)
  BY DEF Crash
<1>2. TypeOK'
  BY <1>1, AbandonedKeeps DEF Crash, IInv, TypeOK
<1>3. InventoryIsTrue'
  BY DEF Crash, IInv, TypeOK, InventoryIsTrue
<1>4. IdleIsBlank'
  BY <1>1, AbandonedKeeps
<1> QED
  BY <1>2, <1>3, <1>4 DEF IInv

-----------------------------------------------------------------------------
(* Steps of the machine, of the scheduler and of an execution *)

\* Hosts whose cards change are off, and what was recorded of them counts no more.
LEMMA ChangeCardsKeeps ==
    ASSUME IInv, ChangeCards
    PROVE  IInv'
<1>1. TypeOK'
  BY RegistryAssumption DEF ChangeCards, IInv, TypeOK
<1>2. InventoryIsTrue'
  BY DEF ChangeCards, IInv, InventoryIsTrue
<1>3. IdleIsBlank'
  BY DEF ChangeCards, IInv, IdleIsBlank
<1> QED
  BY <1>1, <1>2, <1>3 DEF IInv

LEMMA AgeKeeps ==
    ASSUME IInv, NEW w \in Workers, Age(w)
    PROVE  IInv'
<1>1. TypeOK'
  BY DEF Age, IInv, TypeOK
<1> QED
  BY <1>1 DEF Age, IInv, InventoryIsTrue, IdleIsBlank

LEMMA MarkOfflineKeeps ==
    ASSUME IInv, NEW w \in Workers, MarkOffline(w)
    PROVE  IInv'
<1>1. TypeOK'
  BY DEF MarkOffline, IInv, TypeOK
<1> QED
  BY <1>1 DEF MarkOffline, IInv, InventoryIsTrue, IdleIsBlank

\* A reconciled execution, and one that releases its cards, are over.
LEMMA OverKeeps ==
    ASSUME IInv, NEW x \in Executions, executions' = [executions EXCEPT ![x] = Over],
           UNCHANGED <<process, slots, changes, row, recorded, inventory>>
    PROVE  IInv'
<1>1. TypeOK'
  BY DEF IInv, TypeOK, Over, NotStarted
<1>2. InventoryIsTrue'
  BY DEF IInv, InventoryIsTrue
<1>3. IdleIsBlank'
  BY DEF IInv, TypeOK, IdleIsBlank, Over, NotStarted
<1> QED
  BY <1>1, <1>2, <1>3 DEF IInv

LEMMA WorkKeeps ==
    ASSUME IInv, NEW x \in Executions, NEW w \in Workers, NEW P \in SUBSET DOMAIN slots[w], Work(x, w, P)
    PROVE  IInv'
<1>1. PICK rows \in {Listed(w, P), {}} :
         executions' = [executions EXCEPT ![x] =
              [status |-> "RUNNING", worker |-> w, alive |-> TRUE,
               uses |-> {slots[w][i] : i \in P}, shown |-> rows]]
  BY DEF Work
<1>2. rows \subseteq Cards /\ {slots[w][i] : i \in P} \subseteq Cards
  BY LayoutType DEF Listed, IInv, TypeOK
<1>3. TypeOK'
  BY <1>1, <1>2 DEF Work, IInv, TypeOK
<1>4. InventoryIsTrue'
  BY DEF Work, IInv, InventoryIsTrue
<1>5. IdleIsBlank'
  BY <1>1 DEF IInv, TypeOK, IdleIsBlank
<1> QED
  BY <1>3, <1>4, <1>5 DEF IInv

LEMMA StepKeeps ==
    ASSUME IInv, [Next]_vars
    PROVE  IInv'
<1>1. CASE ChangeCards
  BY <1>1, ChangeCardsKeeps
<1>2. ASSUME NEW w \in Workers, Start(w)
      PROVE  IInv'
  BY <1>2, StartKeeps
<1>3. ASSUME NEW w \in Workers, StartUnregistered(w)
      PROVE  IInv'
  BY <1>3, StartUnregisteredKeeps
<1>4. ASSUME NEW w \in Workers, Beat(w)
      PROVE  IInv'
  BY <1>4, BeatKeeps
<1>5. ASSUME NEW w \in Workers, BeatFails(w)
      PROVE  IInv'
  BY <1>5, BeatFailsKeeps
<1>6. ASSUME NEW w \in Workers, Restart(w)
      PROVE  IInv'
  BY <1>6, RestartKeeps
<1>7. ASSUME NEW w \in Workers, Stop(w)
      PROVE  IInv'
  BY <1>7, StopKeeps
<1>8. ASSUME NEW w \in Workers, Exit(w)
      PROVE  IInv'
  BY <1>8, ExitKeeps
<1>9. ASSUME NEW w \in Workers, Crash(w)
      PROVE  IInv'
  BY <1>9, CrashKeeps
<1>10. ASSUME NEW w \in Workers, Age(w)
       PROVE  IInv'
  BY <1>10, AgeKeeps
<1>11. ASSUME NEW w \in Workers, MarkOffline(w)
       PROVE  IInv'
  BY <1>11, MarkOfflineKeeps
<1>12. ASSUME NEW x \in Executions, Lose(x) \/ Release(x)
       PROVE  IInv'
  BY <1>12, OverKeeps DEF Lose, Release
<1>13. ASSUME NEW x \in Executions, NEW w \in Workers, NEW P \in SUBSET DOMAIN slots[w], Work(x, w, P)
       PROVE  IInv'
  BY <1>13, WorkKeeps
<1>14. CASE UNCHANGED vars
  BY <1>14 DEF vars, IInv, TypeOK, InventoryIsTrue, IdleIsBlank
<1> QED
  BY <1>1, <1>2, <1>3, <1>4, <1>5, <1>6, <1>7, <1>8, <1>9, <1>10, <1>11, <1>12, <1>13, <1>14 DEF Next

-----------------------------------------------------------------------------
(* Theorems *)

\* The inductive invariant holds of every state.
THEOREM Invariant == Spec => []IInv
BY InitHolds, StepKeeps, PTL DEF Spec

\* Every variable keeps to its domain, and who is not at work uses no card.
THEOREM TypeCorrect == Spec => []TypeOK
<1>1. IInv => TypeOK
  BY DEF IInv
<1> QED
  BY <1>1, Invariant, PTL

\* A heartbeat that was recorded makes the inventory true of its host for as long as the process lives.
THEOREM RecordedIsTrue == Spec => []InventoryIsTrue
<1>1. IInv => InventoryIsTrue
  BY DEF IInv
<1> QED
  BY <1>1, Invariant, PTL

\* What an execution begins to show as busy is among what it works on, if the last heartbeat
\* of its worker was recorded.
LEMMA WorkIsTrue ==
    ASSUME IInv, NEW x \in Executions, NEW w \in Workers, NEW P \in SUBSET DOMAIN slots[w], Work(x, w, P),
           recorded[w], NEW c \in Cards, Busy(x, c)'
    PROVE  c \in executions'[x].uses
<1>1. PICK rows \in {Listed(w, P), {}} :
         executions' = [executions EXCEPT ![x] =
              [status |-> "RUNNING", worker |-> w, alive |-> TRUE,
               uses |-> {slots[w][i] : i \in P}, shown |-> rows]]
  BY DEF Work
<1>2. executions'[x].shown = rows /\ executions'[x].uses = {slots[w][i] : i \in P}
  BY <1>1 DEF IInv, TypeOK
<1>3. c \in Listed(w, P)
  BY <1>1, <1>2 DEF Busy
<1>4. PICK i \in P : inventory[c] = <<w, i>>
  BY <1>3 DEF Listed
<1>5. slots[w][i] = c
  BY <1>4 DEF IInv, InventoryIsTrue, Work
<1> QED
  BY <1>2, <1>4, <1>5

\* No other step gives a card to an execution that has not begun.
LEMMA OnlyWorkBegins ==
    ASSUME IInv, [Next]_vars, NEW x \in Executions, executions[x].status = "NEW", NEW c \in Cards, Busy(x, c)'
    PROVE  \E w \in Workers : \E P \in SUBSET DOMAIN slots[w] : Work(x, w, P)
<1>1. executions'[x].status = "RUNNING"
  BY DEF Busy
<1>2. ASSUME NEW w \in Workers, NEW shown \in BOOLEAN, executions' = Abandoned(w, shown)
      PROVE  FALSE
  BY <1>1, <1>2 DEF Abandoned, IInv, IdleIsBlank, TypeOK
<1>3. ASSUME executions' = executions
      PROVE  FALSE
  BY <1>1, <1>3
<1>4. ASSUME NEW y \in Executions, executions' = [executions EXCEPT ![y] = Over]
      PROVE  FALSE
  BY <1>1, <1>4 DEF IInv, TypeOK, Over
<1>5. ASSUME NEW y \in Executions, NEW w \in Workers, NEW P \in SUBSET DOMAIN slots[w], Work(y, w, P)
      PROVE  y = x
  BY <1>1, <1>5 DEF Work, IInv, TypeOK
<1>6. ASSUME NEW w \in Workers,
             \/ Start(w) \/ StartUnregistered(w) \/ Beat(w) \/ BeatFails(w)
             \/ Restart(w) \/ Stop(w) \/ Exit(w) \/ Crash(w) \/ Age(w) \/ MarkOffline(w)
      PROVE  FALSE
  BY <1>2, <1>3, <1>6 DEF Start, StartUnregistered, Beat, BeatFails, Restart, Stop, Exit, Crash, Age, MarkOffline
<1>7. ASSUME NEW y \in Executions, Lose(y) \/ Release(y)
      PROVE  FALSE
  BY <1>4, <1>7 DEF Lose, Release
<1>8. ASSUME ChangeCards \/ UNCHANGED vars
      PROVE  FALSE
  BY <1>3, <1>8 DEF ChangeCards, vars
<1> QED
  BY <1>5, <1>6, <1>7, <1>8 DEF Next

\* A card that is shown as busy when work begins is one the work is done on.
THEOREM AttributionProved == Spec => AttributionIsTrue
<1>1. ASSUME IInv, [Next]_vars
      PROVE  \A x \in Executions, w \in Workers :
                executions[x].status = "NEW" /\ executions'[x].worker = w /\ recorded[w] =>
                    \A c \in Cards : Busy(x, c)' => c \in executions'[x].uses
  <2> SUFFICES ASSUME NEW x \in Executions, NEW w \in Workers, executions[x].status = "NEW",
                      executions'[x].worker = w, recorded[w], NEW c \in Cards, Busy(x, c)'
               PROVE  c \in executions'[x].uses
    OBVIOUS
  <2>1. PICK v \in Workers : \E P \in SUBSET DOMAIN slots[v] : Work(x, v, P)
    BY <1>1, OnlyWorkBegins
  <2>2. PICK P \in SUBSET DOMAIN slots[v] : Work(x, v, P)
    BY <2>1
  <2>3. v = w
    BY <1>1, <2>2 DEF Work, IInv, TypeOK
  <2> QED
    BY <1>1, <2>2, <2>3, WorkIsTrue
<1> QED
  BY <1>1, Invariant, PTL DEF Spec, AttributionIsTrue
=============================================================================
