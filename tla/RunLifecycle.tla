---------------------------- MODULE RunLifecycle ----------------------------
(***************************************************************************)
(* What the platform promises of a run and its parts, as if every ending   *)
(* of a part were one step: whoever finds no part left says how the run    *)
(* went, and says the truth.  There are no executions, no processes and no *)
(* transactions.                                                           *)
(***************************************************************************)

CONSTANT Parts

VARIABLES
    run,    \* status of the run
    part    \* status of each part

vars == <<run, part>>

Over == {"COMPLETED", "PARTIALLY_FAILED", "FAILED", "STOPPED", "CANCELLED"}

Ended == {"COMPLETED", "FAILED", "STOPPED", "CANCELLED"}

Init ==
    /\ run = "QUEUED"
    /\ part = [p \in Parts |-> "QUEUED"]

\* How the run went, once none of its parts was stopped.
Outcome(ps) ==
    IF \A p \in Parts : ps[p] = "COMPLETED" THEN "COMPLETED"
    ELSE IF \E p \in Parts : ps[p] = "COMPLETED" THEN "PARTIALLY_FAILED"
    ELSE "FAILED"

\* The run goes on, or is over with its last part.  It is STOPPED only when asked to stop, and
\* then also if the parts have failed since they stopped.
GoOnOrFinish ==
    \/ run' = run
    \/ /\ \A p \in Parts : part'[p] \in Ended
       /\ \/ run = "STOPPING" /\ run' = "STOPPED"
          \/ /\ run \in {"RUNNING", "STOPPING"}
             /\ \A p \in Parts : part'[p] \in {"COMPLETED", "FAILED"}
             /\ run' = Outcome(part')

Begin(p) ==
    /\ run \in {"QUEUED", "RUNNING"}
    /\ part[p] = "QUEUED"
    /\ part' = [part EXCEPT ![p] = "RUNNING"]
    /\ run' = "RUNNING"

\* A part completes only from RUNNING and stops only when asked to; failure is possible until
\* it has completed or was cancelled.
End(p) ==
    /\ \/ part[p] = "RUNNING" /\ part' = [part EXCEPT ![p] = "COMPLETED"]
       \/ part[p] = "STOPPING" /\ part' = [part EXCEPT ![p] = "STOPPED"]
       \/ part[p] \notin {"COMPLETED", "CANCELLED"} /\ part' = [part EXCEPT ![p] = "FAILED"]
    /\ GoOnOrFinish

\* The one who ended the last part was not the one to say so.
Finish ==
    /\ part' = part
    /\ GoOnOrFinish

Stop ==
    /\ run = "RUNNING"
    /\ run' = "STOPPING"
    /\ part' = [p \in Parts |-> IF part[p] \in Ended THEN part[p] ELSE "STOPPING"]

Abandon(status) ==
    /\ run' = status
    /\ part' = [p \in Parts |-> IF part[p] \in Ended THEN part[p] ELSE "CANCELLED"]

Cancel == run = "QUEUED" /\ Abandon("CANCELLED")

Delete == run \in Over \cup {"QUEUED"} /\ Abandon("DELETED")

\* At least what did not complete is done again, and nothing else is left over.
Retry ==
    /\ run \in Over
    /\ run' = "QUEUED"
    /\ \E D \in SUBSET Parts :
          /\ \A p \in Parts \ D : part[p] = "COMPLETED"
          /\ part' = [p \in Parts |-> IF p \in D THEN "QUEUED" ELSE part[p]]

Next ==
    \/ Finish \/ Stop \/ Cancel \/ Delete \/ Retry
    \/ \E p \in Parts : Begin(p) \/ End(p)

Spec == Init /\ [][Next]_vars
=============================================================================
