------------------------------ MODULE ClaimOnce ------------------------------
(***************************************************************************)
(* What the assignment of executions to workers promises, whatever lies    *)
(* between the transaction that submits one and the worker that runs it:   *)
(* an execution that is offered is taken by one worker or withdrawn, and   *)
(* it is never offered again.                                              *)
(***************************************************************************)
EXTENDS Naturals

CONSTANT Workers

VARIABLES
    submitted,  \* how many executions there are; they are numbered from 1
    offered,    \* those nobody has taken or withdrawn
    holder      \* the execution each worker works on, or 0

vars == <<submitted, offered, holder>>

Init ==
    /\ submitted = 0
    /\ offered = {}
    /\ holder = [w \in Workers |-> 0]

Submit ==
    /\ submitted' = submitted + 1
    /\ offered' = offered \cup {submitted + 1}
    /\ UNCHANGED holder

Take(w, x) ==
    /\ x \in offered
    /\ holder[w] = 0
    /\ offered' = offered \ {x}
    /\ holder' = [holder EXCEPT ![w] = x]
    /\ UNCHANGED submitted

Withdraw(x) ==
    /\ x \in offered
    /\ offered' = offered \ {x}
    /\ UNCHANGED <<submitted, holder>>

\* The worker finished, or died.
Release(w) ==
    /\ holder[w] # 0
    /\ holder' = [holder EXCEPT ![w] = 0]
    /\ UNCHANGED <<submitted, offered>>

Next ==
    \/ Submit
    \/ \E x \in offered : Withdraw(x)
    \/ \E w \in Workers : Release(w) \/ \E x \in offered : Take(w, x)

Spec == Init /\ [][Next]_vars

-----------------------------------------------------------------------------
\* What is held is not on offer, and no two workers hold the same execution.
OneHolder ==
    \A w \in Workers : holder[w] # 0 =>
        /\ holder[w] \in 1 .. submitted
        /\ holder[w] \notin offered
        /\ \A v \in Workers : holder[v] = holder[w] => v = w
=============================================================================
