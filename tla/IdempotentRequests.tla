-------------------------- MODULE IdempotentRequests --------------------------
(***************************************************************************)
(* Requests that passed the guard and carry an Idempotency-Key: the        *)
(* interceptor reserves the key, runs the handler, then stores its answer  *)
(* or frees the key.  Each is a statement of its own, and the process may  *)
(* die between any two.                                                    *)
(***************************************************************************)
EXTENDS Accounts

CONSTANT Keys

VARIABLES
    keys,      \* idempotency_keys: no row, a row without a response, one with it
    answered   \* handler runs whose answer was given, by key

keyVars == <<keys, answered>>
vars == <<accountVars, keyVars>>

At(r, where) == requests[r].at = where
OthersUnchanged == UNCHANGED <<users, sessions, cache, logins, evicted>>

\* Mutant of Reserve: looks for a response first and writes the row if there is none.
ReserveUnanswered(r, k) ==
    /\ At(r, "accepted")
    /\ IF keys[k] # "answered"
       THEN /\ keys' = [keys EXCEPT ![k] = "reserved"]
            /\ requests' = [requests EXCEPT ![r] = [Idle EXCEPT !.at = "handling", !.key = k]]
       ELSE End(r) /\ UNCHANGED keys
    /\ UNCHANGED answered /\ OthersUnchanged

\* The INSERT of reserve.  If there is a row already it is read and its response replayed,
\* or the request refused (409: no response yet, or the row of another user or request).
Reserve(r, k) ==
    /\ At(r, "accepted")
    /\ IF keys[k] = "free"
       THEN /\ keys' = [keys EXCEPT ![k] = "reserved"]
            /\ requests' = [requests EXCEPT ![r] = [Idle EXCEPT !.at = "handling", !.key = k]]
       ELSE End(r) /\ UNCHANGED keys
    /\ UNCHANGED answered /\ OthersUnchanged

\* The handler has returned: persist; its errors are swallowed and the answer is given all the same.
Persist(r) ==
    LET k == requests[r].key IN
    /\ At(r, "handling")
    /\ \/ keys' = [keys EXCEPT ![k] = IF @ = "reserved" THEN "answered" ELSE @]
       \/ UNCHANGED keys
    /\ answered' = [answered EXCEPT ![k] = @ + 1]
    /\ End(r) /\ OthersUnchanged

\* The handler has thrown: release, a DELETE while there is no response; its errors are swallowed too.
Release(r) ==
    LET k == requests[r].key IN
    /\ At(r, "handling")
    /\ \/ keys' = [keys EXCEPT ![k] = IF @ = "reserved" THEN "free" ELSE @]
       \/ UNCHANGED keys
    /\ End(r)
    /\ UNCHANGED answered /\ OthersUnchanged

\* The API dies with the requests and logins under way.
Crash ==
    /\ \E r \in Requests : requests[r] # Idle
    /\ requests' = [r \in Requests |-> Idle]
    /\ logins' = [t \in Tokens |-> IF logins[t].at = "done" THEN logins[t] ELSE NoLogin]
    /\ UNCHANGED <<users, sessions, cache, evicted, keyVars>>

Init ==
    /\ AccountInit
    /\ keys = [k \in Keys |-> "free"] /\ answered = [k \in Keys |-> 0]

Next ==
    \/ AccountNext /\ UNCHANGED keyVars
    \/ Crash
    \/ \E r \in Requests :
          \/ \E k \in Keys : Reserve(r, k)
          \/ Persist(r) \/ Release(r)

Spec == Init /\ [][Next]_vars

\* However often a request with one key is sent, concurrently or after crashes, errors,
\* and responses and releases that were not written: the answer of at most one run of its
\* handler is ever given, so no client takes two effects for one.
AnsweredOnce == \A k \in Keys : answered[k] <= 1
=============================================================================
