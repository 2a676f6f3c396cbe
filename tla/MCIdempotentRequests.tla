------------------------- MODULE MCIdempotentRequests -------------------------
(* TLC instance of IdempotentRequests: interchangeable requests and tokens. *)
EXTENDS IdempotentRequests, TLC

CONSTANTS ann, bob, r1, r2, t1, t2

Symmetry == Permutations(Requests) \cup Permutations(Tokens)

\* Bound of IdempotentRequests_access: keys are used while Redis has every copy.
KeysBound == evicted => \A k \in Keys : keys[k] = "free" /\ answered[k] = 0
=============================================================================
