----------------------------- MODULE MCDispatch -----------------------------
(* Two workers of one group for TLC. *)
EXTENDS Dispatch, TLC

CONSTANTS w1, w2

\* The workers of a group are interchangeable; used where only safety is checked.
Symmetry == Permutations({w1, w2})
=============================================================================
