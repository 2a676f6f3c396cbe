-------------------------- MODULE MCWorkerRegistry --------------------------
(* Names for TLC. *)
EXTENDS WorkerRegistry

CONSTANTS left, right, c1, c2, x1
=============================================================================
