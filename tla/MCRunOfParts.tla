---------------------------- MODULE MCRunOfParts ----------------------------
(* Names for TLC.  Which part is which makes no difference to safety. *)
EXTENDS Runs, TLC

CONSTANTS p1, p2, p3

Symmetry == Permutations(Parts)
=============================================================================
