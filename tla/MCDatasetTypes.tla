--------------------------- MODULE MCDatasetTypes ---------------------------
(* Three types for TLC: roots one inside the other, and beside it. *)
EXTENDS DatasetTypes

MCRoots == {<<"data">>, <<"data", "old">>, <<"spare">>}
=============================================================================
