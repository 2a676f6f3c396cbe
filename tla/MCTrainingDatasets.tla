------------------------- MODULE MCTrainingDatasets -------------------------
(* Names for TLC; which source is which makes no difference to safety. *)
EXTENDS TrainingDatasets, TLC

CONSTANTS s1, s2, w1, w2

Symmetry == Permutations(Sources)

\* Bounds of TrainingDatasets_safe: scans and builds together, and walks of the
\* index as long as there is one source.
WorkBound ==
    /\ Len(scans[s1]) + Len(scans[s2]) + Len(builds) <= 3
    /\ scans[s1] = <<>> \/ scans[s2] = <<>> \/ reindex = "NONE"
=============================================================================
