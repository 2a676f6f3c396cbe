-------------------------- MODULE MCDatasetContent --------------------------
(* Small folders for TLC: two stems, the rows that lie at the limits, boxes that compete. *)
EXTENDS InferenceDiffs, TLC

AsRow(c, xs, f) == [cls |-> c, coords |-> xs, finite |-> TRUE, conf |-> f, plain |-> TRUE]

\* Its class is written as +1.
Signed == [AsRow(1, <<5, 5, 4, 4>>, "none") EXCEPT !.plain = FALSE]

DetectRows == {
    AsRow(0, <<5, 5, 4, 4>>, "none"),
    AsRow(1, <<11, 5, 4, 4>>, "good"),
    AsRow(0, <<5, 5, 0, 4>>, "none"),
    AsRow(2, <<12, 5, 4, 4>>, "none"),
    AsRow(1, <<1, 1, 3, 1, 3, 3, 1, 3>>, "none"),
    Signed}

ObbRows == {
    AsRow(0, <<1, 1, 3, 1, 3, 3, 1, 3>>, "none"),
    AsRow(0, <<-1, 1, 0, 1, 0, 3, -1, 3>>, "none"),
    AsRow(1, <<1, 1, 3, 3, 1, 3, 3, 1>>, "good"),
    AsRow(0, <<1, 1, 3, 3, 5, 5, 7, 7>>, "none"),
    AsRow(0, <<5, 5, 4, 4>>, "none")}

LabelsOf(rows) ==
    {[readable |-> TRUE, rows |-> <<r>>] : r \in rows}
        \cup {[readable |-> TRUE, rows |-> <<>>],
             [readable |-> FALSE, rows |-> <<AsRow(1, <<5, 5, 4, 4>>, "none")>>]}

MCClassFiles == {
    [state |-> "unset", names |-> <<>>],
    [state |-> "invalid", names |-> <<>>],
    [state |-> "list", names |-> <<"x", "y">>]}

\* Two boxes that overlap each other, and both what lies between them.
Crowded == [readable |-> TRUE, rows |-> <<AsRow(0, <<3, 5, 4, 4>>, "none"), AsRow(1, <<6, 5, 4, 4>>, "none")>>]

MCPredicted == {
    <<>>,
    <<AsRow(0, <<5, 5, 4, 4>>, "none")>>,
    <<AsRow(1, <<4, 5, 4, 4>>, "none"), AsRow(1, <<6, 5, 4, 4>>, "none"), AsRow(0, <<3, 5, 4, 4>>, "none")>>}

MCLabels == [DETECT |-> LabelsOf(DetectRows) \cup {Crowded}, OBB |-> LabelsOf(ObbRows)]
MCOverrides == {<<>>, <<"x">>, <<"x", "y">>}
MCRatios == <<5, 3, 2>>
StemSymmetry == Permutations(Stems)
MCFallbacks == {<<>>, <<"x">>}
=============================================================================
