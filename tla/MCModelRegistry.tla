-------------------------- MODULE MCModelRegistry --------------------------
(* Names for TLC: two names with one slug, two types with one Model Root. *)
EXTENDS ModelRegistry, TLC

CONSTANTS d1, d2, n1, n2, x1, t1, t2, j1, w1, c1

OneRoot == [d \in Types |-> "root"]
OneSlug == [a \in Asked |-> "slug"]

Alike == Permutations(Asked) \cup Permutations(Tasks) \cup Permutations(Types)

Registered == {n \in Names : models[n].status # "NONE"}
Ingests == {t \in Tasks : tasks[t].status # "NONE"}
Stored == {j \in Trainings : trainings[j].phase # "none"}
Scanning == {w \in Walks : walks[w].phase # "idle"}
Converted == {c \in Conversions : conversions[c].model # <<>>}

AtWork == Cardinality(Ingests) + Cardinality(Stored) + Cardinality(Scanning) + Cardinality(Converted)

Meant == {tasks[t].name : t \in Ingests} \cup {trainings[j].name : j \in Stored}
TypesMeant == {n[1] : n \in Meant \cup Registered} \cup {walks[w].type : w \in Scanning}

\* Bound: any two of the ingests, trainings, scans and conversions, or any three of
\* different kinds for one name of one type; two models.
Few ==
    /\ Cardinality(Registered) <= 2
    /\ \/ AtWork <= 2
       \/ AtWork <= 3 /\ Cardinality(Ingests) <= 1 /\ Cardinality(Meant) <= 1 /\ Cardinality(TypesMeant) <= 1
=============================================================================
