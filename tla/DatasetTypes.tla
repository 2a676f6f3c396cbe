----------------------------- MODULE DatasetTypes -----------------------------
(***************************************************************************)
(* The tree of dataset types, edited by administrators, exported and       *)
(* imported.  An edit reads what it must and then writes; between the two, *)
(* under READ COMMITTED, only the row it has locked stays as it is.  Roots *)
(* are sequences of directory names.  No type is_system: the one that was  *)
(* seeded is gone, and the API makes none.                                 *)
(***************************************************************************)
EXTENDS Integers, FiniteSets, SequencesExt

CONSTANTS
    Types,          \* ids
    Names, Roots,   \* names, dataset paths and model paths an administrator may choose
    Admins,         \* administrators, each with one edit at a time
    MaxDepth,       \* dataset_type_max_depth
    MaxVersion      \* bound: how often a row is written

VARIABLES
    types,      \* dataset_types: the rows there are
    contents,   \* what references a type: live source datasets, archived datasets, and what
                \* else keeps it ("held"): live training datasets, models, ingest tasks, and
                \* archived datasets that jobs or evaluations refer to
    forms,      \* the row an administrator has before them: its id and row_version
    edits,      \* the edit an administrator has under way
    backup      \* the exported file, <<>> without one

vars == <<types, contents, forms, edits, backup>>

Absent == <<>>
Existing == DOMAIN types
NoEdit == [op |-> "none"]

-----------------------------------------------------------------------------
(* dataset-types-tree.service.ts: recursive queries along parent_id *)

Parent(t) == IF t \in Existing THEN types[t].parent ELSE "none"

\* The n-th ancestor of t, "none" above a root.
Ancestor(t, n) ==
    LET up[k \in 0 .. n] == IF k = 0 THEN t ELSE Parent(up[k - 1]) IN up[n]

Ancestors(t) == {Ancestor(t, n) : n \in 0 .. Cardinality(Types)} \ {"none"}

\* WITH RECURSIVE ... UNION ALL ends.
Ends(t) == Ancestor(t, Cardinality(Types)) = "none"

\* The loops of buildTree end: at a root, or at a type that is disabled.
TreeBuilds == \A t \in Existing : Ends(t) \/ \E a \in Ancestors(t) : ~types[a].enabled

DepthOf(t) == Cardinality(Ancestors(t)) - 1

EffectiveEnabled(t) == \A a \in Ancestors(t) : types[a].enabled

Children(t) == {c \in Existing : types[c].parent = t}

-----------------------------------------------------------------------------
(* Rules of an edit *)

\* findExists: SELECT ... FOR UPDATE of one row.
Locked(t) == \E a \in Admins : edits[a].op \in {"update", "move"} /\ edits[a].type = t

\* Foreign keys lock the parent's row for share, which waits for that lock.
ParentFree(p) == p # "none" => p \in Existing /\ ~Locked(p)

\* uq_dataset_type_child_name and uq_dataset_type_root_name.
NameFree(p, n, except) ==
    \A t \in Existing \ except : ~(types[t].parent = p /\ types[t].name = n)

\* rootRelation: the same, inside or containing.
Overlap(r1, r2) == IsPrefix(r1, r2) \/ IsPrefix(r2, r1)

\* assertModelRootNotNested
ModelRootFree(r, except) ==
    \A t \in Existing \ except : ~Overlap(r, types[t].model_path)

\* create and move: the parent exists and is enabled, and the depth is allowed.
ParentAccepted(p) ==
    p # "none" => /\ p \in Existing /\ Ends(p) /\ EffectiveEnabled(p)
                  /\ DepthOf(p) + 2 <= MaxDepth

Written(row) == [row EXCEPT !.row_version = @ + 1]

Begin(a, edit) ==
    /\ edits[a] = NoEdit
    /\ edits' = [edits EXCEPT ![a] = edit]
    /\ UNCHANGED <<types, contents, forms, backup>>

\* The transaction commits, or a constraint refuses it and it is rolled back.
Finish(a) == edits' = [edits EXCEPT ![a] = NoEdit] /\ UNCHANGED <<contents, forms, backup>>

-----------------------------------------------------------------------------
(* dataset-types.service.ts *)

BeginCreate(a, p, n, d, m) ==
    /\ ParentAccepted(p)
    /\ NameFree(p, n, {}) /\ ModelRootFree(m, {})
    /\ Begin(a, [op |-> "create",
                 row |-> [name |-> n, parent |-> p, enabled |-> TRUE,
                          dataset_path |-> d, model_path |-> m, row_version |-> 1]])

CommitCreate(a) ==
    /\ edits[a].op = "create"
    /\ LET row == edits[a].row IN
       \/ /\ ParentFree(row.parent) /\ NameFree(row.parent, row.name, {})
          /\ \E t \in Types \ Existing :
                types' = [x \in Existing \cup {t} |-> IF x = t THEN row ELSE types[x]]
       \/ /\ row.parent \notin Existing \cup {"none"} \/ ~NameFree(row.parent, row.name, {})
          /\ UNCHANGED types
    /\ Finish(a)

\* The page an administrator edits from.
Open(a, t) ==
    /\ t \in Existing /\ edits[a] = NoEdit
    /\ forms' = [forms EXCEPT ![a] = [type |-> t, row_version |-> types[t].row_version]]
    /\ UNCHANGED <<types, contents, edits, backup>>

\* The row is locked, and the form is of the row as it is.
Current(a, t) ==
    /\ t \in Existing /\ ~Locked(t)
    /\ forms[a] = [type |-> t, row_version |-> types[t].row_version]
    /\ types[t].row_version < MaxVersion

\* assertNoRegisteredSources: a type without a dataset_path of its own does not exist.
PathMayChange(t) == "live" \notin contents[t]

BeginUpdate(a, t, n, d, m, enabled) ==
    /\ Current(a, t)
    /\ n # types[t].name => NameFree(types[t].parent, n, {t})
    /\ m # types[t].model_path => ModelRootFree(m, {t})
    /\ d # types[t].dataset_path => PathMayChange(t)
    /\ Begin(a, [op |-> "update", type |-> t,
                 row |-> Written([types[t] EXCEPT !.name = n, !.dataset_path = d, !.model_path = m,
                                                  !.enabled = enabled])])

BeginMove(a, t, p) ==
    /\ Current(a, t)
    /\ ParentAccepted(p)
    /\ Begin(a, [op |-> "move", type |-> t, row |-> Written([types[t] EXCEPT !.parent = p])])

\* The foreign key, chk_dataset_types_no_self_parent and the unique names decide; move
\* answers with the tree as it was.
CommitWrite(a) ==
    /\ edits[a].op \in {"update", "move"}
    /\ edits[a].op = "move" => TreeBuilds
    /\ LET t == edits[a].type  row == edits[a].row
           parentStays == row.parent = types[t].parent
           allowed == row.parent # t /\ NameFree(row.parent, row.name, {t}) IN
       \/ /\ allowed /\ (parentStays \/ ParentFree(row.parent))
          /\ types' = [types EXCEPT ![t] = row]
       \/ /\ ~allowed \/ row.parent \notin Existing \cup {"none"}
          /\ UNCHANGED types
       \/ \* Two moves that wait for each other: PostgreSQL aborts one.
          /\ allowed /\ ~parentStays /\ row.parent \in Existing /\ Locked(row.parent)
          /\ UNCHANGED types
    /\ Finish(a)

SetEnabled(t, enabled) ==
    /\ t \in Existing /\ ~Locked(t) /\ types[t].row_version < MaxVersion
    /\ types' = [types EXCEPT ![t] = Written([@ EXCEPT !.enabled = enabled])]
    /\ UNCHANGED <<contents, forms, edits, backup>>

\* reorder: every type of the list goes under one parent, whatever version was seen.
Reorder(S, p) ==
    /\ TreeBuilds
    /\ S # {} /\ S \subseteq Existing /\ p \notin S /\ ParentFree(p)
    /\ \A t \in S : ~Locked(t) /\ types[t].row_version < MaxVersion
    /\ \A t \in S : \A u \in (Children(p) \cup S) \ {t} : types[u].name # types[t].name
    /\ types' = [t \in Existing |-> IF t \in S THEN Written([types[t] EXCEPT !.parent = p])
                                    ELSE types[t]]
    /\ UNCHANGED <<contents, forms, edits, backup>>

\* delete: no children, nothing live; what is archived and not held goes with it.
Delete(t) ==
    /\ t \in Existing /\ ~Locked(t)
    /\ Children(t) = {}
    /\ contents[t] \subseteq {"archived"}
    /\ types' = [x \in Existing \ {t} |-> types[x]]
    /\ contents' = [contents EXCEPT ![t] = {}]
    /\ UNCHANGED <<forms, edits, backup>>

-----------------------------------------------------------------------------
(* Datasets and models under a type, as other services write them *)

Fill(t) ==
    /\ t \in Existing /\ Ends(t) /\ EffectiveEnabled(t) /\ ~Locked(t)
    /\ \E what \in {"live", "held"} : contents' = [contents EXCEPT ![t] = @ \cup {what}]
    /\ UNCHANGED <<types, forms, edits, backup>>

Archive(t) ==
    /\ \E what \in contents[t] \cap {"live", "held"} : \E to \in {"archived", "held"} :
          contents' = [contents EXCEPT ![t] = (@ \ {what}) \cup {to}]
    /\ UNCHANGED <<types, forms, edits, backup>>

-----------------------------------------------------------------------------
(* backup.service.ts *)

Export ==
    /\ backup' = types
    /\ UNCHANGED <<types, contents, forms, edits>>

\* deleteAllDatasetTypes goes leaves first: what is on a cycle is never a leaf.
Kept == {t \in Existing : \E n \in 1 .. Cardinality(Types) : Ancestor(t, n) = t}

\* insertDatasetTypes can insert the whole file, parents first.
Insertable(rows) ==
    \A t \in DOMAIN rows :
        LET up[k \in 0 .. Cardinality(Types)] ==
                IF k = 0 THEN t
                ELSE IF up[k - 1] = "none" THEN "none" ELSE rows[up[k - 1]].parent
        IN  up[Cardinality(Types)] = "none"

Import ==
    /\ backup # Absent /\ (\A t \in Types : ~Locked(t))
    /\ \A t \in Existing \ Kept : contents[t] = {}
    /\ Insertable(backup) /\ DOMAIN backup \cap Kept = {}
    /\ types' = [t \in Kept \cup DOMAIN backup |->
                    IF t \in Kept THEN types[t] ELSE [backup[t] EXCEPT !.row_version = 1]]
    /\ UNCHANGED <<contents, forms, edits, backup>>

-----------------------------------------------------------------------------
Init ==
    /\ types = Absent
    /\ contents = [t \in Types |-> {}]
    /\ forms = [a \in Admins |-> [type |-> "none", row_version |-> 0]]
    /\ edits = [a \in Admins |-> NoEdit]
    /\ backup = Absent

Parents == Types \cup {"none"}

Next ==
    \/ \E a \in Admins :
          \/ \E p \in Parents, n \in Names, d, m \in Roots : BeginCreate(a, p, n, d, m)
          \/ CommitCreate(a) \/ CommitWrite(a)
          \/ \E t \in Types :
                \/ Open(a, t)
                \/ \E n \in Names, d, m \in Roots, e \in BOOLEAN : BeginUpdate(a, t, n, d, m, e)
                \/ \E p \in Parents : BeginMove(a, t, p)
    \/ \E t \in Types : SetEnabled(t, FALSE) \/ SetEnabled(t, TRUE) \/ Delete(t) \/ Fill(t) \/ Archive(t)
    \/ \E S \in SUBSET Types, p \in Parents : Reorder(S, p)
    \/ Export \/ Import

Spec == Init /\ [][Next]_vars

-----------------------------------------------------------------------------
(* Properties *)

\* "Dataset types form a tree, not a flat list" (USER_MANUAL.md 13.2): whatever edits,
\* moves, reorderings and imports there are, every type hangs below a root.
TypesFormATree == \A t \in Existing : Ends(t)
=============================================================================
