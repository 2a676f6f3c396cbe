--------------------------- MODULE DatasetContent ---------------------------
(***************************************************************************)
(* What is inside a source dataset's folder, what the scanner makes of it, *)
(* and what the builder then writes.  Coordinates are tenths of the image: *)
(* 0 .. Edge lies on it, Tolerance is how far a box may stick out.  The    *)
(* folder holds the files the walk yields: hidden and temporary files and  *)
(* links are not in it.  A file's size and mtime stand for its content, so *)
(* a content hash is the content.  The suffix of a label's name is not     *)
(* hashed; scanner, API and inferencer each match it in a way of their own.*)
(***************************************************************************)
EXTENDS Integers, FiniteSetsExt, SequencesExt

CONSTANTS
    Stems,       \* the file names, without extension
    Images,      \* what an image file may be: good, corrupt, locked (corrupt, cannot be deleted), twins
    Labels,      \* what a label file may hold, for each task
    ClassFiles,  \* what the classes file may be
    Overrides,   \* the class lists an administrator may set; <<>> for none
    Fallbacks,   \* what may be the most common classes.txt of the type; <<>> for none
    Ratios       \* the splits asked for, in tenths

ASSUME RatiosAssumption == Ratios \in [1 .. 3 -> 0 .. 10] /\ Ratios[1] + Ratios[2] + Ratios[3] = 10

Edge == 10
Tolerance == 1
NoClasses == <<"no", "classes">>

VARIABLES
    task,        \* of the dataset type: DETECT or OBB
    folder,      \* images and labels by stem, the classes file, and upper: the stems of
                 \* the labels whose suffix is .TXT, .Txt or the like
    override,    \* manual_classes_override
    scan,        \* the result of the latest scan, <<>> when there is none
    build,       \* what was built from it, <<>> when nothing was
    checked,     \* the builder has compared the folder with the scan; "edited": and somebody
                 \* edited the folder before it copied the files
    configured,  \* a build was configured with this source
    touched      \* somebody edited the folder after the scan

vars == <<task, folder, override, scan, build, checked, configured, touched>>

-----------------------------------------------------------------------------
(* Rows of a label file *)

FIELD_COUNT == [DETECT |-> 4, OBB |-> 8]

\* A line of numbers; finite says that none of them is a NaN or infinite, plain that the
\* line ends in a line feed and its class is written in digits only, not as +1 or 1_0.
Row == [cls : Int, coords : Seq(Int), finite : BOOLEAN, conf : {"none", "good", "bad"}, plain : BOOLEAN]

\* A label that is not readable is not UTF-8; its rows are what a reader that does not mind
\* finds in it, none when the file cannot be opened.
Label == [readable : BOOLEAN, rows : Seq(Row)]

\* A folder holds finitely many files, a file finitely many rows, and a list has a length.
ASSUME ContentAssumption ==
    /\ IsFiniteSet(Stems)
    /\ \A t \in DOMAIN FIELD_COUNT : Labels[t] \subseteq Label
    /\ \A names \in Overrides \cup Fallbacks \cup {c.names : c \in ClassFiles} : Len(names) \in Nat

Corner(coords, i) == <<coords[2 * i - 1], coords[2 * i]>>

\* No three of the four corners span a triangle.
EnclosesNoArea(coords) ==
    \A i, j, k \in 1 .. 4 :
        LET a == Corner(coords, i) b == Corner(coords, j) c == Corner(coords, k)
        IN  (b[1] - a[1]) * (c[2] - a[2]) = (b[2] - a[2]) * (c[1] - a[1])

\* _structural_geometry, and rowGeometry of the API: the same question in two languages.
RowGeometry(r) ==
    IF r.finite /\ r.cls >= 0 /\ r.conf # "bad"
    THEN {t \in DOMAIN FIELD_COUNT : Len(r.coords) = FIELD_COUNT[t]}
    ELSE {}

Within(r, margin) == \A i \in DOMAIN r.coords : r.coords[i] \in -margin .. Edge + margin

RowValid(r) ==
    /\ Len(r.coords) = FIELD_COUNT[task]
    /\ r.cls >= 0 /\ r.finite /\ r.conf # "bad"
    /\ Within(r, Tolerance)
    /\ task = "DETECT" => r.coords[3] > 0 /\ r.coords[4] > 0
    /\ task = "OBB" => ~EnclosesNoArea(r.coords)

LabelValid(l) == l.readable /\ \A r \in Range(l.rows) : RowValid(r)

\* The class ids of a label count even when another of its rows is refused.
ClassIds(l) == IF l.readable THEN {r.cls : r \in {x \in Range(l.rows) : RowValid(x)}} ELSE {}

Geometries(labels) ==
    UNION {UNION {RowGeometry(r) : r \in Range(labels[s].rows)} :
              s \in {x \in DOMAIN labels : labels[x].readable}}

-----------------------------------------------------------------------------
(* scan() *)

\* compute_content_hash: every image and every label that is there.
ContentHash(f) == <<f.images, f.labels>>

\* Corrupt images go, unless they cannot be deleted.
Removed(f) == {s \in DOMAIN f.images : f.images[s] = "corrupt"}

\* _remove_invalid_pair, for every corrupt image: its label goes with it.
AfterRemoval(f) ==
    [f EXCEPT !.images = Restrict(@, DOMAIN @ \ Removed(f)),
              !.labels = Restrict(@, DOMAIN @ \ Removed(f))]

\* Mutant of Remaining: the labels of removed images are still counted.
RemainingImages(f) ==
    [f EXCEPT !.images = Restrict(@, DOMAIN @ \ Removed(f))]

\* What scan() goes on with: "the content hash match what is actually on disk now".
Remaining(f) ==
    [f EXCEPT !.images = Restrict(@, DOMAIN @ \ Removed(f)),
              !.labels = Restrict(@, DOMAIN @ \ Removed(f))]

Paired(f) == DOMAIN f.images \cap DOMAIN f.labels

Used(f) == UNION {ClassIds(f.labels[s]) : s \in Paired(f)}

MaxUsed(f) == Max(Used(f) \cup {-1})

Inferred(n) == [i \in 1 .. n |-> "inferred"]

\* classes_source.  The worker looks for the type's list only when there is neither an
\* override nor a path of a classes file.
ClassesSource(f, over, fallback) ==
    CASE over # <<>> -> "MANUAL_OVERRIDE"
      [] over = <<>> /\ f.classes.state = "list" -> "CLASSES_FILE"
      [] over = <<>> /\ f.classes.state = "unset" /\ fallback # <<>> -> "TYPE_FALLBACK"
      [] OTHER -> "LABEL_INFERENCE"

\* The class list: the override, the folder's file, the type's, or a guess.
ClassNames(f, over, fallback) ==
    LET source == ClassesSource(f, over, fallback)
    IN  CASE source = "MANUAL_OVERRIDE" -> over
          [] source = "CLASSES_FILE" -> f.classes.names
          [] source = "TYPE_FALLBACK" -> fallback
          [] OTHER -> IF MaxUsed(f) >= 0 THEN Inferred(MaxUsed(f) + 1) ELSE NoClasses

\* The issues that are errors, f being what is left after the removals.
Errors(before, f, over, fallback) ==
    LET names == ClassNames(f, over, fallback)
    IN  {e \in {"DATASET_MIXED_LABEL_GEOMETRY", "DATASET_DUPLICATE_IMAGE_STEM",
                "DATASET_IMAGE_INVALID", "DATASET_LABEL_INVALID",
                "DATASET_CLASSES_FILE_INVALID", "DATASET_CLASS_INDEX_GAP"} :
            CASE e = "DATASET_MIXED_LABEL_GEOMETRY" -> Cardinality(Geometries(before.labels)) > 1
              [] e = "DATASET_DUPLICATE_IMAGE_STEM" -> "twins" \in Range(before.images)
              [] e = "DATASET_IMAGE_INVALID" -> "locked" \in Range(f.images)
              [] e = "DATASET_LABEL_INVALID" -> \E s \in Paired(f) : ~LabelValid(f.labels[s])
              [] e = "DATASET_CLASSES_FILE_INVALID" -> over = <<>> /\ f.classes.state \in {"invalid", "missing"}
              [] e = "DATASET_CLASS_INDEX_GAP" -> names # NoClasses /\ MaxUsed(f) >= Len(names)}

\* What the manifest, the class rows and the scan's row record.
Scanned(f, over, fallback) ==
    LET left == Remaining(f)
        pairs == {s \in Paired(left) : LabelValid(left.labels[s])}
        errors == Errors(f, left, over, fallback)
        names == ClassNames(left, over, fallback)
    IN  [status |-> IF pairs # {} /\ errors = {} /\ names # NoClasses THEN "READY" ELSE "INVALID",
         pairs |-> pairs, upper |-> pairs \cap left.upper, errors |-> errors,
         names |-> names, source |-> ClassesSource(left, over, fallback),
         hash |-> ContentHash(left)]

-----------------------------------------------------------------------------
(* The builder *)

\* Mutant of LargestRemainder: fractions are cut off.
WholeParts(n, ratios) == [i \in 1 .. 3 |-> (ratios[i] * n) \div 10]

\* _largest_remainder: whole parts first, then what is left by size of fraction.
LargestRemainder(n, ratios) ==
    LET base == [i \in 1 .. 3 |-> (ratios[i] * n) \div 10]
        fraction == [i \in 1 .. 3 |-> (ratios[i] * n) % 10]
        left == n - (base[1] + base[2] + base[3])
        before(i) == {k \in 1 .. 3 : fraction[k] > fraction[i] \/ (fraction[k] = fraction[i] /\ k < i)}
    IN  [i \in 1 .. 3 |-> base[i] + (IF Cardinality(before(i)) < left THEN 1 ELSE 0)]

Clip(c) == IF c < 0 THEN 0 ELSE IF c > Edge THEN Edge ELSE c

\* Mutant of WriteRow: the confidence stays.
WriteRowWhole(r) == [r EXCEPT !.coords = [i \in 1 .. Min({Len(@), FIELD_COUNT[task]}) |-> Clip(@[i])]]

\* A line of _write_label: the columns of the task only, no coordinate off the image.
WriteRow(r) ==
    [r EXCEPT !.conf = IF Len(r.coords) >= FIELD_COUNT[task] THEN "none" ELSE @,
              !.coords = [i \in 1 .. Min({Len(@), FIELD_COUNT[task]}) |-> Clip(@[i])]]

\* needs_rewrite: a line has a confidence behind the columns of the task, or sticks out.
NeedsRewrite(l) ==
    \E r \in Range(l.rows) :
        \/ Len(r.coords) = FIELD_COUNT[task] /\ r.conf # "none"
        \/ \E i \in 1 .. FIELD_COUNT[task] : i <= Len(r.coords) /\ r.coords[i] \notin 0 .. Edge

\* _write_label: a file without such a line is copied as it is.
WriteLabel(l) == IF NeedsRewrite(l) THEN {WriteRow(r) : r \in Range(l.rows)} ELSE Range(l.rows)

\* _collect_pairs refuses a folder that is not the one that was scanned, by its content
\* hash, and a pair whose files do not have the names in the manifest.
SourceChanged ==
    \/ ContentHash(folder) # scan.hash
    \/ \E s \in scan.pairs : s \notin Paired(folder) \/ (s \in folder.upper) # (s \in scan.upper)

Failed(error) == [error |-> error, rows |-> {}, counts |-> <<0, 0, 0>>]

\* What the copying loop of _materialise finds gone, or cannot decode.
CannotCopy == \E s \in scan.pairs :
    \/ s \notin Paired(folder) \/ (s \in folder.upper) # (s \in scan.upper)
    \/ ~folder.labels[s].readable

\* What _materialise writes, or the error it ends with.
Built ==
    IF CannotCopy THEN Failed("DATASET_BUILD_FAILED")
    ELSE [error |-> "none",
          rows |-> UNION {WriteLabel(folder.labels[s]) : s \in scan.pairs},
          counts |-> LargestRemainder(Cardinality(scan.pairs), Ratios)]

\* _assert_labels_valid, the rule for a directory that goes to training as it is.
RowTrainable(r, count) ==
    RowValid(r) /\ r.conf = "none" /\ r.cls < count

-----------------------------------------------------------------------------
Files(S) == UNION {[D -> S] : D \in SUBSET Stems}

Init ==
    /\ task \in DOMAIN FIELD_COUNT
    /\ folder \in [images : Files(Images), labels : Files(Labels[task]), classes : ClassFiles,
                   upper : SUBSET Stems]
    /\ override = <<>> /\ scan = <<>> /\ configured = FALSE
    /\ build = <<>> /\ checked = "no" /\ touched = FALSE

\* The worker asks for the type's list at every scan; a build is followed until the next.
Scan ==
    /\ build' = <<>> /\ checked' = "no" /\ touched' = FALSE
    /\ UNCHANGED <<task, override, configured>>
    /\ folder' = AfterRemoval(folder)
    /\ \E fallback \in Fallbacks : scan' = Scanned(folder, override, fallback)

\* configureBuild: the source is READY.
ConfigureBuild ==
    /\ scan # <<>> /\ scan.status = "READY"
    /\ ~configured /\ configured' = TRUE
    /\ UNCHANGED <<task, folder, override, scan, build, checked, touched>>

\* submit, _collect_pairs and _assign_splits: the latest scan is completed, whatever its
\* verdict.
CollectPairs ==
    /\ configured /\ scan # <<>>
    /\ build = <<>> /\ checked = "no"
    /\ \/ SourceChanged /\ build' = Failed("DATASET_SOURCE_CHANGED_SINCE_SCAN") /\ UNCHANGED checked
       \/ ~SourceChanged /\ scan.pairs = {} /\ build' = Failed("DATASET_SPLIT_EMPTY") /\ UNCHANGED checked
       \/ ~SourceChanged /\ scan.pairs # {} /\ checked' = "yes" /\ UNCHANGED build
    /\ UNCHANGED <<task, folder, override, scan, configured, touched>>

\* The copying loop of _materialise, which opens every label for the first time.
Materialise ==
    /\ checked # "no" /\ build = <<>>
    /\ build' = Built
    /\ UNCHANGED <<task, folder, override, scan, checked, configured, touched>>

\* Mutant of OutOfRange: the class count itself is let through.
OutOfRangeByMore(f, count) ==
    \E s \in DOMAIN f.labels \ f.upper : \E r \in Range(f.labels[s].rows) : r.plain /\ r.cls > count

\* findOutOfRangeLabelIndices: every label whose name ends in .txt, whatever its encoding
\* and the geometry of its rows, but only classes written in digits.
OutOfRange(f, count) ==
    \E s \in DOMAIN f.labels \ f.upper : \E r \in Range(f.labels[s].rows) : r.plain /\ r.cls >= count

\* setClassesOverride; the rescan it dispatches is the next Scan.
SetClassesOverride(names) ==
    /\ names # <<>> => ~OutOfRange(folder, Len(names))
    /\ override' = names
    /\ scan' = <<>> /\ build' = <<>> /\ checked' = "no" /\ touched' = FALSE
    /\ UNCHANGED <<task, folder, configured>>

\* Whoever owns the folder replaces, renames or deletes a file (other states of a folder
\* that was not scanned are initial states).
Edit ==
    /\ scan # <<>> /\ scan.status = "READY" /\ ~touched
    /\ \E s \in Stems :
          \/ folder' = [folder EXCEPT !.images = Restrict(@, DOMAIN @ \ {s})]
          \/ \E l \in Labels[task] :
                folder' = [folder EXCEPT !.labels = [x \in DOMAIN @ \cup {s} |-> IF x = s THEN l ELSE @[x]]]
          \/ folder' = [folder EXCEPT !.upper = SymDiff(@, {s})]
    /\ folder' # folder
    /\ touched' = TRUE
    /\ checked' = IF checked = "yes" /\ build = <<>> THEN "edited" ELSE checked
    /\ UNCHANGED <<task, override, scan, build, configured>>

Next ==
    \/ Scan \/ ConfigureBuild \/ CollectPairs \/ Materialise
    \/ \E names \in Overrides : SetClassesOverride(names)
    \/ Edit

Spec == Init /\ [][Next]_vars

-----------------------------------------------------------------------------
(* Properties *)

\* What is built from a READY scan lies on the image and would pass the check of a
\* registered directory: exact columns, classes that exist, boxes with an area -
\* "A BUILT dataset gets this from scanner._validate_label on its source folders"
\* (_assert_labels_valid) - whoever edited the folder after the scan, except between the
\* builder's check of the content hash and its copy of the files.  Only the clipping of
\* an oriented box may leave it without an area.
BuiltIsTrainable ==
    build # <<>> /\ scan.status = "READY" /\ checked # "edited" =>
        \A r \in build.rows :
            /\ Within(r, 0)
            /\ \/ RowTrainable(r, Len(scan.names))
               \/ task = "OBB" /\ EnclosesNoArea(r.coords) /\ r.conf = "none" /\ r.cls < Len(scan.names)

\* A folder the scan called READY and nobody touched builds, and every pair lands in
\* one split: the scan's deletions and hash leave what the builder will find.
ReadyFolderBuilds ==
    build # <<>> /\ scan.status = "READY" /\ ~touched =>
        /\ build.error = "none"
        /\ build.counts[1] + build.counts[2] + build.counts[3] = Cardinality(scan.pairs)

\* Scanning again what nobody touched finds the same pairs and the same hash, so that it
\* still builds; and the same class list and verdict, unless the list is or was the type's,
\* which other datasets vote on (_majority_classes_for_type).
RescanAgrees ==
    [][scan # <<>> /\ scan.status = "READY" /\ ~touched /\ Scan =>
          /\ scan'.pairs = scan.pairs /\ scan'.upper = scan.upper /\ scan'.hash = scan.hash
          /\ scan' = scan \/ "TYPE_FALLBACK" \in {scan.source, scan'.source}]_vars

\* Scanner, API and inferencer all find the label of this stem, and the classes of its rows.
ReadAlike(f, s) == s \notin f.upper /\ \A r \in Range(f.labels[s].rows) : r.plain

\* A class list setClassesOverride let through covers every label that is read alike,
\* orphan labels and removals included: the rescan it dispatches reports a class index gap
\* only when a label the API does not look at, or a class it cannot read, is out of range.
AcceptedOverrideCovers ==
    [][override' # override /\ override' # <<>> =>
          \A fallback \in Fallbacks :
              "DATASET_CLASS_INDEX_GAP" \in Scanned(folder', override', fallback).errors =>
                  \E s \in Paired(folder') :
                      /\ ~ReadAlike(folder', s)
                      /\ \E c \in ClassIds(folder'.labels[s]) : c >= Len(override')]_vars
=============================================================================
