--------------------------- MODULE InferenceDiffs ---------------------------
(***************************************************************************)
(* What an inference run says of the images of a source dataset: the boxes *)
(* of their labels, paired with those the model predicts.  Scanner, API    *)
(* and inferencer each read the labels and the class list in their own     *)
(* way.  What a model predicts is any of a few sequences of boxes.         *)
(***************************************************************************)
EXTENDS DatasetContent

CONSTANTS
    Predicted,      \* what the model may predict for an image
    IouThreshold    \* IOU_THRESHOLD, in tenths

\* A detection has the four fields of a box and no negative extent (boxes.xywhn).
Detection == {r \in Row : Len(r.coords) = 4 /\ r.coords[3] >= 0 /\ r.coords[4] >= 0}

ASSUME PredictedAssumption == Predicted \subseteq Seq(Detection)

VARIABLE run    \* class names by the scan a run was created on, NoClasses without a run; only
                \* a run on a folder as it was scanned is followed, until somebody edits it

diffVars == <<vars, run>>

-----------------------------------------------------------------------------
(* inference_match.py *)

\* Mutant of Usable: what sticks out of the image cannot be compared.
UsableOnImage(r, count) ==
    /\ Len(r.coords) = FIELD_COUNT["DETECT"] /\ r.finite /\ r.cls \in 0 .. count - 1
    /\ r.coords[3] > 0 /\ r.coords[4] > 0 /\ Within(r, 0)

\* A line of read_label_file that is a box; a sixth field is not looked at.
Usable(r, count) ==
    /\ Len(r.coords) = FIELD_COUNT["DETECT"] /\ r.finite /\ r.cls \in 0 .. count - 1
    /\ r.coords[3] > 0 /\ r.coords[4] > 0

LabelUsable(l, count) == l.readable /\ \A r \in Range(l.rows) : Usable(r, count)

\* read_label_file: the boxes it appends.
Boxes(l, count) ==
    IF l.readable
    THEN FoldLeft(LAMBDA boxes, r : IF Usable(r, count) THEN Append(boxes, r) ELSE boxes, <<>>, l.rows)
    ELSE <<>>

\* The side two boxes share along an axis (centre i, extent i + 2), doubled.
Shared(a, b, i) ==
    LET low(r) == 2 * r.coords[i] - r.coords[i + 2]
        high(r) == 2 * r.coords[i] + r.coords[i + 2]
    IN  Max({0, Min({high(a), high(b)}) - Max({low(a), low(b)})})

\* iou, as a fraction.
Iou(a, b) ==
    LET area(r) == 4 * r.coords[3] * r.coords[4]
        inter == Shared(a, b, 1) * Shared(a, b, 2)
    IN  [num |-> inter, den |-> area(a) + area(b) - inter]

Higher(v, w) == v.num * w.den > w.num * v.den

Candidates(original, predicted) ==
    {c \in {[i |-> i, j |-> j, iou |-> Iou(original[i], predicted[j])] :
               i \in DOMAIN original, j \in DOMAIN predicted} :
        10 * c.iou.num >= IouThreshold * c.iou.den}

\* From the highest IoU down, ties broken by index.
Before(c, d) ==
    \/ Higher(c.iou, d.iou)
    \/ ~Higher(d.iou, c.iou) /\ (c.i < d.i \/ (c.i = d.i /\ c.j < d.j))

\* Mutant of Lowest: in the order of the label file.
LowestByIndex(S) == CHOOSE c \in S : \A d \in S : d.i < c.i \/ (d.i = c.i /\ d.j <= c.j)

\* The candidate of a set that comes after all others.
Lowest(S) == CHOOSE c \in S : \A d \in S \ {c} : Before(d, c)

Take(c, pairs) ==
    IF \E d \in pairs : d.i = c.i \/ d.j = c.j THEN pairs ELSE pairs \cup {c}

\* compare: the pairs it makes, taking the last candidate after all before it.
Pairs(original, predicted) ==
    MapThenFoldSet(Take, {}, LAMBDA c : c, Lowest, Candidates(original, predicted))

\* _infer stores a diff of the image: something is missing, extra or of another class,
\* or the label cannot be compared.
Differs(l, predicted, count) ==
    LET original == Boxes(l, count)
        pairs == Pairs(original, predicted)
    IN  \/ ~LabelUsable(l, count)
        \/ Cardinality(pairs) < Len(original) \/ Cardinality(pairs) < Len(predicted)
        \/ \E c \in pairs : original[c.i].cls # predicted[c.j].cls

-----------------------------------------------------------------------------
(* The run *)

\* InferenceService.create: every source READY, a model and sources that are DETECT.
CreateRun ==
    /\ task = "DETECT" /\ scan # <<>> /\ scan.status = "READY" /\ run = NoClasses
    /\ ~touched
    /\ run' = scan.names
    /\ UNCHANGED vars

\* _load: today's override, or the classes as of the scan of the run.
ClassNamesOfRun == IF override # <<>> THEN override ELSE run

\* _infer opens "{stem}.txt"; a label that is missing under that name is an image with no
\* objects.
LabelOf(s) ==
    IF s \in DOMAIN folder.labels \ folder.upper THEN folder.labels[s]
    ELSE [readable |-> TRUE, rows |-> <<>>]

-----------------------------------------------------------------------------
DiffsInit == Init /\ run = NoClasses

DiffsNext ==
    \/ CreateRun
    \/ Scan /\ UNCHANGED run
    \/ ConfigureBuild /\ UNCHANGED run
    \/ CollectPairs /\ UNCHANGED run
    \/ Materialise /\ UNCHANGED run
    \/ \E names \in Overrides : SetClassesOverride(names) /\ UNCHANGED run
    \/ Edit /\ run' = NoClasses

DiffsSpec == DiffsInit /\ [][DiffsNext]_diffVars

-----------------------------------------------------------------------------
(* Properties *)

\* Whatever the scanner lets through in a label that is read alike, the inferencer can
\* compare: while nobody edits the folder, no such label of a run's dataset is reported as
\* unusable, and none of its boxes is left out - although class lists are overridden,
\* cleared and scanned again after the run was created, and a box may stick out of the image.
LabelsCompare ==
    run # NoClasses =>
        \A s \in Paired(folder) : ReadAlike(folder, s) =>
            /\ LabelUsable(LabelOf(s), Len(ClassNamesOfRun))
            /\ Boxes(LabelOf(s), Len(ClassNamesOfRun)) = folder.labels[s].rows

\* "each box joins the partner it overlaps most that is still free" (compare), and an image
\* without a diff has one box of the same class for each: a pair that was not made lost to
\* one with a higher IoU, or an equal one, and no box is in two pairs.
PairsAreStable ==
    run # NoClasses =>
        \A s \in DOMAIN folder.images, predicted \in Predicted :
            LET count == Len(ClassNamesOfRun)
                original == Boxes(LabelOf(s), count)
                pairs == Pairs(original, predicted)
            IN  /\ \A c, d \in pairs : c # d => c.i # d.i /\ c.j # d.j
                /\ \A c \in Candidates(original, predicted) \ pairs :
                      \E d \in pairs : (d.i = c.i \/ d.j = c.j) /\ ~Higher(c.iou, d.iou)
                /\ ~Differs(LabelOf(s), predicted, count) =>
                      \E match \in Bijection(DOMAIN original, DOMAIN predicted) :
                          \A i \in DOMAIN original : original[i].cls = predicted[match[i]].cls
=============================================================================
