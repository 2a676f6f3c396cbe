---------------------------- MODULE ContentProofs ----------------------------
(***************************************************************************)
(* Proofs about DatasetContent and InferenceDiffs, for any files, labels,  *)
(* class lists and splits.                                                 *)
(***************************************************************************)
EXTENDS InferenceDiffs, FiniteSetTheorems, SequenceTheorems, TLAPS

-----------------------------------------------------------------------------
(* Finite sets *)

\* A finite set of integers has a greatest element: take the one with the fewest above it.
LEMMA MaxOf ==
    ASSUME NEW S \in SUBSET Int, IsFiniteSet(S), S # {}
    PROVE  Max(S) \in S /\ \A y \in S : y <= Max(S)
<1> DEFINE Above(x) == {y \in S : y > x}
           T == {Above(x) : x \in S}
<1>1. IsWellFoundedOn(StrictSubsetOrdering(S), FiniteSubsetsOf(S))
  BY FS_StrictSubsetOrderingWellFounded
<1>2. T \subseteq FiniteSubsetsOf(S) /\ T # {}
  <2>1. \A x \in S : Above(x) \in SUBSET S
    OBVIOUS
  <2>2. T # {}
    OBVIOUS
  <2> QED
    BY <2>1, <2>2, FS_FiniteSubsetsOfFinite
<1>3. PICK U \in T : \A V \in T : ~(<<V, U>> \in StrictSubsetOrdering(S))
  BY <1>1, <1>2, WFMin
<1>4. PICK x \in S : U = Above(x)
  OBVIOUS
<1>5. ASSUME NEW y \in S, y > x
      PROVE  FALSE
  <2>1. y \in Above(x) /\ y \notin Above(y)
    BY <1>5
  <2>2. Above(y) \subseteq Above(x)
    <3>1. ASSUME NEW z \in S, z > y
          PROVE  z > x
      <4>1. x \in Int /\ y \in Int /\ z \in Int
        OBVIOUS
      <4> QED
        BY <1>5, <3>1, <4>1
    <3> QED
      BY <3>1
  <2> HIDE DEF Above
  <2>3. Above(y) \in SUBSET S /\ Above(x) \in SUBSET S
    BY DEF Above
  <2>4. <<Above(y), Above(x)>> \in StrictSubsetOrdering(S)
    BY <2>1, <2>2, <2>3 DEF StrictSubsetOrdering
  <2> QED
    BY <1>3, <1>4, <2>4
<1>6. \A y \in S : x >= y
  BY <1>5
<1> QED
  BY <1>6 DEF Max

\* A function on a finite set has finitely many values.
LEMMA RangeIsFinite ==
    ASSUME NEW D, NEW R, NEW f \in [D -> R], IsFiniteSet(D)
    PROVE  IsFiniteSet({f[x] : x \in D})
<1> DEFINE V == {f[x] : x \in D}
<1>1. f \in Surjection(D, V)
  BY DEF Surjection
<1> QED
  BY <1>1, FS_Surjection

\* Without its greatest member a set is smaller.
LEMMA WithoutMax ==
    ASSUME NEW n \in Nat, NEW S \in SUBSET (1 .. n), S # {}
    PROVE  Max(S) \in S /\ S \ {Max(S)} \in SUBSET S /\ S \ {Max(S)} # S
<1>1. IsFiniteSet(1 .. n) /\ S \in SUBSET Int
  BY FS_Interval
<1>2. IsFiniteSet(S)
  BY <1>1, FS_Subset
<1> QED
  BY <1>1, <1>2, MaxOf

\* A set of natural numbers that is not empty has a least element.
LEMMA LeastOf ==
    ASSUME NEW S \in SUBSET Nat, S # {}
    PROVE  \E m \in S : \A k \in S : m <= k
<1>1. PICK n \in S : TRUE
  OBVIOUS
<1> DEFINE T == {-k : k \in S \cap 0 .. n}
<1>2. T \in SUBSET Int /\ T # {}
  <2>1. n \in S \cap 0 .. n
    BY <1>1
  <2>2. \A k \in S : -k \in Int
    OBVIOUS
  <2> QED
    BY <2>1, <2>2
<1>3. IsFiniteSet(T)
  <2>1. T \subseteq -n .. 0
    BY <1>1
  <2>2. IsFiniteSet(-n .. 0)
    BY FS_Interval
  <2> QED
    BY <2>1, <2>2, FS_Subset
<1>4. Max(T) \in T /\ \A y \in T : y <= Max(T)
  BY <1>2, <1>3, MaxOf
<1> DEFINE m == -Max(T)
<1>5. m \in S
  BY <1>4
<1>6. ASSUME NEW k \in S
      PROVE  m <= k
  <2>1. CASE k <= n
    <3>1. -k \in T
      BY <2>1
    <3>2. -k <= Max(T) /\ Max(T) \in Int /\ k \in Int
      BY <1>2, <1>4, <3>1
    <3> HIDE DEF T
    <3> QED
      BY <3>2
  <2>2. CASE k > n
    <3>1. m \in 0 .. n
      BY <1>4
    <3> HIDE DEF m
    <3> QED
      BY <2>2, <3>1
  <2>3. k \in Nat /\ n \in Nat
    BY <1>1
  <2> HIDE DEF m, T
  <2> QED
    BY <2>1, <2>2, <2>3
<1> QED
  BY <1>5, <1>6

\* Induction over the subsets of a finite set, where rest leads to a smaller one.
LEMMA SubsetInduction ==
    ASSUME NEW C, IsFiniteSet(C), NEW rest, NEW Good,
           \A S \in SUBSET C : S # {} => rest[S] \in SUBSET S /\ rest[S] # S,
           {} \in Good,
           \A S \in SUBSET C : S # {} /\ rest[S] \in Good => S \in Good
    PROVE  \A S \in SUBSET C : S \in Good
<1> DEFINE Bad == {S \in SUBSET C : S \notin Good}
<1>1. SUFFICES ASSUME Bad # {}
               PROVE  FALSE
  OBVIOUS
<1>2. Bad \subseteq FiniteSubsetsOf(C)
  BY FS_FiniteSubsetsOfFinite
<1>3. IsWellFoundedOn(StrictSubsetOrdering(C), FiniteSubsetsOf(C))
  BY FS_StrictSubsetOrderingWellFounded
<1>4. PICK S \in Bad : \A U \in Bad : ~(<<U, S>> \in StrictSubsetOrdering(C))
  <2> HIDE DEF Bad
  <2> QED
    BY <1>1, <1>2, <1>3, WFMin
<1>5. S # {} /\ rest[S] \in SUBSET C
  OBVIOUS
<1>6. rest[S] \in Good
  BY <1>4, <1>5 DEF StrictSubsetOrdering
<1> QED
  BY <1>5, <1>6

\* A function that is defined by recursion along rest.
Folded(base, step, rest, C, g) ==
    \A S \in SUBSET C : g[S] = IF S = {} THEN base ELSE step[S][g[rest[S]]]

\* It exists: for the sets of n members at most, by induction on n.
LEMMA FoldExists ==
    ASSUME NEW C, IsFiniteSet(C), NEW rest, NEW base, NEW step,
           \A S \in SUBSET C : S # {} => rest[S] \in SUBSET S /\ rest[S] # S
    PROVE  \E g : DOMAIN g = SUBSET C /\ g = [S \in SUBSET C |-> g[S]] /\ Folded(base, step, rest, C, g)
<1> DEFINE Upto(n, g) ==
               \A S \in SUBSET C : Cardinality(S) <= n =>
                   g[S] = IF S = {} THEN base ELSE step[S][g[rest[S]]]
           Without == {n \in Nat : \A g : ~Upto(n, g)}
<1>1. \A S \in SUBSET C : IsFiniteSet(S) /\ Cardinality(S) \in Nat
  BY FS_Subset, FS_CardinalityType
<1>2. Without = {}
  <2>1. SUFFICES ASSUME Without # {}
                 PROVE  FALSE
    OBVIOUS
  <2>2. PICK n \in Without : \A k \in Without : n <= k
    BY <2>1, LeastOf
  <2>3. CASE n = 0
    <3> DEFINE g == [S \in SUBSET C |-> base]
    <3>1. Upto(0, g)
      BY <1>1, FS_EmptySet
    <3> QED
      BY <2>2, <2>3, <3>1
  <2>4. CASE n # 0
    <3>1. n - 1 \in Nat /\ n - 1 \notin Without
      <4>1. n - 1 \in Nat /\ ~(n <= n - 1)
        BY <2>2, <2>4
      <4> HIDE DEF Without
      <4> QED
        BY <2>2, <4>1
    <3>2. PICK h : Upto(n - 1, h)
      BY <3>1
    <3> DEFINE g == [S \in SUBSET C |-> IF S = {} THEN base ELSE step[S][h[rest[S]]]]
    <3>3. ASSUME NEW S \in SUBSET C, Cardinality(S) <= n, S # {}
          PROVE  g[rest[S]] = h[rest[S]]
      <4>1. rest[S] \in SUBSET C /\ rest[S] \in SUBSET S /\ rest[S] # S
        BY <3>3
      <4>2. Cardinality(rest[S]) <= Cardinality(S) /\ Cardinality(rest[S]) # Cardinality(S)
        BY <1>1, <4>1, FS_Subset
      <4>3. Cardinality(rest[S]) <= n - 1
        BY <1>1, <3>1, <3>3, <4>1, <4>2
      <4> QED
        BY <3>2, <4>1, <4>3
    <3>4. Upto(n, g)
      BY <3>3
    <3> QED
      BY <2>2, <3>4
  <2> QED
    BY <2>3, <2>4
<1>3. PICK h : Upto(Cardinality(C), h)
  <2>1. Cardinality(C) \in Nat
    BY <1>1
  <2> HIDE DEF Upto
  <2> QED
    BY <1>2, <2>1
<1> DEFINE g == [S \in SUBSET C |-> h[S]]
<1>4. \A S \in SUBSET C : Cardinality(S) <= Cardinality(C)
  BY FS_Subset
<1>5. Folded(base, step, rest, C, g)
  BY <1>3, <1>4 DEF Folded
<1> QED
  BY <1>5

-----------------------------------------------------------------------------
(* Folders *)

\* The states a folder of this task can be in.
Folders == [images : Files(Images), labels : Files(Labels[task]), classes : ClassFiles, upper : SUBSET Stems]

LEMMA FolderType ==
    ASSUME task \in DOMAIN FIELD_COUNT, NEW f \in Folders
    PROVE  /\ f = [images |-> f.images, labels |-> f.labels, classes |-> f.classes, upper |-> f.upper]
           /\ DOMAIN f.images \in SUBSET Stems /\ DOMAIN f.labels \in SUBSET Stems
           /\ f.images \in [DOMAIN f.images -> Images]
           /\ f.labels \in [DOMAIN f.labels -> Labels[task]]
           /\ \A s \in DOMAIN f.labels : f.labels[s] \in Label
           /\ f.classes \in ClassFiles /\ f.upper \in SUBSET Stems
<1>1. f.images \in Files(Images) /\ f.labels \in Files(Labels[task]) /\ f.classes \in ClassFiles
      /\ f.upper \in SUBSET Stems
  BY DEF Folders
<1>2. PICK D \in SUBSET Stems : f.images \in [D -> Images]
  BY <1>1 DEF Files
<1>3. PICK E \in SUBSET Stems : f.labels \in [E -> Labels[task]]
  BY <1>1 DEF Files
<1> QED
  BY <1>1, <1>2, <1>3, ContentAssumption DEF Folders

LEMMA FolderIs ==
    ASSUME NEW I \in SUBSET Stems, NEW L \in SUBSET Stems,
           NEW images \in [I -> Images], NEW labels \in [L -> Labels[task]], NEW classes \in ClassFiles,
           NEW upper \in SUBSET Stems
    PROVE  [images |-> images, labels |-> labels, classes |-> classes, upper |-> upper] \in Folders
BY DEF Folders, Files

\* What is left after the removals.
LEMMA RemainingIs ==
    ASSUME task \in DOMAIN FIELD_COUNT, NEW f \in Folders
    PROVE  /\ Remaining(f) \in Folders /\ AfterRemoval(f) = Remaining(f)
           /\ Remaining(f).classes = f.classes /\ Remaining(f).upper = f.upper
           /\ DOMAIN Remaining(f).images = DOMAIN f.images \ Removed(f)
           /\ DOMAIN Remaining(f).labels = DOMAIN f.labels \ Removed(f)
           /\ \A s \in DOMAIN Remaining(f).images : Remaining(f).images[s] = f.images[s]
           /\ \A s \in DOMAIN Remaining(f).labels : Remaining(f).labels[s] = f.labels[s]
<1> DEFINE I == DOMAIN f.images \ Removed(f)
           L == DOMAIN f.labels \ Removed(f)
<1>1. Remaining(f) = [images |-> [s \in I |-> f.images[s]], labels |-> [s \in L |-> f.labels[s]],
                      classes |-> f.classes, upper |-> f.upper]
  <2>1. PICK im, lb, cl, up : f = [images |-> im, labels |-> lb, classes |-> cl, upper |-> up]
    BY FolderType
  <2>2. Remaining(f) = [f EXCEPT !.images = [s \in I |-> f.images[s]], !.labels = [s \in L |-> f.labels[s]]]
    BY DEF Remaining, Restrict
  <2> QED
    BY <2>1, <2>2
<1>2. Remaining(f) \in Folders
  BY <1>1, FolderType, FolderIs
<1>3. AfterRemoval(f) = Remaining(f)
  BY DEF AfterRemoval, Remaining
<1> QED
  BY <1>1, <1>2, <1>3

\* Where nothing is corrupt, nothing is removed.
LEMMA NothingRemoved ==
    ASSUME task \in DOMAIN FIELD_COUNT, NEW f \in Folders, Removed(f) = {}
    PROVE  Remaining(f) = f
<1>1. PICK im, lb, cl, up : f = [images |-> im, labels |-> lb, classes |-> cl, upper |-> up]
  BY FolderType
<1>2. Remaining(f) = [f EXCEPT !.images = [s \in DOMAIN im |-> im[s]], !.labels = [s \in DOMAIN lb |-> lb[s]]]
  BY <1>1 DEF Remaining, Restrict
<1>3. im = [s \in DOMAIN im |-> im[s]] /\ lb = [s \in DOMAIN lb |-> lb[s]]
  BY <1>1, FolderType
<1> QED
  BY <1>1, <1>2, <1>3

\* The scanner leaves no corrupt image, so that a second scan removes nothing.
LEMMA RemainingAgain ==
    ASSUME task \in DOMAIN FIELD_COUNT, NEW f \in Folders
    PROVE  Removed(Remaining(f)) = {} /\ Remaining(Remaining(f)) = Remaining(f)
<1>1. Removed(Remaining(f)) = {}
  BY RemainingIs DEF Removed
<1>2. Remaining(f) \in Folders
  BY RemainingIs
<1> QED
  BY <1>1, <1>2, NothingRemoved

-----------------------------------------------------------------------------
(* Class ids *)

\* The ids of a label are finitely many natural numbers.
LEMMA ClassIdsType ==
    ASSUME NEW l \in Label
    PROVE  ClassIds(l) \in SUBSET Nat /\ IsFiniteSet(ClassIds(l))
<1>1. CASE ~l.readable
  BY <1>1, FS_EmptySet DEF ClassIds
<1>2. CASE l.readable
  <2> DEFINE ids == [i \in DOMAIN l.rows |-> l.rows[i].cls]
  <2>1. l.rows \in Seq(Row)
    BY DEF Label
  <2>2. IsFiniteSet(DOMAIN l.rows)
    BY <2>1, FS_Interval
  <2>7. \A i \in DOMAIN l.rows : l.rows[i].cls \in Int
    <3>1. \A i \in DOMAIN l.rows : l.rows[i] \in Row
      BY <2>1
    <3> QED
      BY <3>1 DEF Row
  <2>3. ids \in [DOMAIN l.rows -> Int]
    BY <2>7
  <2>4. IsFiniteSet({ids[i] : i \in DOMAIN l.rows})
    BY <2>2, <2>3, RangeIsFinite
  <2>5. ClassIds(l) \subseteq {ids[i] : i \in DOMAIN l.rows}
    BY <1>2 DEF ClassIds, Range
  <2>6. ClassIds(l) \subseteq Nat
    BY <1>2, <2>7 DEF ClassIds, Range, RowValid
  <2> QED
    BY <2>4, <2>5, <2>6, FS_Subset
<1> QED
  BY <1>1, <1>2 DEF Label

LEMMA UsedType ==
    ASSUME task \in DOMAIN FIELD_COUNT, NEW f \in Folders
    PROVE  Used(f) \in SUBSET Nat /\ IsFiniteSet(Used(f))
<1> DEFINE ids == [s \in Paired(f) |-> ClassIds(f.labels[s])]
           All == {ids[s] : s \in Paired(f)}
<1>1. \A s \in Paired(f) : f.labels[s] \in Label
  BY FolderType DEF Paired
<1>2. \A s \in Paired(f) : ids[s] \in SUBSET Nat /\ IsFiniteSet(ids[s])
  BY <1>1, ClassIdsType
<1>3. IsFiniteSet(Paired(f))
  BY FolderType, ContentAssumption, FS_Subset DEF Paired
<1>4. IsFiniteSet(All)
  <2>1. ids \in [Paired(f) -> SUBSET Nat]
    BY <1>2
  <2> HIDE DEF ids
  <2> QED
    BY <1>3, <2>1, RangeIsFinite
<1>5. Used(f) = UNION All
  BY DEF Used
<1>6. \A T \in All : IsFiniteSet(T) /\ T \subseteq Nat
  BY <1>2
<1> HIDE DEF All
<1> QED
  BY <1>4, <1>5, <1>6, FS_UNION

\* The greatest id bounds them all; it is -1 when there is none.
LEMMA MaxUsedIs ==
    ASSUME task \in DOMAIN FIELD_COUNT, NEW f \in Folders
    PROVE  MaxUsed(f) \in Used(f) \cup {-1} /\ \A c \in Used(f) : c <= MaxUsed(f)
<1> DEFINE S == Used(f) \cup {-1}
<1>1. S \in SUBSET Int /\ S # {}
  BY UsedType
<1>2. IsFiniteSet(S)
  BY UsedType, FS_AddElement
<1> HIDE DEF S
<1>3. Max(S) \in S /\ \A y \in S : y <= Max(S)
  BY <1>1, <1>2, MaxOf
<1> QED
  BY <1>3 DEF S, MaxUsed

LEMMA ClassNamesLength ==
    ASSUME task \in DOMAIN FIELD_COUNT, NEW f \in Folders, NEW over, Len(over) \in Nat,
           NEW fallback \in Fallbacks
    PROVE  Len(ClassNames(f, over, fallback)) \in Nat
<1>1. Len(f.classes.names) \in Nat /\ Len(fallback) \in Nat
  BY FolderType, ContentAssumption
<1>2. MaxUsed(f) \in Int
  BY MaxUsedIs, UsedType
<1>3. ASSUME NEW n \in Nat
      PROVE  Len(Inferred(n)) = n
  BY DEF Inferred
<1>4. Len(NoClasses) = 2
  BY DEF NoClasses
<1>5. ASSUME MaxUsed(f) >= 0
      PROVE  Len(Inferred(MaxUsed(f) + 1)) \in Nat
  <2> DEFINE n == MaxUsed(f) + 1
  <2>1. n \in Nat
    BY <1>2, <1>5
  <2> HIDE DEF n
  <2>2. Len(Inferred(n)) \in Nat
    BY <1>3, <2>1
  <2> QED
    BY <2>2 DEF n
<1> QED
  BY <1>1, <1>4, <1>5 DEF ClassNames, ClassesSource

-----------------------------------------------------------------------------
(* The verdict of a scan *)

\* Each error, and when the scan reports it.
LEMMA ErrorsAre ==
    ASSUME NEW before, NEW f, NEW over, NEW fallback
    PROVE  LET E == Errors(before, f, over, fallback)
               names == ClassNames(f, over, fallback)
           IN  /\ "DATASET_MIXED_LABEL_GEOMETRY" \in E <=> Cardinality(Geometries(before.labels)) > 1
               /\ "DATASET_DUPLICATE_IMAGE_STEM" \in E <=> "twins" \in Range(before.images)
               /\ "DATASET_IMAGE_INVALID" \in E <=> "locked" \in Range(f.images)
               /\ "DATASET_LABEL_INVALID" \in E <=> \E s \in Paired(f) : ~LabelValid(f.labels[s])
               /\ "DATASET_CLASSES_FILE_INVALID" \in E <=> over = <<>> /\ f.classes.state \in {"invalid", "missing"}
               /\ "DATASET_CLASS_INDEX_GAP" \in E <=> names # NoClasses /\ MaxUsed(f) >= Len(names)
BY DEF Errors

\* A READY scan vouches for every pair that is left: its label is valid, and its classes
\* are in the list.
LEMMA ReadyMeans ==
    ASSUME task \in DOMAIN FIELD_COUNT, NEW f \in Folders, NEW over, Len(over) \in Nat,
           NEW fallback \in Fallbacks, Scanned(f, over, fallback).status = "READY"
    PROVE  LET left == Remaining(f)
               names == Scanned(f, over, fallback).names
           IN  /\ Scanned(f, over, fallback).errors = {} /\ names # NoClasses /\ Len(names) \in Nat
               /\ Scanned(f, over, fallback).pairs = Paired(left) /\ Paired(left) # {}
               /\ \A s \in Paired(left) : /\ LabelValid(left.labels[s])
                                          /\ \A c \in ClassIds(left.labels[s]) : c < Len(names)
<1> DEFINE left == Remaining(f)
           names == ClassNames(left, over, fallback)
<1>1. left \in Folders
  BY RemainingIs
<1>2. Errors(f, left, over, fallback) = {} /\ names # NoClasses
  BY DEF Scanned
<1>3. Len(names) \in Nat
  BY <1>1, ClassNamesLength
<1>4. \A s \in Paired(left) : LabelValid(left.labels[s])
  BY <1>2, ErrorsAre
<1>5. Scanned(f, over, fallback).pairs = Paired(left) /\ Paired(left) # {}
  BY <1>4 DEF Scanned
<1>6. ~(MaxUsed(left) >= Len(names))
  BY <1>2, ErrorsAre
<1>7. \A s \in Paired(left) : \A c \in ClassIds(left.labels[s]) : c < Len(names)
  <2> HIDE DEF left, names
  <2>1. \A c \in Used(left) : c \in Nat /\ c <= MaxUsed(left)
    BY <1>1, MaxUsedIs, UsedType
  <2>2. MaxUsed(left) \in Int /\ Len(names) \in Nat
    BY <1>1, <1>3, MaxUsedIs, UsedType
  <2>3. \A c \in Used(left) : c < Len(names)
    BY <1>6, <2>1, <2>2
  <2> QED
    BY <2>3 DEF Used
<1> QED
  BY <1>2, <1>3, <1>4, <1>5, <1>7 DEF Scanned

\* Fewer labels have no more geometries.
LEMMA FewerGeometries ==
    ASSUME task \in DOMAIN FIELD_COUNT, NEW f \in Folders, ~(Cardinality(Geometries(f.labels)) > 1)
    PROVE  ~(Cardinality(Geometries(Remaining(f).labels)) > 1)
<1> DEFINE G == Geometries(f.labels)
           H == Geometries(Remaining(f).labels)
<1>1. G \subseteq {"DETECT", "OBB"}
  BY DEF Geometries, RowGeometry, FIELD_COUNT
<1>2. IsFiniteSet({"DETECT", "OBB"})
  <2>1. {"DETECT", "OBB"} = {"DETECT"} \cup {"OBB"}
    OBVIOUS
  <2>2. IsFiniteSet({"DETECT"} \cup {"OBB"})
    BY FS_Singleton, FS_Union
  <2> QED
    BY <2>1, <2>2
<1>3. H \subseteq G
  BY RemainingIs DEF Geometries
<1>4. IsFiniteSet(G)
  BY <1>1, <1>2, FS_Subset
<1> HIDE DEF G, H
<1>5. IsFiniteSet(H) /\ Cardinality(H) <= Cardinality(G) /\ Cardinality(G) \in Nat /\ Cardinality(H) \in Nat
  BY <1>3, <1>4, FS_Subset, FS_CardinalityType
<1> QED
  BY <1>5 DEF G, H

\* A second scan of what a READY scan left says the same.
LEMMA ScannedAgain ==
    ASSUME task \in DOMAIN FIELD_COUNT, NEW f \in Folders, NEW over, Len(over) \in Nat,
           NEW fallback \in Fallbacks, Scanned(f, over, fallback).status = "READY"
    PROVE  Scanned(Remaining(f), over, fallback) = Scanned(f, over, fallback)
<1> DEFINE left == Remaining(f)
<1>1. Errors(f, left, over, fallback) = {}
  BY ReadyMeans DEF Scanned
<1>2. left \in Folders /\ Remaining(left) = left
  BY RemainingIs, RemainingAgain
<1>3. Errors(left, left, over, fallback) = {}
  <2>1. ~(Cardinality(Geometries(left.labels)) > 1)
    BY <1>1, ErrorsAre, FewerGeometries
  <2>2. "twins" \notin Range(left.images)
    BY <1>1, ErrorsAre, RemainingIs DEF Range
  <2> HIDE DEF left
  <2>3. \A e \in Errors(left, left, over, fallback) : e \in Errors(f, left, over, fallback)
    BY <2>1, <2>2 DEF Errors
  <2> QED
    BY <1>1, <2>3
<1> QED
  BY <1>1, <1>2, <1>3 DEF Scanned

\* The ids of a label that is read alike, when the API finds none out of range.
LEMMA InRange ==
    ASSUME task \in DOMAIN FIELD_COUNT, NEW f \in Folders, NEW count \in Nat, ~OutOfRange(f, count),
           NEW s \in DOMAIN f.labels, ReadAlike(f, s), NEW c \in ClassIds(f.labels[s])
    PROVE  c < count
<1>1. f.labels[s] \in Label
  BY FolderType
<1>2. \E r \in Range(f.labels[s].rows) : r.cls = c /\ r.plain
  BY <1>1 DEF ClassIds, ReadAlike
<1>3. ~(c >= count)
  BY <1>2 DEF OutOfRange, ReadAlike
<1>4. c \in Nat
  BY <1>1, ClassIdsType
<1> QED
  BY <1>3, <1>4

\* A gap under a list that was let through is that of a label that is not read alike.
LEMMA Covered ==
    ASSUME task \in DOMAIN FIELD_COUNT, NEW f \in Folders, NEW names, names # <<>>, Len(names) \in Nat,
           ~OutOfRange(f, Len(names)), NEW fallback \in Fallbacks,
           "DATASET_CLASS_INDEX_GAP" \in Scanned(f, names, fallback).errors
    PROVE  \E s \in Paired(f) : ~ReadAlike(f, s) /\ \E c \in ClassIds(f.labels[s]) : c >= Len(names)
<1> DEFINE left == Remaining(f)
<1>1. left \in Folders
  BY RemainingIs
<1>2. ClassNames(left, names, fallback) = names
  BY DEF ClassNames, ClassesSource
<1>3. MaxUsed(left) >= Len(names)
  BY <1>2, ErrorsAre DEF Scanned
<1>4. MaxUsed(left) \in Used(left)
  <2> HIDE DEF left
  <2>1. MaxUsed(left) \in Used(left) \cup {-1}
    BY <1>1, MaxUsedIs
  <2>2. ~(-1 >= Len(names))
    OBVIOUS
  <2> QED
    BY <1>3, <2>1, <2>2
<1>5. PICK s \in Paired(left) : \E c \in ClassIds(left.labels[s]) : c >= Len(names)
  BY <1>3, <1>4 DEF Used
<1>6. s \in Paired(f) /\ s \in DOMAIN f.labels /\ left.labels[s] = f.labels[s]
  BY <1>5, RemainingIs DEF Paired
<1>7. PICK c \in ClassIds(f.labels[s]) : c >= Len(names)
  BY <1>5, <1>6
<1>8. ~ReadAlike(f, s)
  <2>1. c \in Nat
    BY <1>6, FolderType, ClassIdsType
  <2> QED
    BY <1>6, <1>7, <2>1, InRange
<1> QED
  BY <1>6, <1>7, <1>8

-----------------------------------------------------------------------------
(* Splits *)

LEMMA Tenths ==
    ASSUME NEW a \in Int, NEW q, NEW r, q = a \div 10, r = a % 10
    PROVE  q \in Int /\ r \in 0 .. 9 /\ a = 10 * q + r
<1>1. q \in Int
  OBVIOUS
<1>2. r \in Int /\ 0 <= r /\ r <= 9
  OBVIOUS
<1>3. a - 10 * q = r
  BY <1>1
<1> QED
  BY <1>1, <1>2, <1>3

LEMMA PartOfPair ==
    ASSUME NEW j, NEW k, j # k, NEW S \in SUBSET {j, k}
    PROVE  Cardinality(S) = (IF j \in S THEN 1 ELSE 0) + (IF k \in S THEN 1 ELSE 0)
<1>1. IsFiniteSet({}) /\ Cardinality({}) = 0
  BY FS_EmptySet
<1>2. IsFiniteSet({j}) /\ Cardinality({j}) = 1 /\ IsFiniteSet({k}) /\ Cardinality({k}) = 1
  BY FS_Singleton
<1>3. Cardinality({j} \cup {k}) = 2
  BY <1>2, FS_AddElement
<1>4. S = {} \/ S = {j} \/ S = {k} \/ S = {j} \cup {k}
  OBVIOUS
<1> QED
  BY <1>1, <1>2, <1>3, <1>4

\* Every pair lands in one split: what the whole parts leave over is 0, 1 or 2, and goes to
\* as many splits.
LEMMA SplitsAddUp ==
    ASSUME NEW n \in Nat
    PROVE  LET counts == LargestRemainder(n, Ratios)
           IN  counts[1] + counts[2] + counts[3] = n
<1> DEFINE base == [i \in 1 .. 3 |-> (Ratios[i] * n) \div 10]
           fraction == [i \in 1 .. 3 |-> (Ratios[i] * n) % 10]
           left == n - (base[1] + base[2] + base[3])
           before(i) == {k \in 1 .. 3 : fraction[k] > fraction[i] \/ (fraction[k] = fraction[i] /\ k < i)}
<1>1. \A i \in 1 .. 3 : Ratios[i] \in Int /\ Ratios[i] * n \in Int
  BY RatiosAssumption
<1>2. \A i \in 1 .. 3 : /\ base[i] \in Int /\ fraction[i] \in 0 .. 9
                        /\ Ratios[i] * n = 10 * base[i] + fraction[i]
  <2> SUFFICES ASSUME NEW i \in 1 .. 3
               PROVE  /\ base[i] \in Int /\ fraction[i] \in 0 .. 9
                      /\ Ratios[i] * n = 10 * base[i] + fraction[i]
    OBVIOUS
  <2> DEFINE a == Ratios[i] * n
  <2>1. base[i] = a \div 10 /\ fraction[i] = a % 10 /\ a \in Int
    BY <1>1
  <2> HIDE DEF a, base, fraction
  <2>2. base[i] \in Int /\ fraction[i] \in 0 .. 9 /\ a = 10 * base[i] + fraction[i]
    BY <2>1, Tenths
  <2> QED
    BY <2>2 DEF a
<1>3. PICK b1 \in Int, b2 \in Int, b3 \in Int : b1 = base[1] /\ b2 = base[2] /\ b3 = base[3]
  BY <1>2
<1>4. PICK f1 \in 0 .. 9, f2 \in 0 .. 9, f3 \in 0 .. 9 : f1 = fraction[1] /\ f2 = fraction[2] /\ f3 = fraction[3]
  <2> HIDE DEF base, fraction
  <2>1. fraction[1] \in 0 .. 9 /\ fraction[2] \in 0 .. 9 /\ fraction[3] \in 0 .. 9
    BY <1>2
  <2> QED
    BY <2>1
<1>5. (10 * b1 + f1) + (10 * b2 + f2) + (10 * b3 + f3) = 10 * n
  <2>1. PICK r1 \in Int, r2 \in Int, r3 \in Int : r1 = Ratios[1] /\ r2 = Ratios[2] /\ r3 = Ratios[3]
    BY <1>1
  <2>2. r1 = 10 - r2 - r3
    BY <2>1, RatiosAssumption
  <2>3. r1 * n + r2 * n + r3 * n = 10 * n
    BY <2>2
  <2>4. r1 * n = 10 * b1 + f1 /\ r2 * n = 10 * b2 + f2 /\ r3 * n = 10 * b3 + f3
    BY <1>2, <1>3, <1>4, <2>1
  <2> QED
    BY <2>3, <2>4
<1> HIDE DEF base, fraction
<1>6. PICK m \in Int : m = n - (b1 + b2 + b3) /\ left = m
  BY <1>3
<1>7. 10 * m = f1 + f2 + f3 /\ m \in 0 .. 2
  BY <1>5, <1>6
<1>8. /\ Cardinality(before(1)) = (IF 2 \in before(1) THEN 1 ELSE 0) + (IF 3 \in before(1) THEN 1 ELSE 0)
      /\ Cardinality(before(2)) = (IF 1 \in before(2) THEN 1 ELSE 0) + (IF 3 \in before(2) THEN 1 ELSE 0)
      /\ Cardinality(before(3)) = (IF 1 \in before(3) THEN 1 ELSE 0) + (IF 2 \in before(3) THEN 1 ELSE 0)
  <2>1. before(1) \subseteq {2, 3} /\ before(2) \subseteq {1, 3} /\ before(3) \subseteq {1, 2}
    BY <1>2
  <2> HIDE DEF before
  <2> QED
    BY <2>1, PartOfPair
<1>9. /\ 2 \in before(1) <=> f2 > f1
      /\ 3 \in before(1) <=> f3 > f1
      /\ 1 \in before(2) <=> f1 >= f2
      /\ 3 \in before(2) <=> f3 > f2
      /\ 1 \in before(3) <=> f1 >= f3
      /\ 2 \in before(3) <=> f2 >= f3
  BY <1>4
<1>10. PICK c1 \in Int, c2 \in Int, c3 \in Int :
          c1 = Cardinality(before(1)) /\ c2 = Cardinality(before(2)) /\ c3 = Cardinality(before(3))
  <2> HIDE DEF before
  <2>1. Cardinality(before(1)) \in Int /\ Cardinality(before(2)) \in Int /\ Cardinality(before(3)) \in Int
    BY <1>8
  <2> QED
    BY <2>1
<1> HIDE DEF before, left
<1>11. /\ c1 = (IF f2 > f1 THEN 1 ELSE 0) + (IF f3 > f1 THEN 1 ELSE 0)
       /\ c2 = (IF f1 >= f2 THEN 1 ELSE 0) + (IF f3 > f2 THEN 1 ELSE 0)
       /\ c3 = (IF f1 >= f3 THEN 1 ELSE 0) + (IF f2 >= f3 THEN 1 ELSE 0)
  BY <1>8, <1>9, <1>10
<1>12. (IF c1 < m THEN 1 ELSE 0) + (IF c2 < m THEN 1 ELSE 0) + (IF c3 < m THEN 1 ELSE 0) = m
  BY <1>7, <1>11
<1>13. /\ LargestRemainder(n, Ratios)[1] = b1 + (IF c1 < m THEN 1 ELSE 0)
       /\ LargestRemainder(n, Ratios)[2] = b2 + (IF c2 < m THEN 1 ELSE 0)
       /\ LargestRemainder(n, Ratios)[3] = b3 + (IF c3 < m THEN 1 ELSE 0)
  <2>1. \A i \in 1 .. 3 : LargestRemainder(n, Ratios)[i] = base[i] + (IF Cardinality(before(i)) < left THEN 1 ELSE 0)
    BY DEF LargestRemainder, base, fraction, before, left
  <2> QED
    BY <1>3, <1>6, <1>10, <2>1
<1> QED
  BY <1>6, <1>12, <1>13

-----------------------------------------------------------------------------
(* What the builder writes *)

\* A valid row is clipped to the image and loses its confidence: only an oriented box may
\* lose its area with it.
LEMMA WrittenRow ==
    ASSUME task \in DOMAIN FIELD_COUNT, NEW r \in Row, RowValid(r), NEW count, r.cls < count,
           NEW w, w = WriteRow(r)
    PROVE  /\ Within(w, 0)
           /\ \/ RowTrainable(w, count)
              \/ task = "OBB" /\ EnclosesNoArea(w.coords) /\ w.conf = "none" /\ w.cls < count
<1> DEFINE n == FIELD_COUNT[task]
<1>1. PICK clipped : clipped = [i \in DOMAIN r.coords |-> Clip(r.coords[i])]
  OBVIOUS
<1>2. r.coords \in Seq(Int) /\ Len(r.coords) = n /\ n \in Nat /\ DOMAIN r.coords = 1 .. n
  BY DEF Row, RowValid, FIELD_COUNT
<1>0. Min({Len(r.coords), n}) = n /\ Len(r.coords) >= n
  <2> HIDE DEF n
  <2>1. {Len(r.coords), n} = {n}
    BY <1>2
  <2> QED
    BY <1>2, <2>1 DEF Min
<1>3. w.coords = clipped /\ w.conf = "none" /\ w.cls = r.cls /\ w.finite = r.finite
  <2>1. PICK a, b, c, d, e : r = [cls |-> a, coords |-> b, finite |-> c, conf |-> d, plain |-> e]
    BY DEF Row
  <2>2. w = [r EXCEPT !.conf = "none", !.coords = clipped]
    BY <1>0, <1>1, <1>2 DEF WriteRow
  <2> QED
    BY <2>1, <2>2
<1>4. Len(clipped) = Len(r.coords) /\ DOMAIN clipped = DOMAIN r.coords
  BY <1>1, <1>2
<1>5. ASSUME NEW i \in DOMAIN r.coords
      PROVE  /\ r.coords[i] \in Int /\ clipped[i] \in Int
             /\ 0 <= clipped[i] /\ clipped[i] <= 10
             /\ r.coords[i] > 0 => clipped[i] > 0
  <2>1. r.coords[i] \in Int /\ clipped[i] = Clip(r.coords[i])
    BY <1>1, <1>2
  <2> QED
    BY <2>1 DEF Clip, Edge
<1>6. Within(w, 0) /\ Within(w, Tolerance)
  <2> SUFFICES ASSUME NEW i \in DOMAIN w.coords
               PROVE  w.coords[i] \in -0 .. Edge + 0 /\ w.coords[i] \in -1 .. Edge + 1
    BY DEF Within, Tolerance
  <2>1. w.coords[i] \in Int /\ 0 <= w.coords[i] /\ w.coords[i] <= 10
    BY <1>3, <1>4, <1>5 DEF Edge
  <2> QED
    BY <2>1 DEF Edge
<1>7. ASSUME task = "DETECT"
      PROVE  clipped[3] > 0 /\ clipped[4] > 0
  <2>1. Len(r.coords) = 4 /\ r.coords[3] > 0 /\ r.coords[4] > 0
    BY <1>7 DEF RowValid, FIELD_COUNT
  <2>2. 3 \in DOMAIN r.coords /\ 4 \in DOMAIN r.coords
    BY <1>2, <2>1
  <2> QED
    BY <1>5, <2>1, <2>2
<1>8. Len(w.coords) = FIELD_COUNT[task] /\ w.cls >= 0 /\ w.finite
  BY <1>3, <1>4 DEF RowValid
<1>9. RowValid(w) \/ (task = "OBB" /\ EnclosesNoArea(w.coords))
  <2>1. task = "DETECT" => w.coords[3] > 0 /\ w.coords[4] > 0
    BY <1>3, <1>7
  <2>2. w.conf # "bad"
    BY <1>3
  <2> QED
    BY <1>6, <1>8, <2>1, <2>2 DEF RowValid
<1>10. w.cls < count
  BY <1>3
<1> QED
  BY <1>3, <1>6, <1>9, <1>10 DEF RowTrainable

\* A valid row of a file that is copied as it is needs nothing of this.
LEMMA CopiedRow ==
    ASSUME task \in DOMAIN FIELD_COUNT, NEW l \in Label, ~NeedsRewrite(l), NEW r \in Range(l.rows),
           RowValid(r), NEW count, r.cls < count
    PROVE  Within(r, 0) /\ RowTrainable(r, count)
<1>1. r \in Row
  BY DEF Label, Range
<1>2. r.coords \in Seq(Int) /\ Len(r.coords) = FIELD_COUNT[task] /\ FIELD_COUNT[task] \in Nat
  BY <1>1 DEF Row, RowValid, FIELD_COUNT
<1>3. r.conf = "none"
  BY <1>2 DEF NeedsRewrite
<1>4. \A i \in DOMAIN r.coords : r.coords[i] \in 0 .. Edge
  BY <1>2 DEF NeedsRewrite
<1>5. \A i \in DOMAIN r.coords : r.coords[i] \in -0 .. Edge + 0
  BY <1>4 DEF Edge
<1>6. Within(r, 0)
  BY <1>5 DEF Within
<1> QED
  BY <1>3, <1>6 DEF RowTrainable

\* What is written of a READY scan whose folder is still the same can be trained on.
LEMMA BuiltRows ==
    ASSUME task \in DOMAIN FIELD_COUNT, NEW f \in Folders, Len(override) \in Nat, NEW fallback \in Fallbacks,
           scan = Scanned(f, override, fallback), scan.status = "READY", ~SourceChanged, NEW w \in Built.rows
    PROVE  /\ Within(w, 0)
           /\ \/ RowTrainable(w, Len(scan.names))
              \/ task = "OBB" /\ EnclosesNoArea(w.coords) /\ w.conf = "none" /\ w.cls < Len(scan.names)
<1> DEFINE left == Remaining(f)
<1>1. folder.labels = left.labels
  BY DEF SourceChanged, ContentHash, Scanned
<1>2. PICK s \in scan.pairs : w \in WriteLabel(folder.labels[s])
  BY DEF Built, Failed
<1> DEFINE l == left.labels[s]
<1>3. s \in Paired(left) /\ LabelValid(l) /\ \A c \in ClassIds(l) : c < Len(scan.names)
  BY <1>2, ReadyMeans
<1>4. l \in Label
  BY <1>3, RemainingIs, FolderType DEF Paired
<1>5. \A r \in Range(l.rows) : r \in Row /\ RowValid(r) /\ r.cls < Len(scan.names)
  <2> SUFFICES ASSUME NEW r \in Range(l.rows)
               PROVE  r \in Row /\ RowValid(r) /\ r.cls < Len(scan.names)
    OBVIOUS
  <2>1. r \in Row
    BY <1>4 DEF Label, Range
  <2>2. RowValid(r) /\ r.cls \in ClassIds(l)
    BY <1>3 DEF LabelValid, ClassIds
  <2> QED
    BY <1>3, <2>1, <2>2
<1>6. w \in WriteLabel(l)
  BY <1>1, <1>2
<1> HIDE DEF l, left
<1>7. CASE NeedsRewrite(l)
  <2>1. PICK r \in Range(l.rows) : w = WriteRow(r)
    BY <1>6, <1>7 DEF WriteLabel
  <2> QED
    BY <1>5, <2>1, WrittenRow
<1>8. CASE ~NeedsRewrite(l)
  <2>1. w \in Range(l.rows)
    BY <1>6, <1>8 DEF WriteLabel
  <2> QED
    BY <1>4, <1>5, <1>8, <2>1, CopiedRow
<1> QED
  BY <1>7, <1>8

\* A folder that is as the READY scan left it passes the check of the builder.
LEMMA Unchanged ==
    ASSUME task \in DOMAIN FIELD_COUNT, NEW f \in Folders, Len(override) \in Nat, NEW fallback \in Fallbacks,
           scan = Scanned(f, override, fallback), scan.status = "READY", folder = AfterRemoval(f)
    PROVE  ~SourceChanged /\ ~CannotCopy /\ scan.pairs # {}
<1> DEFINE left == Remaining(f)
<1>1. scan.pairs = Paired(left) /\ Paired(left) # {} /\ \A s \in Paired(left) : LabelValid(left.labels[s])
  BY ReadyMeans
<1>2. folder = left /\ scan.hash = ContentHash(left) /\ scan.upper = scan.pairs \cap left.upper
  BY RemainingIs DEF Scanned
<1> HIDE DEF left
<1> QED
  BY <1>1, <1>2 DEF SourceChanged, CannotCopy, LabelValid

\* It is built, and all its pairs are.
LEMMA BuiltWhole ==
    ASSUME task \in DOMAIN FIELD_COUNT, NEW f \in Folders, Len(override) \in Nat, NEW fallback \in Fallbacks,
           scan = Scanned(f, override, fallback), scan.status = "READY", folder = AfterRemoval(f)
    PROVE  /\ Built.error = "none"
           /\ Built.counts[1] + Built.counts[2] + Built.counts[3] = Cardinality(scan.pairs)
<1> DEFINE left == Remaining(f)
<1>1. scan.pairs = Paired(left)
  BY ReadyMeans
<1>2. ~CannotCopy
  BY Unchanged
<1>3. IsFiniteSet(scan.pairs)
  BY <1>1, RemainingIs, FolderType, ContentAssumption, FS_Subset DEF Paired
<1>4. Cardinality(scan.pairs) \in Nat
  BY <1>3, FS_CardinalityType
<1>5. Built.error = "none" /\ Built.counts = LargestRemainder(Cardinality(scan.pairs), Ratios)
  BY <1>2 DEF Built
<1> QED
  BY <1>4, <1>5, SplitsAddUp

-----------------------------------------------------------------------------
(* The inductive invariant *)

\* Every variable keeps to its domain; folders are those of the task.
TypeOK ==
    /\ task \in DOMAIN FIELD_COUNT
    /\ folder \in Folders
    /\ override \in Overrides \cup {<<>>}
    /\ configured \in BOOLEAN /\ touched \in BOOLEAN
    /\ checked \in {"no", "yes", "edited"}

\* A scan is that of some folder, under the override of today, and as long as nobody
\* edits it the folder is what that scan left.
ScanIsOfFolder ==
    scan # <<>> => \E f \in Folders, fallback \in Fallbacks :
                      /\ scan = Scanned(f, override, fallback)
                      /\ ~touched => folder = AfterRemoval(f)

\* Between the check and the copy the folder is the one that was scanned, unless edited.
CheckHolds ==
    /\ checked # "no" => scan # <<>>
    /\ checked = "yes" /\ build = <<>> => ~SourceChanged

IInv == TypeOK /\ ScanIsOfFolder /\ CheckHolds /\ BuiltIsTrainable /\ ReadyFolderBuilds

\* An override has a length.
LEMMA OverrideLength ==
    ASSUME TypeOK
    PROVE  Len(override) \in Nat
<1>1. Len(<<>>) = 0
  OBVIOUS
<1> QED
  BY <1>1, ContentAssumption DEF TypeOK

\* The task of a dataset type does not change, nor does what depends on it.
LEMMA TaskStays ==
    ASSUME task' = task
    PROVE  /\ Folders' = Folders
           /\ \A f, over, fallback : Scanned(f, over, fallback)' = Scanned(f, over, fallback)
           /\ \A r, count : RowTrainable(r, count)' = RowTrainable(r, count)
<1>1. Folders' = Folders
  BY DEF Folders, Files
<1>2. \A r : RowValid(r)' = RowValid(r)
  BY DEF RowValid
<1>3. \A l : LabelValid(l)' = LabelValid(l)
  BY <1>2 DEF LabelValid
<1>4. \A l : ClassIds(l)' = ClassIds(l)
  BY <1>2 DEF ClassIds
<1>5. \A f : MaxUsed(f)' = MaxUsed(f)
  BY <1>4 DEF MaxUsed, Used
<1>6. \A f, over, fallback : ClassNames(f, over, fallback)' = ClassNames(f, over, fallback)
  BY <1>5 DEF ClassNames, ClassesSource
<1>7. \A before, f, over, fallback : Errors(before, f, over, fallback)' = Errors(before, f, over, fallback)
  BY <1>3, <1>5, <1>6 DEF Errors
<1>8. \A f, over, fallback : ClassesSource(f, over, fallback)' = ClassesSource(f, over, fallback)
  BY DEF ClassesSource
<1>9. \A f, over, fallback : Scanned(f, over, fallback)' = Scanned(f, over, fallback)
  BY <1>3, <1>6, <1>7, <1>8 DEF Scanned
<1>10. \A r, count : RowTrainable(r, count)' = RowTrainable(r, count)
  BY <1>2 DEF RowTrainable
<1> QED
  BY <1>1, <1>9, <1>10

LEMMA InitHolds ==
    ASSUME Init
    PROVE  IInv
<1>1. TypeOK
  BY DEF Init, TypeOK, Folders
<1> QED
  BY <1>1 DEF Init, IInv, ScanIsOfFolder, CheckHolds, BuiltIsTrainable, ReadyFolderBuilds

LEMMA ScanKeeps ==
    ASSUME IInv, Scan
    PROVE  IInv'
<1>1. task' = task /\ override' = override /\ folder \in Folders /\ task \in DOMAIN FIELD_COUNT
  BY DEF Scan, IInv, TypeOK
<1>2. folder' = AfterRemoval(folder) /\ folder' \in Folders
  BY <1>1, RemainingIs DEF Scan
<1>3. TypeOK'
  BY <1>1, <1>2, TaskStays DEF Scan, IInv, TypeOK
<1>4. ScanIsOfFolder'
  <2>1. PICK f, over : f \in Folders /\ f = folder /\ over = override
    BY <1>1
  <2>2. PICK fallback \in Fallbacks :
            scan' = Scanned(f, over, fallback) /\ folder' = AfterRemoval(f) /\ over = override'
    BY <1>1, <2>1 DEF Scan
  <2>3. f \in Folders' /\ Scanned(f, over, fallback)' = Scanned(f, over, fallback) /\ AfterRemoval(f)' = AfterRemoval(f)
    BY <1>1, <2>1, TaskStays DEF AfterRemoval, Removed
  <2> QED
    BY <2>2, <2>3 DEF ScanIsOfFolder
<1>5. CheckHolds' /\ BuiltIsTrainable' /\ ReadyFolderBuilds'
  BY DEF Scan, CheckHolds, BuiltIsTrainable, ReadyFolderBuilds
<1> QED
  BY <1>3, <1>4, <1>5 DEF IInv

\* Steps that leave folder, override and scan alone.
LEMMA ScanStays ==
    ASSUME IInv, UNCHANGED <<task, folder, override, scan, touched>>
    PROVE  ScanIsOfFolder'
<1>1. CASE scan = <<>>
  BY <1>1 DEF ScanIsOfFolder
<1>2. CASE scan # <<>>
  <2>1. PICK f, over, fallback :
               /\ f \in Folders /\ over = override /\ fallback \in Fallbacks /\ scan = Scanned(f, over, fallback)
               /\ ~touched => folder = AfterRemoval(f)
    BY <1>2 DEF IInv, ScanIsOfFolder
  <2>2. f \in Folders' /\ Scanned(f, over, fallback)' = Scanned(f, over, fallback) /\ AfterRemoval(f)' = AfterRemoval(f)
    BY <2>1, TaskStays DEF AfterRemoval, Removed
  <2> QED
    BY <2>1, <2>2 DEF ScanIsOfFolder
<1> QED
  BY <1>1, <1>2

\* Steps that leave the build alone.
LEMMA BuildStays ==
    ASSUME IInv, UNCHANGED <<task, scan, build>>, touched => touched', build # <<>> => checked' = checked
    PROVE  BuiltIsTrainable' /\ ReadyFolderBuilds'
<1>1. BuiltIsTrainable'
  BY TaskStays DEF IInv, BuiltIsTrainable, Within
<1>2. ReadyFolderBuilds'
  BY DEF IInv, ReadyFolderBuilds
<1> QED
  BY <1>1, <1>2

\* What the builder checks and copies depends on these variables only.
LEMMA CheckStays ==
    ASSUME IInv, UNCHANGED <<task, folder, scan, build, checked>>
    PROVE  CheckHolds'
BY DEF IInv, CheckHolds, SourceChanged, ContentHash, Paired

LEMMA ConfigureBuildKeeps ==
    ASSUME IInv, ConfigureBuild
    PROVE  IInv'
<1>1. TypeOK'
  BY TaskStays DEF ConfigureBuild, IInv, TypeOK
<1>2. ScanIsOfFolder' /\ CheckHolds'
  BY ScanStays, CheckStays DEF ConfigureBuild
<1>3. BuiltIsTrainable' /\ ReadyFolderBuilds'
  BY BuildStays DEF ConfigureBuild
<1> QED
  BY <1>1, <1>2, <1>3 DEF IInv

\* A READY scan nobody touched has the folder it left.
LEMMA ScanOf ==
    ASSUME IInv, scan # <<>>
    PROVE  \E f \in Folders, fallback \in Fallbacks :
              /\ scan = Scanned(f, override, fallback)
              /\ ~touched => folder = AfterRemoval(f)
              /\ Len(override) \in Nat /\ task \in DOMAIN FIELD_COUNT
BY OverrideLength DEF IInv, TypeOK, ScanIsOfFolder

LEMMA CollectPairsKeeps ==
    ASSUME IInv, CollectPairs
    PROVE  IInv'
<1>1. TypeOK'
  BY TaskStays DEF CollectPairs, IInv, TypeOK
<1>2. ScanIsOfFolder'
  BY ScanStays DEF CollectPairs
<1>3. UNCHANGED <<task, folder, scan, touched>> /\ scan # <<>>
  BY DEF CollectPairs
<1>4. CheckHolds'
  <2>1. SourceChanged' = SourceChanged
    BY <1>3 DEF SourceChanged, ContentHash, Paired
  <2> QED
    BY <1>3, <2>1 DEF CollectPairs, CheckHolds
<1>5. build' # <<>> => build'.rows = {}
  BY DEF CollectPairs, Failed
<1>6. BuiltIsTrainable'
  BY <1>5 DEF BuiltIsTrainable
<1>7. ReadyFolderBuilds'
  <2>1. ASSUME scan.status = "READY", ~touched
        PROVE  ~SourceChanged /\ scan.pairs # {}
    BY <1>3, <2>1, ScanOf, Unchanged
  <2>2. build' # <<>> => SourceChanged \/ scan.pairs = {}
    BY DEF CollectPairs
  <2> QED
    BY <1>3, <2>1, <2>2 DEF ReadyFolderBuilds
<1> QED
  BY <1>1, <1>2, <1>4, <1>6, <1>7 DEF IInv

LEMMA MaterialiseKeeps ==
    ASSUME IInv, Materialise
    PROVE  IInv'
<1>1. TypeOK'
  BY TaskStays DEF Materialise, IInv, TypeOK
<1>2. ScanIsOfFolder'
  BY ScanStays DEF Materialise
<1>3. build' = Built /\ UNCHANGED <<task, scan, touched, checked>> /\ build = <<>> /\ scan # <<>>
  BY DEF Materialise, IInv, CheckHolds
<1>4. CheckHolds'
  <2>1. Built # <<>>
    <3>1. "error" \in DOMAIN Built /\ "error" \notin DOMAIN <<>>
      BY DEF Built, Failed
    <3> QED
      BY <3>1
  <2> QED
    BY <1>3, <2>1 DEF CheckHolds
<1>5. BuiltIsTrainable'
  <2>1. ASSUME scan.status = "READY", checked # "edited", NEW w \in Built.rows
        PROVE  /\ Within(w, 0)
               /\ \/ RowTrainable(w, Len(scan.names))
                  \/ task = "OBB" /\ EnclosesNoArea(w.coords) /\ w.conf = "none" /\ w.cls < Len(scan.names)
    <3>1. ~SourceChanged
      BY <1>3, <2>1 DEF Materialise, IInv, TypeOK, CheckHolds
    <3> QED
      BY <1>3, <2>1, <3>1, ScanOf, BuiltRows
  <2> QED
    BY <1>3, <2>1, TaskStays DEF BuiltIsTrainable, Within
<1>6. ReadyFolderBuilds'
  <2>1. ASSUME scan.status = "READY", ~touched
        PROVE  /\ Built.error = "none"
               /\ Built.counts[1] + Built.counts[2] + Built.counts[3] = Cardinality(scan.pairs)
    BY <1>3, <2>1, ScanOf, BuiltWhole
  <2> QED
    BY <1>3, <2>1 DEF ReadyFolderBuilds
<1> QED
  BY <1>1, <1>2, <1>4, <1>5, <1>6 DEF IInv

LEMMA SetClassesOverrideKeeps ==
    ASSUME IInv, NEW names \in Overrides, SetClassesOverride(names)
    PROVE  IInv'
<1>1. TypeOK'
  BY TaskStays DEF SetClassesOverride, IInv, TypeOK
<1>2. ScanIsOfFolder' /\ CheckHolds' /\ BuiltIsTrainable' /\ ReadyFolderBuilds'
  BY DEF SetClassesOverride, ScanIsOfFolder, CheckHolds, BuiltIsTrainable, ReadyFolderBuilds
<1> QED
  BY <1>1, <1>2 DEF IInv

\* What somebody edits is still a folder.
LEMMA EditedFolder ==
    ASSUME IInv, Edit
    PROVE  folder' \in Folders
<1>1. PICK s \in Stems :
         \/ folder' = [folder EXCEPT !.images = Restrict(@, DOMAIN @ \ {s})]
         \/ \E l \in Labels[task] :
               folder' = [folder EXCEPT !.labels = [x \in DOMAIN @ \cup {s} |-> IF x = s THEN l ELSE @[x]]]
         \/ folder' = [folder EXCEPT !.upper = SymDiff(@, {s})]
  BY DEF Edit
<1>2. PICK im, lb, cl, up : folder = [images |-> im, labels |-> lb, classes |-> cl, upper |-> up]
  BY FolderType DEF IInv, TypeOK
<1>3. /\ DOMAIN im \in SUBSET Stems /\ DOMAIN lb \in SUBSET Stems
      /\ im \in [DOMAIN im -> Images] /\ lb \in [DOMAIN lb -> Labels[task]] /\ cl \in ClassFiles
      /\ up \in SUBSET Stems
  BY <1>2, FolderType DEF IInv, TypeOK
<1>4. CASE folder' = [folder EXCEPT !.images = Restrict(@, DOMAIN @ \ {s})]
  <2> DEFINE I == DOMAIN im \ {s}
             rest == [x \in I |-> im[x]]
  <2>1. folder' = [images |-> rest, labels |-> lb, classes |-> cl, upper |-> up]
    BY <1>2, <1>4 DEF Restrict
  <2>2. rest \in [I -> Images] /\ I \in SUBSET Stems
    BY <1>3
  <2> QED
    BY <1>3, <2>1, <2>2, FolderIs
<1>5. ASSUME NEW l \in Labels[task],
             folder' = [folder EXCEPT !.labels = [x \in DOMAIN @ \cup {s} |-> IF x = s THEN l ELSE @[x]]]
      PROVE  folder' \in Folders
  <2> DEFINE L == DOMAIN lb \cup {s}
             more == [x \in L |-> IF x = s THEN l ELSE lb[x]]
  <2>1. folder' = [images |-> im, labels |-> more, classes |-> cl, upper |-> up]
    BY <1>2, <1>5
  <2>2. more \in [L -> Labels[task]] /\ L \in SUBSET Stems
    BY <1>3
  <2> QED
    BY <1>3, <2>1, <2>2, FolderIs
<1>6. CASE folder' = [folder EXCEPT !.upper = SymDiff(@, {s})]
  <2>1. folder' = [images |-> im, labels |-> lb, classes |-> cl, upper |-> SymDiff(up, {s})]
    BY <1>2, <1>6
  <2>2. SymDiff(up, {s}) \in SUBSET Stems
    BY <1>3 DEF SymDiff
  <2> QED
    BY <1>3, <2>1, <2>2, FolderIs
<1> QED
  BY <1>1, <1>4, <1>5, <1>6

LEMMA EditKeeps ==
    ASSUME IInv, Edit
    PROVE  IInv'
<1>1. TypeOK'
  BY EditedFolder, TaskStays DEF Edit, IInv, TypeOK
<1>2. ScanIsOfFolder'
  <2>1. PICK f, over, fallback :
            f \in Folders /\ over = override /\ fallback \in Fallbacks /\ scan = Scanned(f, over, fallback)
    BY DEF Edit, IInv, ScanIsOfFolder
  <2>2. f \in Folders' /\ Scanned(f, over, fallback)' = Scanned(f, over, fallback)
    BY <2>1, TaskStays DEF Edit
  <2> QED
    BY <2>1, <2>2 DEF Edit, ScanIsOfFolder
<1>3. BuiltIsTrainable' /\ ReadyFolderBuilds'
  BY BuildStays DEF Edit
<1>4. CheckHolds'
  BY DEF Edit, CheckHolds, IInv
<1> QED
  BY <1>1, <1>2, <1>3, <1>4 DEF IInv

LEMMA StepKeeps ==
    ASSUME IInv, [Next]_vars
    PROVE  IInv'
<1>1. CASE UNCHANGED vars
  <2>1. TypeOK'
    BY <1>1, TaskStays DEF vars, IInv, TypeOK
  <2>2. ScanIsOfFolder' /\ CheckHolds'
    BY <1>1, ScanStays, CheckStays DEF vars
  <2>3. BuiltIsTrainable' /\ ReadyFolderBuilds'
    BY <1>1, BuildStays DEF vars
  <2> QED
    BY <2>1, <2>2, <2>3 DEF IInv
<1> QED
  BY <1>1, ScanKeeps, ConfigureBuildKeeps, CollectPairsKeeps, MaterialiseKeeps, SetClassesOverrideKeeps, EditKeeps DEF Next

-----------------------------------------------------------------------------
(* Theorems about scans and builds *)

\* The inductive invariant holds of every state.
THEOREM Invariant == Spec => []IInv
BY InitHolds, StepKeeps, PTL DEF Spec

\* Every variable keeps to its domain.
THEOREM TypeCorrect == Spec => []TypeOK
<1>1. IInv => TypeOK
  BY DEF IInv
<1> QED
  BY <1>1, Invariant, PTL

\* Whatever the folder holds and whoever edits it, what is built from a READY scan can be
\* trained on, unless the edit falls between the builder's check and its copy.
THEOREM BuiltTrainable == Spec => []BuiltIsTrainable
<1>1. IInv => BuiltIsTrainable
  BY DEF IInv
<1> QED
  BY <1>1, Invariant, PTL

\* A folder as a READY scan left it is built, and every pair lands in one split.
THEOREM ReadyBuilds == Spec => []ReadyFolderBuilds
<1>1. IInv => ReadyFolderBuilds
  BY DEF IInv
<1> QED
  BY <1>1, Invariant, PTL

\* What a scan finds that does not depend on the class list is found again; all of it is,
\* unless the list comes or came from the dataset type.
LEMMA SameUnderAnyFallback ==
    ASSUME NEW f \in Folders, NEW over, NEW a, NEW b
    PROVE  /\ Scanned(f, over, a).pairs = Scanned(f, over, b).pairs
           /\ Scanned(f, over, a).upper = Scanned(f, over, b).upper
           /\ Scanned(f, over, a).hash = Scanned(f, over, b).hash
           /\ \/ Scanned(f, over, a) = Scanned(f, over, b)
              \/ "TYPE_FALLBACK" \in {Scanned(f, over, a).source, Scanned(f, over, b).source}
<1> DEFINE left == Remaining(f)
<1>1. ASSUME ClassesSource(left, over, a) # "TYPE_FALLBACK", ClassesSource(left, over, b) # "TYPE_FALLBACK"
      PROVE  Scanned(f, over, a) = Scanned(f, over, b)
  <2> HIDE DEF left
  <2>1. ClassesSource(left, over, a) = ClassesSource(left, over, b)
    BY <1>1 DEF ClassesSource
  <2>2. ClassNames(left, over, a) = ClassNames(left, over, b)
    BY <1>1, <2>1 DEF ClassNames
  <2>3. Errors(f, left, over, a) = Errors(f, left, over, b)
    BY <2>2 DEF Errors
  <2> QED
    BY <2>1, <2>2, <2>3 DEF Scanned, left
<1>2. Scanned(f, over, a).source = ClassesSource(left, over, a) /\ Scanned(f, over, b).source = ClassesSource(left, over, b)
  BY DEF Scanned
<1> QED
  BY <1>1, <1>2 DEF Scanned

\* A rescan of what nobody touched finds the same pairs and hash, and the same list and verdict
\* unless the list is or was the type's.
THEOREM RescanAgreeing == Spec => RescanAgrees
<1>1. ASSUME IInv, [Next]_vars, Scan, scan # <<>>, scan.status = "READY", ~touched
      PROVE  /\ scan'.pairs = scan.pairs /\ scan'.upper = scan.upper /\ scan'.hash = scan.hash
             /\ scan' = scan \/ "TYPE_FALLBACK" \in {scan.source, scan'.source}
  <2>1. PICK f \in Folders, fallback \in Fallbacks :
            scan = Scanned(f, override, fallback) /\ folder = AfterRemoval(f)
    BY <1>1 DEF IInv, ScanIsOfFolder
  <2>2. task \in DOMAIN FIELD_COUNT /\ Len(override) \in Nat
    BY <1>1, OverrideLength DEF IInv, TypeOK
  <2>3. folder = Remaining(f) /\ folder \in Folders
    BY <2>1, <2>2, RemainingIs
  <2>4. Scanned(folder, override, fallback) = Scanned(f, override, fallback)
    BY <1>1, <2>1, <2>2, <2>3, ScannedAgain
  <2>5. PICK other \in Fallbacks : scan' = Scanned(folder, override, other)
    BY <1>1 DEF Scan
  <2> QED
    BY <2>1, <2>3, <2>4, <2>5, SameUnderAnyFallback
<1> QED
  BY <1>1, Invariant, PTL DEF Spec, RescanAgrees

\* A class list that was let through covers every label of the scan that follows, except those
\* the API reads otherwise than the scanner.
THEOREM OverrideCovers == Spec => AcceptedOverrideCovers
<1>1. ASSUME IInv, [Next]_vars, override' # override, override' # <<>>, NEW fallback \in Fallbacks,
             "DATASET_CLASS_INDEX_GAP" \in Scanned(folder', override', fallback).errors
      PROVE  \E s \in Paired(folder') :
                 ~ReadAlike(folder', s) /\ \E c \in ClassIds(folder'.labels[s]) : c >= Len(override')
  <2>1. PICK names \in Overrides : SetClassesOverride(names)
    BY <1>1 DEF Next, Scan, ConfigureBuild, CollectPairs, Materialise, Edit, vars
  <2>2. override' = names /\ folder' = folder /\ names # <<>> /\ ~OutOfRange(folder, Len(names))
    BY <1>1, <2>1 DEF SetClassesOverride
  <2>3. Len(names) \in Nat
    BY ContentAssumption
  <2>4. task \in DOMAIN FIELD_COUNT /\ folder \in Folders
    BY <1>1 DEF IInv, TypeOK
  <2>5. \E s \in Paired(folder) : ~ReadAlike(folder, s) /\ \E c \in ClassIds(folder.labels[s]) : c >= Len(names)
    BY <1>1, <2>2, <2>3, <2>4, Covered
  <2> QED
    BY <2>2, <2>5
<1>2. IInv /\ [Next]_vars =>
          [override' # override /\ override' # <<>> =>
              \A fallback \in Fallbacks :
                  "DATASET_CLASS_INDEX_GAP" \in Scanned(folder', override', fallback).errors =>
                      \E s \in Paired(folder') :
                          /\ ~ReadAlike(folder', s)
                          /\ \E c \in ClassIds(folder'.labels[s]) : c >= Len(override')]_vars
  BY <1>1
<1> QED
  BY <1>2, Invariant, PTL DEF Spec, AcceptedOverrideCovers

-----------------------------------------------------------------------------
(* Labels of an inference run *)

\* While a run is followed, its folder is as a READY scan left it, and each id of its labels is
\* in the list of the run and, where the label is read alike, in the override of today.
RunIsComparable ==
    run # NoClasses =>
        /\ task = "DETECT" /\ Removed(folder) = {} /\ Len(run) \in Nat
        /\ \A s \in Paired(folder) :
              /\ LabelValid(folder.labels[s])
              /\ \A c \in ClassIds(folder.labels[s]) :
                    c < Len(run) /\ (override # <<>> /\ ReadAlike(folder, s) => c < Len(override))

DiffsIInv == IInv /\ RunIsComparable

LEMMA CreateRunKeeps ==
    ASSUME DiffsIInv, CreateRun
    PROVE  RunIsComparable'
<1>1. PICK f \in Folders, fallback \in Fallbacks : scan = Scanned(f, override, fallback) /\ folder = AfterRemoval(f)
  BY DEF CreateRun, DiffsIInv, IInv, ScanIsOfFolder
<1>2. task \in DOMAIN FIELD_COUNT /\ Len(override) \in Nat /\ scan.status = "READY"
  BY OverrideLength DEF CreateRun, DiffsIInv, IInv, TypeOK
<1>3. folder = Remaining(f) /\ Removed(folder) = {}
  BY <1>1, <1>2, RemainingIs, RemainingAgain
<1>4. /\ Len(scan.names) \in Nat
      /\ \A s \in Paired(folder) : /\ LabelValid(folder.labels[s])
                                 /\ \A c \in ClassIds(folder.labels[s]) : c < Len(scan.names)
  BY <1>1, <1>2, <1>3, ReadyMeans
<1>5. override # <<>> => override = scan.names
  BY <1>1 DEF Scanned, ClassNames, ClassesSource
<1>6. UNCHANGED vars /\ run' = scan.names /\ task = "DETECT"
  BY DEF CreateRun
<1>7. /\ task' = "DETECT" /\ Removed(folder)' = {} /\ Len(run)' \in Nat
  BY <1>3, <1>4, <1>6 DEF vars, Removed
<1>8. \A l : LabelValid(l)' = LabelValid(l) /\ ClassIds(l)' = ClassIds(l)
  BY <1>6 DEF vars, LabelValid, ClassIds, RowValid
<1>9. Paired(folder)' = Paired(folder)
  BY <1>6 DEF vars, Paired
<1> QED
  BY <1>4, <1>5, <1>6, <1>7, <1>8, <1>9 DEF vars, RunIsComparable, ReadAlike

\* A scan during a run removes nothing.
LEMMA RunSurvivesScan ==
    ASSUME DiffsIInv, Scan, UNCHANGED run
    PROVE  RunIsComparable'
<1> SUFFICES ASSUME run # NoClasses
             PROVE  RunIsComparable'
  BY DEF RunIsComparable
<1>1. task \in DOMAIN FIELD_COUNT /\ folder \in Folders
  BY DEF DiffsIInv, IInv, TypeOK
<1>2. folder' = folder
  BY <1>1, RemainingIs, NothingRemoved DEF Scan, DiffsIInv, RunIsComparable
<1>3. UNCHANGED <<task, override>>
  BY DEF Scan
<1> QED
  BY <1>2, <1>3 DEF DiffsIInv, RunIsComparable, Removed, Paired, LabelValid, ClassIds, RowValid, ReadAlike

LEMMA RunSurvivesOverride ==
    ASSUME DiffsIInv, NEW names \in Overrides, SetClassesOverride(names), UNCHANGED run
    PROVE  RunIsComparable'
<1> SUFFICES ASSUME run # NoClasses
             PROVE  RunIsComparable'
  BY DEF RunIsComparable
<1>1. task \in DOMAIN FIELD_COUNT /\ folder \in Folders /\ Len(names) \in Nat
  BY ContentAssumption DEF DiffsIInv, IInv, TypeOK
<1>2. ASSUME names # <<>>, NEW s \in Paired(folder), ReadAlike(folder, s), NEW c \in ClassIds(folder.labels[s])
      PROVE  c < Len(names)
  BY <1>1, <1>2, InRange DEF SetClassesOverride, Paired
<1>3. UNCHANGED <<task, folder>> /\ override' = names
  BY DEF SetClassesOverride
<1>4. /\ task' = "DETECT" /\ Removed(folder)' = {} /\ Len(run)' \in Nat
  BY <1>3 DEF DiffsIInv, RunIsComparable, Removed
<1>5. \A l : LabelValid(l)' = LabelValid(l) /\ ClassIds(l)' = ClassIds(l)
  BY <1>3 DEF LabelValid, ClassIds, RowValid
<1>6. Paired(folder)' = Paired(folder)
  BY <1>3 DEF Paired
<1> QED
  BY <1>2, <1>3, <1>4, <1>5, <1>6 DEF DiffsIInv, RunIsComparable, ReadAlike

LEMMA RunStays ==
    ASSUME DiffsIInv, UNCHANGED <<task, folder, override, run>>
    PROVE  RunIsComparable'
BY DEF DiffsIInv, RunIsComparable, Removed, Paired, LabelValid, ClassIds, RowValid, ReadAlike

\* What follows runs is a step of datasets.
LEMMA DiffsStep ==
    ASSUME [DiffsNext]_diffVars
    PROVE  [Next]_vars
BY DEF DiffsNext, diffVars, CreateRun, Next

LEMMA DiffsStepKeeps ==
    ASSUME DiffsIInv, [DiffsNext]_diffVars
    PROVE  DiffsIInv'
<1>1. IInv'
  BY DiffsStep, StepKeeps DEF DiffsIInv
<1>2. RunIsComparable'
  <2>1. CASE CreateRun
    BY <2>1, CreateRunKeeps
  <2>2. CASE Scan /\ UNCHANGED run
    BY <2>2, RunSurvivesScan
  <2>3. CASE ConfigureBuild /\ UNCHANGED run
    BY <2>3, RunStays DEF ConfigureBuild
  <2>4. CASE CollectPairs /\ UNCHANGED run
    BY <2>4, RunStays DEF CollectPairs
  <2>8. CASE Materialise /\ UNCHANGED run
    BY <2>8, RunStays DEF Materialise
  <2>5. CASE \E names \in Overrides : SetClassesOverride(names) /\ UNCHANGED run
    BY <2>5, RunSurvivesOverride
  <2>6. CASE Edit /\ run' = NoClasses
    BY <2>6 DEF RunIsComparable, NoClasses
  <2>7. CASE UNCHANGED diffVars
    BY <2>7, RunStays DEF diffVars, vars
  <2> QED
    BY <2>1, <2>2, <2>3, <2>4, <2>5, <2>6, <2>7, <2>8 DEF DiffsNext
<1> QED
  BY <1>1, <1>2 DEF DiffsIInv

\* Datasets that runs look at behave like datasets.
THEOREM DiffsAreOfDatasets == DiffsSpec => Spec
<1>1. DiffsInit => Init
  BY DEF DiffsInit
<1> QED
  BY <1>1, DiffsStep, PTL DEF DiffsSpec, Spec

-----------------------------------------------------------------------------
(* The boxes of a label *)

\* A label that is not empty has a last row.
LEMMA LastRow ==
    ASSUME NEW l \in Label, NEW S \in SUBSET DOMAIN l.rows, S # {}
    PROVE  Max(S) \in S /\ S \ {Max(S)} \in SUBSET S /\ S \ {Max(S)} # S
<1>1. DOMAIN l.rows = 1 .. Len(l.rows) /\ Len(l.rows) \in Nat
  BY DEF Label
<1> QED
  BY <1>1, WithoutMax

\* What read_label_file has after a row.
Kept(boxes, r, count) == IF Usable(r, count) THEN Append(boxes, r) ELSE boxes

\* It takes the rows of a label one by one, the last one last.
LEMMA BoxesFold ==
    ASSUME NEW l \in Label, NEW count, l.readable
    PROVE  \E fold :
              /\ Boxes(l, count) = fold[DOMAIN l.rows]
              /\ fold[{}] = <<>>
              /\ \A S \in SUBSET DOMAIN l.rows : S # {} =>
                    fold[S] = Kept(fold[S \ {Max(S)}], l.rows[Max(S)], count)
<1> DEFINE rows == l.rows
           U == {r \in Row : Usable(r, count)}
           C == DOMAIN rows
           rest == [S \in SUBSET C |-> S \ {Max(S)}]
           step == [S \in SUBSET C |-> [boxes \in Seq(U) |-> Kept(boxes, rows[Max(S)], count)]]
           IsFold(F) == F = [S \in SUBSET C |->
                                IF S = {} THEN <<>> ELSE Kept(F[S \ {Max(S)}], rows[Max(S)], count)]
           fold == CHOOSE F : IsFold(F)
<1>1. rows \in Seq(Row) /\ IsFiniteSet(C)
  <2>1. rows \in Seq(Row)
    BY DEF Label
  <2> QED
    BY <2>1, FS_Interval
<1>2. \A S \in SUBSET C : S # {} => Max(S) \in S /\ rest[S] = S \ {Max(S)} /\ rest[S] \in SUBSET S /\ rest[S] # S
  BY LastRow
<1>3. \A boxes \in Seq(U), i \in C : Kept(boxes, rows[i], count) \in Seq(U)
  BY <1>1 DEF Kept
<1>4. PICK g : DOMAIN g = SUBSET C /\ g = [S \in SUBSET C |-> g[S]] /\ Folded(<<>>, step, rest, C, g)
  <2> HIDE DEF C, rest, step
  <2> QED
    BY <1>1, <1>2, FoldExists
<1>5. \A S \in SUBSET C : g[S] \in Seq(U)
  <2> DEFINE Good == {S \in SUBSET C : g[S] \in Seq(U)}
  <2>1. {} \in Good
    <3>1. g[{}] = <<>>
      BY <1>4 DEF Folded
    <3>2. <<>> \in Seq(U)
      OBVIOUS
    <3> HIDE DEF U
    <3> QED
      BY <3>1, <3>2
  <2>2. ASSUME NEW S \in SUBSET C, S # {}, rest[S] \in Good
        PROVE  S \in Good
    <3>1. g[S] = step[S][g[rest[S]]]
      BY <1>4, <2>2 DEF Folded
    <3>2. g[S] = Kept(g[rest[S]], rows[Max(S)], count)
      BY <2>2, <3>1
    <3>3. g[rest[S]] \in Seq(U) /\ Max(S) \in C
      BY <1>2, <2>2
    <3> HIDE DEF C, U, rest, step
    <3> QED
      BY <1>3, <2>2, <3>2, <3>3
  <2> HIDE DEF C, rest, step, Good
  <2>3. \A S \in SUBSET C : S \in Good
    BY <1>1, <1>2, <2>1, <2>2, SubsetInduction
  <2> QED
    BY <2>3 DEF Good
<1>6. IsFold(g)
  <2>1. ASSUME NEW S \in SUBSET C
        PROVE  g[S] = IF S = {} THEN <<>> ELSE Kept(g[S \ {Max(S)}], rows[Max(S)], count)
    <3>1. CASE S = {}
      BY <1>4, <3>1 DEF Folded
    <3>2. CASE S # {}
      <4>1. rest[S] = S \ {Max(S)} /\ rest[S] \in SUBSET C
        OBVIOUS
      <4>2. g[S] = step[S][g[rest[S]]]
        BY <1>4, <3>2 DEF Folded
      <4> QED
        BY <1>5, <3>2, <4>1, <4>2
    <3> QED
      BY <3>1, <3>2
  <2> HIDE DEF C
  <2> QED
    BY <1>4, <2>1
<1>7. IsFold(fold)
  <2> HIDE DEF IsFold
  <2> QED
    BY <1>6
<1>8. Boxes(l, count) = fold[C]
  BY Zenon DEF Boxes, Kept, FoldLeft, MapThenFoldSet
<1>9. fold[{}] = <<>> /\ \A S \in SUBSET C : S # {} => fold[S] = Kept(fold[S \ {Max(S)}], rows[Max(S)], count)
  <2> HIDE DEF C, fold
  <2> QED
    BY <1>7
<1> HIDE DEF fold
<1> QED
  BY <1>8, <1>9

\* The boxes of a label are rows that can be compared.
LEMMA BoxesType ==
    ASSUME NEW l \in Label, NEW count
    PROVE  Boxes(l, count) \in Seq({r \in Row : Usable(r, count)})
<1>1. CASE ~l.readable
  <2>1. Boxes(l, count) = <<>>
    BY <1>1, Zenon DEF Boxes
  <2> QED
    BY <2>1
<1>2. CASE l.readable
  <2> DEFINE U == {r \in Row : Usable(r, count)}
             C == DOMAIN l.rows
             rest == [S \in SUBSET C |-> S \ {Max(S)}]
  <2>1. PICK fold : /\ Boxes(l, count) = fold[C]
                    /\ fold[{}] = <<>>
                    /\ \A S \in SUBSET C : S # {} => fold[S] = Kept(fold[S \ {Max(S)}], l.rows[Max(S)], count)
    BY <1>2, BoxesFold
  <2>2. \A S \in SUBSET C : S # {} => Max(S) \in S /\ rest[S] = S \ {Max(S)} /\ rest[S] \in SUBSET S /\ rest[S] # S
    BY LastRow
  <2> DEFINE Good == {S \in SUBSET C : fold[S] \in Seq(U)}
  <2>3. {} \in Good
    <3>1. <<>> \in Seq(U) /\ {} \in SUBSET C
      OBVIOUS
    <3> HIDE DEF U, C
    <3> QED
      BY <2>1, <3>1
  <2>4. ASSUME NEW S \in SUBSET C, S # {}, rest[S] \in Good
        PROVE  S \in Good
    <3>1. fold[S \ {Max(S)}] \in Seq(U)
      <4> HIDE DEF C, U, rest
      <4> QED
        BY <2>2, <2>4
    <3>3. l.rows[Max(S)] \in Row
      <4>1. l.rows \in Seq(Row) /\ Max(S) \in DOMAIN l.rows
        BY <2>2, <2>4 DEF Label
      <4> QED
        BY <4>1
    <3>2. Kept(fold[S \ {Max(S)}], l.rows[Max(S)], count) \in Seq(U)
      BY <3>1, <3>3 DEF Kept
    <3> HIDE DEF C, U, rest
    <3> QED
      BY <2>1, <2>4, <3>2
  <2>5. IsFiniteSet(C)
    BY FS_Interval DEF Label
  <2> HIDE DEF C, rest, Good
  <2>6. \A S \in SUBSET C : S \in Good
    BY <2>2, <2>3, <2>4, <2>5, SubsetInduction
  <2> QED
    BY <2>1, <2>6 DEF Good
<1> QED
  BY <1>1, <1>2 DEF Label

\* Of a label that can be compared, every row is a box: the boxes kept of the first n rows are
\* the first n rows.
LEMMA NoneLeftOut ==
    ASSUME NEW l \in Label, NEW count, LabelUsable(l, count)
    PROVE  Boxes(l, count) = l.rows
<1> DEFINE rows == l.rows
           C == DOMAIN rows
           rest == [S \in SUBSET C |-> S \ {Max(S)}]
<1>1. PICK fold : /\ Boxes(l, count) = fold[C]
                  /\ fold[{}] = <<>>
                  /\ \A S \in SUBSET C : S # {} => fold[S] = Kept(fold[S \ {Max(S)}], rows[Max(S)], count)
  BY BoxesFold DEF LabelUsable
<1>2. rows \in Seq(Row) /\ C = 1 .. Len(rows) /\ Len(rows) \in Nat /\ IsFiniteSet(C)
  <2>1. rows \in Seq(Row)
    BY DEF Label
  <2> QED
    BY <2>1, FS_Interval
<1>3. \A i \in C : Usable(rows[i], count)
  BY <1>2 DEF LabelUsable, Range
<1> DEFINE First(n) == [i \in 1 .. n |-> rows[i]]
           Wrong == {n \in 0 .. Len(rows) : fold[1 .. n] # First(n)}
<1>4. ASSUME NEW n \in 1 .. Len(rows)
      PROVE  Max(1 .. n) = n /\ (1 .. n) \ {n} = 1 .. n - 1
  <2>1. n \in Nat /\ 1 .. n \in SUBSET Int /\ 1 .. n # {} /\ n \in 1 .. n
    BY <1>2
  <2>3. IsFiniteSet(1 .. n)
    BY <2>1, FS_Interval
  <2>2. Max(1 .. n) \in 1 .. n /\ n <= Max(1 .. n)
    BY <2>1, <2>3, MaxOf
  <2> QED
    BY <2>1, <2>2
<1>5. Wrong = {}
  <2>1. SUFFICES ASSUME Wrong # {}
                 PROVE  FALSE
    OBVIOUS
  <2>2. PICK n \in Wrong : \A k \in Wrong : n <= k
    <3>1. Wrong \in SUBSET Nat
      OBVIOUS
    <3> HIDE DEF Wrong
    <3> QED
      BY <2>1, <3>1, LeastOf
  <2>3. n # 0
    <3>1. fold[1 .. 0] = First(0)
      BY <1>1
    <3> QED
      BY <2>2, <3>1
  <2>4. n \in 1 .. Len(rows) /\ n - 1 \in 0 .. Len(rows) /\ ~(n <= n - 1)
    BY <1>2, <2>2, <2>3
  <2>5. fold[1 .. n - 1] = First(n - 1)
    <3>1. n - 1 \notin Wrong
      <4> HIDE DEF Wrong
      <4> QED
        BY <2>2, <2>4
    <3> QED
      BY <2>4, <3>1
  <2>6. fold[1 .. n] = Kept(fold[1 .. n - 1], rows[n], count)
    <3>1. 1 .. n \in SUBSET C /\ 1 .. n # {}
      <4> HIDE DEF C
      <4>1. 1 .. n \in SUBSET (1 .. Len(rows)) /\ n \in 1 .. n
        BY <1>2, <2>4
      <4> QED
        BY <1>2, <4>1
    <3> HIDE DEF C
    <3> QED
      BY <1>1, <1>4, <2>4, <3>1
  <2>7. fold[1 .. n] = Append(First(n - 1), rows[n])
    <3>1. Usable(rows[n], count)
      BY <1>2, <1>3, <2>4
    <3> HIDE DEF First
    <3> QED
      BY <2>5, <2>6, <3>1 DEF Kept
  <2>8. Append(First(n - 1), rows[n]) = First(n)
    <3>1. First(n - 1) \in Seq(Row) /\ First(n) \in Seq(Row) /\ Len(First(n - 1)) = n - 1 /\ rows[n] \in Row
      BY <1>2, <2>4
    <3> QED
      BY <2>4, <3>1
  <2> QED
    BY <2>2, <2>7, <2>8
<1>6. fold[1 .. Len(rows)] = First(Len(rows))
  <2>1. Len(rows) \in 0 .. Len(rows)
    BY <1>2
  <2> HIDE DEF First
  <2> QED
    BY <1>5, <2>1
<1>7. First(Len(rows)) = rows
  BY <1>2
<1> HIDE DEF C, First
<1> QED
  BY <1>1, <1>2, <1>6, <1>7

-----------------------------------------------------------------------------
(* Intersection over union *)

\* The greater and the smaller of two numbers.
LEMMA MaxOfTwo ==
    ASSUME NEW x \in Int, NEW y \in Int
    PROVE  Max({x, y}) \in {x, y} /\ Max({x, y}) >= x /\ Max({x, y}) >= y
<1>1. \E z \in {x, y} : \A w \in {x, y} : z >= w
  <2>1. CASE x >= y
    BY <2>1
  <2>2. CASE y >= x
    BY <2>2
  <2> QED
    BY <2>1, <2>2
<1> QED
  BY <1>1 DEF Max

LEMMA MinOfTwo ==
    ASSUME NEW x \in Int, NEW y \in Int
    PROVE  Min({x, y}) \in {x, y} /\ Min({x, y}) <= x /\ Min({x, y}) <= y
<1>1. \E z \in {x, y} : \A w \in {x, y} : z <= w
  <2>1. CASE x <= y
    BY <2>1
  <2>2. CASE y <= x
    BY <2>2
  <2> QED
    BY <2>1, <2>2
<1> QED
  BY <1>1 DEF Min

LEMMA ProductGrows ==
    ASSUME NEW a \in Nat, NEW b \in Nat, NEW c \in Nat, NEW d \in Nat, a <= b, c <= d
    PROVE  a * c <= b * d /\ a * c \in Nat /\ b * d \in Nat
<1>1. a * c <= b * c
  OBVIOUS
<1>2. b * c <= b * d
  OBVIOUS
<1> QED
  BY <1>1, <1>2

\* A box: its centre and its extents.
Box == {r \in Row : Len(r.coords) = 4 /\ r.coords[3] >= 0 /\ r.coords[4] >= 0}

LEMMA BoxType ==
    ASSUME NEW r \in Box
    PROVE  \A i \in 1 .. 4 : r.coords[i] \in Int
BY DEF Box, Row

\* What two boxes share along an axis is no longer than either.
LEMMA SharedIs ==
    ASSUME NEW a \in Box, NEW b \in Box, NEW i \in 1 .. 2
    PROVE  /\ Shared(a, b, i) \in Nat
           /\ Shared(a, b, i) <= 2 * a.coords[i + 2]
           /\ Shared(a, b, i) <= 2 * b.coords[i + 2]
<1> DEFINE low(r) == 2 * r.coords[i] - r.coords[i + 2]
           high(r) == 2 * r.coords[i] + r.coords[i + 2]
           near == Max({low(a), low(b)})
           far == Min({high(a), high(b)})
<1>1. /\ a.coords[i] \in Int /\ a.coords[i + 2] \in Int /\ a.coords[i + 2] >= 0
      /\ b.coords[i] \in Int /\ b.coords[i + 2] \in Int /\ b.coords[i + 2] >= 0
  <2>1. i = 1 \/ i = 2
    OBVIOUS
  <2> QED
    BY <2>1, BoxType DEF Box
<1>2. low(a) \in Int /\ low(b) \in Int /\ high(a) \in Int /\ high(b) \in Int
  BY <1>1
<1>3. near \in Int /\ near >= low(a) /\ near >= low(b)
  <2> HIDE DEF low
  <2> QED
    BY <1>2, MaxOfTwo
<1>4. far \in Int /\ far <= high(a) /\ far <= high(b)
  <2> HIDE DEF high
  <2> QED
    BY <1>2, MinOfTwo
<1>5. Shared(a, b, i) = Max({0, far - near})
  BY DEF Shared
<1>6. far - near <= high(a) - low(a) /\ far - near <= high(b) - low(b)
  <2> HIDE DEF near, far, low, high
  <2> QED
    BY <1>2, <1>3, <1>4
<1>7. high(a) - low(a) = 2 * a.coords[i + 2] /\ high(b) - low(b) = 2 * b.coords[i + 2]
  BY <1>1
<1>8. far - near \in Int
  <2> HIDE DEF near, far
  <2> QED
    BY <1>3, <1>4
<1>9. Max({0, far - near}) \in {0, far - near} /\ Max({0, far - near}) >= 0
  <2> DEFINE gap == far - near
  <2>1. 0 \in Int /\ gap \in Int
    BY <1>8
  <2> HIDE DEF gap
  <2>2. Max({0, gap}) \in {0, gap} /\ Max({0, gap}) >= 0
    BY <2>1, MaxOfTwo
  <2> QED
    BY <2>2 DEF gap
<1> HIDE DEF near, far, low, high
<1>10. Shared(a, b, i) \in Nat
  BY <1>5, <1>8, <1>9
<1> QED
  BY <1>1, <1>5, <1>6, <1>7, <1>8, <1>9, <1>10

\* The IoU of two boxes is a fraction when one of them has an area: what they share is part of both.
Fraction == [num : Nat, den : Nat \ {0}]

LEMMA IouType ==
    ASSUME NEW a \in Box, NEW b \in Box, a.coords[3] > 0, a.coords[4] > 0
    PROVE  Iou(a, b) \in Fraction
<1> DEFINE area(r) == 4 * r.coords[3] * r.coords[4]
           inter == Shared(a, b, 1) * Shared(a, b, 2)
<1>1. /\ Shared(a, b, 1) \in Nat /\ Shared(a, b, 1) <= 2 * b.coords[3]
      /\ Shared(a, b, 2) \in Nat /\ Shared(a, b, 2) <= 2 * b.coords[4]
  <2>1. 1 \in 1 .. 2 /\ 2 \in 1 .. 2 /\ 1 + 2 = 3 /\ 2 + 2 = 4
    OBVIOUS
  <2> QED
    BY <2>1, SharedIs
<1>2. /\ a.coords[3] \in Nat /\ a.coords[4] \in Nat
      /\ b.coords[3] \in Nat /\ b.coords[4] \in Nat
  BY BoxType DEF Box
<1>3. inter \in Nat /\ inter <= (2 * b.coords[3]) * (2 * b.coords[4])
  BY <1>1, <1>2, ProductGrows
<1>4. (2 * b.coords[3]) * (2 * b.coords[4]) = area(b)
  BY <1>2
<1>5. area(b) \in Nat
  BY <1>2
<1>6. area(a) \in Nat /\ area(a) > 0
  <2>1. a.coords[3] * a.coords[4] > 0 /\ a.coords[3] * a.coords[4] \in Nat
    <3>1. 1 * 1 <= a.coords[3] * a.coords[4]
      BY <1>2, ProductGrows
    <3> QED
      BY <1>2, <3>1
  <2> QED
    BY <1>2, <2>1
<1>7. Iou(a, b) = [num |-> inter, den |-> area(a) + area(b) - inter]
  BY DEF Iou
<1> HIDE DEF area, inter
<1>8. area(a) + area(b) - inter \in Nat \ {0}
  BY <1>3, <1>4, <1>5, <1>6
<1> QED
  BY <1>3, <1>7, <1>8 DEF Fraction

\* The order of fractions by cross-multiplication is transitive as the denominators are positive.
LEMMA ProductCancels ==
    ASSUME NEW x \in Int, NEW y \in Int, NEW d \in Nat \ {0}, x * d <= y * d
    PROVE  x <= y
<1>1. SUFFICES ASSUME x >= y + 1
               PROVE  FALSE
  OBVIOUS
<1>2. (x - (y + 1)) * d >= 0
  <2>1. x - (y + 1) \in Nat
    BY <1>1
  <2> QED
    BY <2>1, ProductGrows
<1>3. (x - (y + 1)) * d = x * d - y * d - d
  OBVIOUS
<1>4. x * d \in Int /\ y * d \in Int
  OBVIOUS
<1> QED
  BY <1>2, <1>3, <1>4

LEMMA NotHigherTransitive ==
    ASSUME NEW u \in Fraction, NEW v \in Fraction, NEW w \in Fraction,
           ~Higher(u, v), ~Higher(v, w)
    PROVE  ~Higher(u, w)
<1>1. /\ u.num \in Nat /\ v.num \in Nat /\ w.num \in Nat
      /\ u.den \in Nat \ {0} /\ v.den \in Nat \ {0} /\ w.den \in Nat \ {0}
  BY DEF Fraction
<1> DEFINE un == u.num ud == u.den vn == v.num vd == v.den wn == w.num wd == w.den
<1>2. un * vd <= vn * ud /\ vn * wd <= wn * vd
  BY <1>1 DEF Higher
<1> SUFFICES un * wd <= wn * ud
  BY <1>1 DEF Higher
<1>3. un \in Nat /\ vn \in Nat /\ wn \in Nat /\ ud \in Nat \ {0} /\ vd \in Nat \ {0} /\ wd \in Nat \ {0}
  BY <1>1
<1> HIDE DEF un, ud, vn, vd, wn, wd
<1>4. (un * vd) * wd <= (vn * ud) * wd
  <2>1. un * vd \in Nat /\ vn * ud \in Nat
    BY <1>3
  <2> QED
    BY <1>2, <1>3, <2>1, ProductGrows
<1>5. (vn * wd) * ud <= (wn * vd) * ud
  <2>1. vn * wd \in Nat /\ wn * vd \in Nat
    BY <1>3
  <2> QED
    BY <1>2, <1>3, <2>1, ProductGrows
<1>6. (un * vd) * wd = (un * wd) * vd /\ (vn * ud) * wd = (vn * wd) * ud /\ (wn * vd) * ud = (wn * ud) * vd
  BY <1>3
<1>7. un * wd \in Nat /\ wn * ud \in Nat /\ vn * wd \in Nat
  BY <1>3
<1>8. (un * wd) * vd \in Nat /\ (wn * ud) * vd \in Nat /\ (vn * wd) * ud \in Nat
  BY <1>3, <1>7
<1>9. (un * wd) * vd <= (wn * ud) * vd
  BY <1>4, <1>5, <1>6, <1>8
<1> QED
  BY <1>3, <1>7, <1>9, ProductCancels

-----------------------------------------------------------------------------
(* The order of the candidates *)

Original(count) == {r \in Row : Usable(r, count)}

LEMMA CandidateIs ==
    ASSUME NEW count, NEW original \in Seq(Original(count)), NEW predicted \in Seq(Detection),
           NEW c \in Candidates(original, predicted)
    PROVE  /\ c.i \in DOMAIN original /\ c.j \in DOMAIN predicted
           /\ c.i \in Nat /\ c.j \in Nat
           /\ c = [i |-> c.i, j |-> c.j, iou |-> Iou(original[c.i], predicted[c.j])]
           /\ c.iou \in Fraction
<1>1. PICK i \in DOMAIN original, j \in DOMAIN predicted :
          c = [i |-> i, j |-> j, iou |-> Iou(original[i], predicted[j])]
  BY DEF Candidates
<1>2. i \in Nat /\ j \in Nat
  OBVIOUS
<1>3. original[i] \in Original(count) /\ predicted[j] \in Detection
  OBVIOUS
<1>4. original[i] \in Box /\ predicted[j] \in Box /\ original[i].coords[3] > 0 /\ original[i].coords[4] > 0
  <2>1. original[i] \in Row /\ Usable(original[i], count)
    BY <1>3 DEF Original
  <2>2. Len(original[i].coords) = 4
    BY <2>1 DEF Usable, FIELD_COUNT
  <2>3. original[i].coords[3] \in Int /\ original[i].coords[4] \in Int
    BY <2>1, <2>2 DEF Row
  <2>4. original[i].coords[3] > 0 /\ original[i].coords[4] > 0
    BY <2>1 DEF Usable
  <2> QED
    BY <1>3, <2>1, <2>2, <2>3, <2>4 DEF Box, Detection
<1>5. Iou(original[i], predicted[j]) \in Fraction
  BY <1>4, IouType
<1> QED
  BY <1>1, <1>2, <1>5

LEMMA CandidatesFinite ==
    ASSUME NEW count, NEW original \in Seq(Original(count)), NEW predicted \in Seq(Detection)
    PROVE  IsFiniteSet(Candidates(original, predicted))
<1> DEFINE D == (DOMAIN original) \X (DOMAIN predicted)
           f == [p \in D |-> [i |-> p[1], j |-> p[2], iou |-> Iou(original[p[1]], predicted[p[2]])]]
           R == {f[p] : p \in D}
<1>1. IsFiniteSet(D)
  <2>1. IsFiniteSet(DOMAIN original) /\ IsFiniteSet(DOMAIN predicted)
    BY FS_Interval
  <2> QED
    BY <2>1, FS_Product
<1>2. IsFiniteSet(R)
  <2>1. f \in [D -> R]
    OBVIOUS
  <2> HIDE DEF f, D, R
  <2>2. IsFiniteSet({f[p] : p \in D})
    BY <1>1, <2>1, RangeIsFinite
  <2> QED
    BY <2>2 DEF R
<1>3. \A c \in Candidates(original, predicted) : c \in R
  <2>1. ASSUME NEW c \in Candidates(original, predicted)
        PROVE  c \in R
    <3>1. PICK i \in DOMAIN original, j \in DOMAIN predicted :
              c = [i |-> i, j |-> j, iou |-> Iou(original[i], predicted[j])]
      BY DEF Candidates
    <3> DEFINE p == <<i, j>>
    <3>3. p \in D /\ p[1] = i /\ p[2] = j
      OBVIOUS
    <3> HIDE DEF p, D
    <3>2. p \in D /\ f[p] = c
      BY <3>1, <3>3
    <3> QED
      BY <3>2
  <2> QED
    BY <2>1
<1> QED
  BY <1>2, <1>3, FS_Subset

\* Before is a strict total order of the candidates.
LEMMA HigherAsymmetric ==
    ASSUME NEW v \in Fraction, NEW w \in Fraction, Higher(v, w)
    PROVE  ~Higher(w, v)
<1>1. v.num * w.den \in Int /\ w.num * v.den \in Int
  BY DEF Fraction
<1> QED
  BY <1>1 DEF Higher

LEMMA BeforeOrders ==
    ASSUME NEW count, NEW original \in Seq(Original(count)), NEW predicted \in Seq(Detection)
    PROVE  LET C == Candidates(original, predicted)
           IN  /\ \A c, d \in C : c # d => Before(c, d) \/ Before(d, c)
               /\ \A c, d \in C : Before(c, d) => ~Before(d, c) /\ ~Higher(d.iou, c.iou)
               /\ \A c, d, e \in C : Before(c, d) /\ Before(d, e) => Before(c, e)
<1> DEFINE C == Candidates(original, predicted)
<1>1. \A c \in C : c.i \in Nat /\ c.j \in Nat /\ c.iou \in Fraction
  BY CandidateIs
<1>2. \A c, d \in C : c.i = d.i /\ c.j = d.j => c = d
  BY CandidateIs
<1> HIDE DEF C
<1>3. \A c, d \in C : Higher(c.iou, d.iou) => ~Higher(d.iou, c.iou)
  BY <1>1, HigherAsymmetric
<1>4. ASSUME NEW c \in C, NEW d \in C, c # d
      PROVE  Before(c, d) \/ Before(d, c)
  BY <1>1, <1>2, <1>4 DEF Before
<1>5. ASSUME NEW c \in C, NEW d \in C, Before(c, d)
      PROVE  ~Before(d, c) /\ ~Higher(d.iou, c.iou)
  BY <1>1, <1>3, <1>5 DEF Before
<1>6. ASSUME NEW c \in C, NEW d \in C, NEW e \in C, Before(c, d), Before(d, e)
      PROVE  Before(c, e)
  <2>1. ~Higher(d.iou, c.iou) /\ ~Higher(e.iou, d.iou)
    BY <1>5, <1>6
  <2>2. ~Higher(e.iou, c.iou)
    BY <1>1, <2>1, NotHigherTransitive
  <2>3. CASE Higher(c.iou, e.iou)
    BY <2>3 DEF Before
  <2>4. CASE ~Higher(c.iou, e.iou)
    <3>1. ~Higher(c.iou, d.iou)
      BY <1>1, <2>1, <2>4, NotHigherTransitive
    <3>2. ~Higher(d.iou, e.iou)
      BY <1>1, <2>1, <2>4, NotHigherTransitive
    <3>3. /\ c.i < d.i \/ (c.i = d.i /\ c.j < d.j)
          /\ d.i < e.i \/ (d.i = e.i /\ d.j < e.j)
      BY <1>6, <3>1, <3>2 DEF Before
    <3>4. c.i < e.i \/ (c.i = e.i /\ c.j < e.j)
      BY <1>1, <3>3
    <3> QED
      BY <2>2, <3>4 DEF Before
  <2> QED
    BY <2>3, <2>4
<1> QED
  BY <1>4, <1>5, <1>6 DEF C

-----------------------------------------------------------------------------
(* The pairs *)

\* Every set of candidates has one that comes after all others: take the one with the fewest
\* after it.
LEMMA LowestIs ==
    ASSUME NEW count, NEW original \in Seq(Original(count)), NEW predicted \in Seq(Detection),
           NEW S \in SUBSET Candidates(original, predicted), S # {}
    PROVE  Lowest(S) \in S /\ \A d \in S \ {Lowest(S)} : Before(d, Lowest(S))
<1> DEFINE After(c) == {d \in S : Before(c, d)}
           T == {After(c) : c \in S}
<1>1. /\ \A c, d \in S : c # d => Before(c, d) \/ Before(d, c)
      /\ \A c, d \in S : Before(c, d) => ~Before(d, c)
      /\ \A c, d, e \in S : Before(c, d) /\ Before(d, e) => Before(c, e)
  BY BeforeOrders
<1>2. IsFiniteSet(S)
  BY CandidatesFinite, FS_Subset
<1>3. IsWellFoundedOn(StrictSubsetOrdering(S), FiniteSubsetsOf(S))
  BY FS_StrictSubsetOrderingWellFounded
<1>4. T \subseteq FiniteSubsetsOf(S) /\ T # {}
  <2>1. \A c \in S : After(c) \in SUBSET S
    OBVIOUS
  <2>2. T # {}
    OBVIOUS
  <2> QED
    BY <1>2, <2>1, <2>2, FS_FiniteSubsetsOfFinite
<1>5. PICK U \in T : \A V \in T : ~(<<V, U>> \in StrictSubsetOrdering(S))
  <2> HIDE DEF T
  <2> QED
    BY <1>3, <1>4, WFMin
<1>6. PICK c \in S : U = After(c)
  OBVIOUS
<1>7. ASSUME NEW d \in S, Before(c, d)
      PROVE  FALSE
  <2>1. d \in After(c) /\ d \notin After(d)
    BY <1>1, <1>7
  <2>2. After(d) \subseteq After(c)
    BY <1>1, <1>7
  <2> HIDE DEF After
  <2>3. After(d) \in SUBSET S /\ After(c) \in SUBSET S
    BY DEF After
  <2>4. <<After(d), After(c)>> \in StrictSubsetOrdering(S)
    BY <2>1, <2>2, <2>3 DEF StrictSubsetOrdering
  <2> QED
    BY <1>5, <1>6, <2>4
<1>8. \A d \in S \ {c} : Before(d, c)
  BY <1>1, <1>7
<1> QED
  BY <1>8 DEF Lowest

\* The pairs made of a set of candidates: one for a box at most, and a candidate is left out
\* only for one that comes before it.
PairsOf(S, pairs) ==
    /\ pairs \subseteq S
    /\ \A c, d \in pairs : c # d => c.i # d.i /\ c.j # d.j
    /\ \A c \in S \ pairs : \E d \in pairs : (d.i = c.i \/ d.j = c.j) /\ Before(d, c)

LEMMA TakeLowest ==
    ASSUME NEW count, NEW original \in Seq(Original(count)), NEW predicted \in Seq(Detection),
           NEW S \in SUBSET Candidates(original, predicted), S # {},
           NEW pairs, PairsOf(S \ {Lowest(S)}, pairs)
    PROVE  PairsOf(S, Take(Lowest(S), pairs))
<1> DEFINE c == Lowest(S)
<1>1. c \in S /\ \A d \in S \ {c} : Before(d, c)
  BY LowestIs
<1> HIDE DEF c
<1>2. /\ pairs \subseteq S \ {c}
      /\ \A d, e \in pairs : d # e => d.i # e.i /\ d.j # e.j
      /\ \A d \in (S \ {c}) \ pairs : \E e \in pairs : (e.i = d.i \/ e.j = d.j) /\ Before(e, d)
  BY DEF PairsOf, c
<1>3. CASE \E d \in pairs : d.i = c.i \/ d.j = c.j
  <2>1. Take(c, pairs) = pairs
    BY <1>3 DEF Take
  <2>2. \A d \in S \ pairs : \E e \in pairs : (e.i = d.i \/ e.j = d.j) /\ Before(e, d)
    BY <1>1, <1>2, <1>3
  <2>3. PairsOf(S, pairs)
    BY <1>2, <2>2 DEF PairsOf
  <2> QED
    BY <2>1, <2>3 DEF c
<1>4. CASE ~\E d \in pairs : d.i = c.i \/ d.j = c.j
  <2>1. Take(c, pairs) = pairs \cup {c}
    BY <1>4 DEF Take
  <2>2. pairs \cup {c} \subseteq S
    BY <1>1, <1>2
  <2>3. \A d, e \in pairs \cup {c} : d # e => d.i # e.i /\ d.j # e.j
    BY <1>2, <1>4
  <2>4. \A d \in S \ (pairs \cup {c}) : \E e \in pairs \cup {c} : (e.i = d.i \/ e.j = d.j) /\ Before(e, d)
    BY <1>2
  <2>5. PairsOf(S, pairs \cup {c})
    BY <2>2, <2>3, <2>4 DEF PairsOf
  <2> QED
    BY <2>1, <2>5 DEF c
<1> QED
  BY <1>3, <1>4

LEMMA PairsAre ==
    ASSUME NEW count, NEW original \in Seq(Original(count)), NEW predicted \in Seq(Detection)
    PROVE  PairsOf(Candidates(original, predicted), Pairs(original, predicted))
<1> DEFINE C == Candidates(original, predicted)
           rest == [S \in SUBSET C |-> S \ {Lowest(S)}]
           step == [S \in SUBSET C |-> [pairs \in SUBSET C |-> Take(Lowest(S), pairs)]]
           IsFold(F) == F = [S \in SUBSET C |-> IF S = {} THEN {} ELSE Take(Lowest(S), F[S \ {Lowest(S)}])]
           fold == CHOOSE F : IsFold(F)
<1>1. IsFiniteSet(C)
  BY CandidatesFinite
<1>2. \A S \in SUBSET C : S # {} => Lowest(S) \in S
  BY LowestIs
<1>3. \A S \in SUBSET C : S # {} => rest[S] \in SUBSET S /\ rest[S] # S
  BY <1>2
<1>4. \A pairs : \A S \in SUBSET C : S # {} /\ PairsOf(S \ {Lowest(S)}, pairs) => PairsOf(S, Take(Lowest(S), pairs))
  BY TakeLowest
<1>5. PairsOf({}, {})
  BY DEF PairsOf
<1>6. \A S \in SUBSET C : S # {} => rest[S] = S \ {Lowest(S)} /\ rest[S] \in SUBSET C
  BY <1>2
<1>7. PICK g : DOMAIN g = SUBSET C /\ g = [S \in SUBSET C |-> g[S]] /\ Folded({}, step, rest, C, g)
  <2> HIDE DEF C, rest, step
  <2> QED
    BY <1>1, <1>3, FoldExists
<1>8. \A S \in SUBSET C : PairsOf(S, g[S])
  <2> DEFINE Good == {S \in SUBSET C : PairsOf(S, g[S])}
  <2>1. {} \in Good
    <3>1. g[{}] = {}
      BY <1>7 DEF Folded
    <3> QED
      BY <1>5, <3>1
  <2>2. ASSUME NEW S \in SUBSET C, S # {}, rest[S] \in Good
        PROVE  S \in Good
    <3>1. g[S] = step[S][g[rest[S]]]
      BY <1>7, <2>2 DEF Folded
    <3>2. PairsOf(rest[S], g[rest[S]])
      BY <2>2
    <3>3. g[rest[S]] \in SUBSET C
      BY <1>6, <2>2, <3>2 DEF PairsOf
    <3>4. g[S] = Take(Lowest(S), g[rest[S]])
      BY <3>1, <3>3
    <3>5. PairsOf(S, g[S])
      <4> HIDE DEF C, rest, step
      <4> QED
        BY <1>4, <1>6, <2>2, <3>2, <3>4
    <3> QED
      BY <3>5
  <2> HIDE DEF C, rest, step, Good
  <2>3. \A S \in SUBSET C : S \in Good
    BY <1>1, <1>3, <2>1, <2>2, SubsetInduction
  <2> QED
    BY <2>3 DEF Good
<1>9. IsFold(g)
  <2>1. ASSUME NEW S \in SUBSET C
        PROVE  g[S] = IF S = {} THEN {} ELSE Take(Lowest(S), g[S \ {Lowest(S)}])
    <3>1. CASE S = {}
      BY <1>7, <3>1 DEF Folded
    <3>2. CASE S # {}
      <4>1. g[S] = step[S][g[rest[S]]]
        BY <1>7, <3>2 DEF Folded
      <4>2. g[rest[S]] \in SUBSET C
        BY <1>6, <1>8, <3>2 DEF PairsOf
      <4>3. g[S] = Take(Lowest(S), g[rest[S]])
        BY <4>1, <4>2
      <4> QED
        BY <1>6, <3>2, <4>3
    <3> QED
      BY <3>1, <3>2
  <2> HIDE DEF C
  <2> QED
    BY <1>7, <2>1
<1>10. IsFold(fold)
  <2> HIDE DEF IsFold
  <2> QED
    BY <1>9
<1>11. \A S \in SUBSET C : PairsOf(S, fold[S])
  <2> DEFINE Good == {S \in SUBSET C : PairsOf(S, fold[S])}
  <2> HIDE DEF fold
  <2>1. {} \in Good
    <3>1. fold[{}] = {}
      BY <1>10
    <3> QED
      BY <1>5, <3>1
  <2>2. ASSUME NEW S \in SUBSET C, S # {}, rest[S] \in Good
        PROVE  S \in Good
    <3>1. fold[S] = Take(Lowest(S), fold[S \ {Lowest(S)}])
      BY <1>10, <2>2
    <3>2. PairsOf(S \ {Lowest(S)}, fold[S \ {Lowest(S)}])
      BY <1>6, <2>2
    <3> QED
      BY <1>4, <2>2, <3>1, <3>2
  <2> HIDE DEF C, rest, Good
  <2>3. \A S \in SUBSET C : S \in Good
    BY <1>1, <1>3, <2>1, <2>2, SubsetInduction
  <2> QED
    BY <2>3 DEF Good
<1>12. Pairs(original, predicted) = fold[C]
  BY Zenon DEF Pairs, MapThenFoldSet
<1> QED
  BY <1>11, <1>12

\* There is but one such set of pairs: of the candidates that two of them disagree on, the one
\* with the fewest before it lost to a pair of its set that the other has as well.
LEMMA PairsOfIsUnique ==
    ASSUME NEW count, NEW original \in Seq(Original(count)), NEW predicted \in Seq(Detection),
           NEW P, NEW Q, PairsOf(Candidates(original, predicted), P),
           PairsOf(Candidates(original, predicted), Q)
    PROVE  P = Q
<1> DEFINE C == Candidates(original, predicted)
           D == (P \ Q) \cup (Q \ P)
           Earlier(c) == {d \in D : Before(d, c)}
           T == {Earlier(c) : c \in D}
<1>1. SUFFICES ASSUME D # {}
               PROVE  FALSE
  OBVIOUS
<1>2. /\ \A c, d \in C : Before(c, d) => ~Before(d, c)
      /\ \A c, d, e \in C : Before(c, d) /\ Before(d, e) => Before(c, e)
  BY BeforeOrders
<1>3. D \subseteq C /\ IsFiniteSet(C)
  BY CandidatesFinite DEF PairsOf
<1>4. T \subseteq FiniteSubsetsOf(D) /\ T # {}
  <2>1. IsFiniteSet(D)
    BY <1>3, FS_Subset
  <2>2. \A c \in D : Earlier(c) \in SUBSET D
    OBVIOUS
  <2>3. T # {}
    BY <1>1
  <2> HIDE DEF D, Earlier
  <2> QED
    BY <2>1, <2>2, <2>3, FS_FiniteSubsetsOfFinite
<1>5. PICK U \in T : \A V \in T : ~(<<V, U>> \in StrictSubsetOrdering(D))
  <2> HIDE DEF D, T
  <2>1. IsWellFoundedOn(StrictSubsetOrdering(D), FiniteSubsetsOf(D))
    BY FS_StrictSubsetOrderingWellFounded
  <2> QED
    BY <1>4, <2>1, WFMin
<1>6. PICK c \in D : U = Earlier(c)
  BY <1>5
<1>7. ASSUME NEW d \in D, Before(d, c)
      PROVE  FALSE
  <2>1. d \in C /\ c \in C
    BY <1>3
  <2>2. d \in Earlier(c) /\ d \notin Earlier(d)
    BY <1>2, <1>7, <2>1
  <2>3. Earlier(d) \subseteq Earlier(c)
    <3> HIDE DEF C, D
    <3> QED
      BY <1>2, <1>3, <1>7, <2>1
  <2>4. Earlier(d) \in SUBSET D /\ Earlier(c) \in SUBSET D /\ Earlier(d) \in T
    OBVIOUS
  <2> HIDE DEF D, Earlier, T
  <2>5. <<Earlier(d), Earlier(c)>> \in StrictSubsetOrdering(D)
    BY <2>2, <2>3, <2>4 DEF StrictSubsetOrdering
  <2> QED
    BY <1>5, <1>6, <2>4, <2>5
<1>8. ASSUME NEW X, NEW Y, PairsOf(C, X), PairsOf(C, Y), c \in X, c \notin Y, X \subseteq D \cup Y, Y \subseteq D \cup X
      PROVE  FALSE
  <2> HIDE DEF C, D
  <2>1. c \in C \ Y
    BY <1>3, <1>8
  <2>2. PICK d \in Y : (d.i = c.i \/ d.j = c.j) /\ Before(d, c)
    BY <1>8, <2>1 DEF PairsOf
  <2>3. d \notin D
    BY <1>7, <2>2
  <2>4. d \in X /\ d # c
    BY <1>8, <2>2, <2>3
  <2> QED
    BY <1>8, <2>2, <2>4 DEF PairsOf
<1>9. CASE c \in P \ Q
  BY <1>8, <1>9
<1>10. CASE c \in Q \ P
  BY <1>8, <1>10
<1> QED
  BY <1>6, <1>9, <1>10

\* As many pairs as there are boxes on either side match the boxes one to one: the pairs are
\* an injection into both sides, so they reach every box of both.
LEMMA AllPaired ==
    ASSUME NEW count, NEW original \in Seq(Original(count)), NEW predicted \in Seq(Detection),
           NEW pairs, PairsOf(Candidates(original, predicted), pairs),
           ~(Cardinality(pairs) < Len(original)), ~(Cardinality(pairs) < Len(predicted))
    PROVE  \E match \in Bijection(DOMAIN original, DOMAIN predicted) :
               \A i \in DOMAIN original : \E c \in pairs : c.i = i /\ c.j = match[i]
<1> DEFINE I == DOMAIN original
           J == DOMAIN predicted
           left == [c \in pairs |-> c.i]
           right == [c \in pairs |-> c.j]
<1>1. /\ pairs \subseteq Candidates(original, predicted)
      /\ \A c, d \in pairs : c # d => c.i # d.i /\ c.j # d.j
  BY DEF PairsOf
<1>2. /\ IsFiniteSet(I) /\ Cardinality(I) = Len(original) /\ Len(original) \in Nat
      /\ IsFiniteSet(J) /\ Cardinality(J) = Len(predicted) /\ Len(predicted) \in Nat
  <2>1. I = 1 .. Len(original) /\ Len(original) \in Nat /\ J = 1 .. Len(predicted) /\ Len(predicted) \in Nat
    OBVIOUS
  <2>2. \A n \in Nat : IsFiniteSet(1 .. n) /\ Cardinality(1 .. n) = n
    BY FS_Interval
  <2> HIDE DEF I, J
  <2> QED
    BY <2>1, <2>2
<1>3. IsFiniteSet(pairs) /\ Cardinality(pairs) \in Nat
  BY <1>1, CandidatesFinite, FS_Subset, FS_CardinalityType
<1>4. \A c \in pairs : c.i \in I /\ c.j \in J
  BY <1>1, CandidateIs
<1>5. left \in Injection(pairs, I) /\ right \in Injection(pairs, J)
  <2> HIDE DEF I, J
  <2> QED
    BY <1>1, <1>4 DEF Injection, IsInjective
<1>6. left \in Surjection(pairs, I)
  <2> HIDE DEF I, left
  <2>1. Cardinality(pairs) <= Cardinality(I) /\ (Cardinality(pairs) = Cardinality(I) <=> left \in Surjection(pairs, I))
    BY <1>2, <1>5, FS_Injection
  <2> QED
    BY <1>2, <1>3, <2>1
<1>7. right \in Surjection(pairs, J)
  <2> HIDE DEF J, right
  <2>1. Cardinality(pairs) <= Cardinality(J) /\ (Cardinality(pairs) = Cardinality(J) <=> right \in Surjection(pairs, J))
    BY <1>2, <1>5, FS_Injection
  <2> QED
    BY <1>2, <1>3, <2>1
<1> HIDE DEF I, J
<1>8. \A i \in I : \E c \in pairs : c.i = i
  BY <1>6 DEF Surjection
<1>9. \A j \in J : \E c \in pairs : c.j = j
  BY <1>7 DEF Surjection
<1> DEFINE pairOf(i) == CHOOSE c \in pairs : c.i = i
           match == [i \in I |-> pairOf(i).j]
<1>10. \A i \in I : pairOf(i) \in pairs /\ pairOf(i).i = i
  BY <1>8
<1> HIDE DEF pairOf
<1>11. match \in [I -> J]
  BY <1>4, <1>10
<1>12. \A i, k \in I : match[i] = match[k] => i = k
  BY <1>1, <1>10
<1>13. \A j \in J : \E i \in I : match[i] = j
  <2>1. ASSUME NEW j \in J
        PROVE  \E i \in I : match[i] = j
    <3>1. PICK c \in pairs : c.j = j
      BY <1>9
    <3>2. c.i \in I /\ pairOf(c.i) = c
      BY <1>1, <1>4, <1>10
    <3> QED
      BY <3>1, <3>2
  <2> QED
    BY <2>1
<1>14. match \in Bijection(I, J)
  <2> HIDE DEF match
  <2> QED
    BY <1>11, <1>12, <1>13 DEF Bijection, Injection, Surjection, IsInjective
<1>15. \A i \in I : \E c \in pairs : c.i = i /\ c.j = match[i]
  BY <1>10
<1> QED
  BY <1>14, <1>15 DEF I, J

\* The pairing of any label with any prediction, whatever the class list.
LEMMA StablePairs ==
    ASSUME NEW l \in Label, NEW predicted \in Predicted, NEW count
    PROVE  LET original == Boxes(l, count)
               pairs == Pairs(original, predicted)
           IN  /\ \A c, d \in pairs : c # d => c.i # d.i /\ c.j # d.j
               /\ \A c \in Candidates(original, predicted) \ pairs :
                     \E d \in pairs : (d.i = c.i \/ d.j = c.j) /\ ~Higher(c.iou, d.iou)
               /\ ~Differs(l, predicted, count) =>
                     \E match \in Bijection(DOMAIN original, DOMAIN predicted) :
                         \A i \in DOMAIN original : original[i].cls = predicted[match[i]].cls
<1> DEFINE original == Boxes(l, count)
           pairs == Pairs(original, predicted)
           C == Candidates(original, predicted)
<1>1. original \in Seq(Original(count)) /\ predicted \in Seq(Detection)
  BY BoxesType, PredictedAssumption DEF Original
<1> HIDE DEF original
<1>2. PairsOf(C, pairs)
  BY <1>1, PairsAre
<1> HIDE DEF pairs
<1>3. \A c \in C, d \in C : Before(d, c) => ~Higher(c.iou, d.iou)
  BY <1>1, BeforeOrders
<1>4. \A c, d \in pairs : c # d => c.i # d.i /\ c.j # d.j
  BY <1>2 DEF PairsOf
<1>5. \A c \in C \ pairs : \E d \in pairs : (d.i = c.i \/ d.j = c.j) /\ ~Higher(c.iou, d.iou)
  <2> HIDE DEF C
  <2> QED
    BY <1>2, <1>3 DEF PairsOf
<1>6. ASSUME ~Differs(l, predicted, count)
      PROVE  \E match \in Bijection(DOMAIN original, DOMAIN predicted) :
                 \A i \in DOMAIN original : original[i].cls = predicted[match[i]].cls
  <2>1. /\ ~(Cardinality(pairs) < Len(original)) /\ ~(Cardinality(pairs) < Len(predicted))
        /\ \A c \in pairs : original[c.i].cls = predicted[c.j].cls
    BY <1>6 DEF Differs, original, pairs
  <2>2. PICK match \in Bijection(DOMAIN original, DOMAIN predicted) :
            \A i \in DOMAIN original : \E c \in pairs : c.i = i /\ c.j = match[i]
    BY <1>1, <1>2, <2>1, AllPaired
  <2> QED
    BY <2>1, <2>2
<1> QED
  BY <1>4, <1>5, <1>6 DEF original, pairs

\* compare is reproducible: of the boxes of a label and of a prediction it makes the only pairs
\* with at most one for a box, in which a candidate is left out only for one that comes before
\* it.  Whatever takes the candidates in another way and leaves such pairs makes the same diff.
THEOREM PairingIsUnique ==
    ASSUME NEW l \in Label, NEW predicted \in Predicted, NEW count
    PROVE  LET original == Boxes(l, count)
           IN  \A pairs : PairsOf(Candidates(original, predicted), pairs)
                             <=> pairs = Pairs(original, predicted)
<1>1. Boxes(l, count) \in Seq(Original(count)) /\ predicted \in Seq(Detection)
  BY BoxesType, PredictedAssumption DEF Original
<1> QED
  BY <1>1, PairsAre, PairsOfIsUnique

\* A missing label is one without rows.
LEMMA LabelOfType ==
    ASSUME DiffsIInv, NEW s
    PROVE  LabelOf(s) \in Label
<1>1. CASE s \in DOMAIN folder.labels \ folder.upper
  BY <1>1, FolderType DEF LabelOf, DiffsIInv, IInv, TypeOK
<1>2. CASE s \notin DOMAIN folder.labels \ folder.upper
  BY <1>2 DEF LabelOf, Label
<1> QED
  BY <1>1, <1>2

\* What the scanner let through in a label that is read alike can be compared.
LEMMA Comparable ==
    ASSUME DiffsIInv
    PROVE  LabelsCompare
<1> SUFFICES ASSUME run # NoClasses, NEW s \in Paired(folder), ReadAlike(folder, s)
             PROVE  /\ LabelUsable(LabelOf(s), Len(ClassNamesOfRun))
                    /\ Boxes(LabelOf(s), Len(ClassNamesOfRun)) = folder.labels[s].rows
  BY DEF LabelsCompare
<1> DEFINE count == Len(ClassNamesOfRun)
<1>1. LabelOf(s) = folder.labels[s] /\ LabelValid(folder.labels[s]) /\ task = "DETECT"
  BY DEF Paired, LabelOf, ReadAlike, DiffsIInv, RunIsComparable
<1>2. count \in Nat
  BY OverrideLength DEF ClassNamesOfRun, DiffsIInv, IInv, RunIsComparable
<1>3. \A c \in ClassIds(folder.labels[s]) : c < count
  BY DEF ClassNamesOfRun, DiffsIInv, RunIsComparable
<1>4. folder.labels[s] \in Label
  BY FolderType DEF DiffsIInv, IInv, TypeOK, Paired
<1>5. \A c \in ClassIds(folder.labels[s]) : c \in 0 .. count - 1
  BY <1>2, <1>3, <1>4, ClassIdsType
<1> HIDE DEF count
<1>6. ASSUME NEW r \in Range(folder.labels[s].rows)
      PROVE  Usable(r, count)
  <2>1. RowValid(r) /\ r.cls \in ClassIds(folder.labels[s])
    BY <1>1 DEF LabelValid, ClassIds
  <2> QED
    BY <1>1, <1>5, <2>1 DEF Usable, RowValid
<1>7. LabelUsable(LabelOf(s), count)
  BY <1>1, <1>6 DEF LabelUsable, LabelValid
<1>8. Boxes(LabelOf(s), count) = folder.labels[s].rows
  BY <1>1, <1>4, <1>7, NoneLeftOut
<1> QED
  BY <1>7, <1>8 DEF count

\* Of the labels of a run's dataset that are read alike none is reported as unusable, and every
\* box of theirs is compared: what the inferencer reads of them is what the scanner read,
\* whatever class list is set or cleared after the run was created.
THEOREM LabelsComparable == DiffsSpec => []LabelsCompare
<1>1. DiffsInit => DiffsIInv
  BY InitHolds DEF DiffsInit, DiffsIInv, RunIsComparable
<1> QED
  BY <1>1, DiffsStepKeeps, Comparable, PTL DEF DiffsSpec

\* The pairs of every image of a run are stable, whatever the labels hold and the model predicts:
\* no box is in two of them, a candidate that was left out lost to one with at least its IoU,
\* and an image without a diff has one detection of the same class for each box of its label.
THEOREM PairsStable == DiffsSpec => []PairsAreStable
<1>1. DiffsInit => DiffsIInv
  BY InitHolds DEF DiffsInit, DiffsIInv, RunIsComparable
<1>2. DiffsIInv => PairsAreStable
  <2> SUFFICES ASSUME DiffsIInv
               PROVE  PairsAreStable
    OBVIOUS
  <2>1. \A s \in DOMAIN folder.images : LabelOf(s) \in Label
    BY LabelOfType
  <2> QED
    BY <2>1, StablePairs DEF PairsAreStable
<1> QED
  BY <1>1, <1>2, DiffsStepKeeps, PTL DEF DiffsSpec
=============================================================================
