SPECIFICATION Spec
CONSTANTS
    s1 = s1
    s2 = s2
    w1 = w1
    w2 = w2
    Sources = {s1, s2}
    ClassLists = {"x"}
    MaxScans = 2
    MaxMoves = 1
    MayOutlive = TRUE
    Walks = {w1}
    MaxBuilds = 2
SYMMETRY Symmetry
CONSTRAINT WorkBound
INVARIANTS
    ScanningIsUnderway
    StatusIsLatest
    RunningHasExecution
    ReadyIsWhole
PROPERTIES
    DeletedStays
CHECK_DEADLOCK FALSE
