SPECIFICATION FairSpec
CONSTANTS
    s1 = s1
    s2 = s2
    w1 = w1
    w2 = w2
    Sources = {s1}
    ClassLists = {"x"}
    MaxScans = 1
    MaxMoves = 1
    MayOutlive = FALSE
    Walks = {w1, w2}
    MaxBuilds = 1
PROPERTIES
    BuildsEnd
    IndexConverges
CHECK_DEADLOCK FALSE
