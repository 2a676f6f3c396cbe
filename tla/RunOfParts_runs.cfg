SPECIFICATION RunsSpec
CONSTANTS
    Parts = {p1, p2, p3}
    p1 = p1
    p2 = p2
    p3 = p3
    NumWorkers = 2
    MaxRetries = 1
    FailuresHappen = TRUE
    HeartbeatsMayFail = TRUE
INVARIANTS
    OverMeansEnded
    VerdictIsTrue
    PendingHasExecution
    StoppingHasExecution
    SerialEndsFinalise
    CompletedHasMetrics
PROPERTIES
    
    CompletedKeepsItsZip
SYMMETRY Symmetry
CHECK_DEADLOCK FALSE
