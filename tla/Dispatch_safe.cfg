SPECIFICATION Spec
CONSTANTS
    Workers = {w1, w2}
    w1 = w1
    w2 = w2
    MAX_ATTEMPTS = 2
    MaxExecutions = 2
    MaxDuplicates = 1
    MaxCrashes = 1
    DatabaseMayFail = TRUE
    RedisMayFlush = TRUE
INVARIANTS
    QueuedHasAssigned
PROPERTIES
    ClaimedOnce
SYMMETRY Symmetry
CHECK_DEADLOCK FALSE
