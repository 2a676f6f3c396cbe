SPECIFICATION FairSpec
CONSTANTS
    Workers = {w1, w2}
    w1 = w1
    w2 = w2
    MAX_ATTEMPTS = 2
    MaxExecutions = 2
    MaxDuplicates = 0
    MaxCrashes = 1
    DatabaseMayFail = FALSE
    RedisMayFlush = FALSE
INVARIANTS
    AssignedIsUnderway
PROPERTIES
    AssignedIsHandled
CHECK_DEADLOCK FALSE
