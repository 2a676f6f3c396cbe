SPECIFICATION DependantSpec
CONSTANTS
    j1 = j1
    j2 = j2
    Jobs = {j1, j2}
    MaxTrainingAttempts = 2
    NumWorkers = 2
    MaxRetries = 1
    HeartbeatsMayFail = FALSE
PROPERTY JobsSettle
PROPERTY ExecutionsSettle
CHECK_DEADLOCK FALSE
