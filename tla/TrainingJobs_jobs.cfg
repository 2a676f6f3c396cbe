SPECIFICATION Spec
CONSTANTS
    j1 = j1
    j2 = j2
    Jobs = {j1, j2}
    MaxTrainingAttempts = 2
    NumWorkers = 2
    MaxRetries = 1
    HeartbeatsMayFail = TRUE
CONSTRAINT ExecutionsBound
SYMMETRY Symmetric
INVARIANT QueuedHasDispatch
INVARIANT ActiveHasExecution
INVARIANT CompletedHasModel
INVARIANT AttemptsBounded
PROPERTY FollowsLifecycle
PROPERTY FirstDispatchWaits
CHECK_DEADLOCK FALSE
