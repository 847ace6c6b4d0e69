SPECIFICATION Spec
CONSTANTS
    Job = {j1}
    Worker = {w1}
    NoJob = NoJob
    MaxWorkers = 1
    QueueSize = 1
    MaxRetries = 3
    MaxStarts = 1
    MaxSubmits = 1
INVARIANTS NeverPanics
CHECK_DEADLOCK FALSE
