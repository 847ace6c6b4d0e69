SPECIFICATION WaitSpec
CONSTANTS
    Job = {j1}
    Worker = {w1, w2}
    NoJob = NoJob
    MaxWorkers = 2
    QueueSize = 1
    MaxRetries = 3
    MaxStarts = 1
    MaxSubmits = 2
INVARIANTS WaitMeansComplete
CHECK_DEADLOCK FALSE
