SPECIFICATION FairSpec
CONSTANTS
    Job = {j1, j2}
    Worker = {w1, w2}
    NoJob = NoJob
    MaxWorkers = 2
    QueueSize = 1
    MaxRetries = 3
    MaxStarts = 2
    MaxSubmits = 3
INVARIANTS TypeOK GaugesExact MetricsConserved OneHolder AcceptedIsHeld DropsOnlyOnOverflow FirstLifeNeedsNoRestart GracefulStop
PROPERTIES QueuedTaskIsServed WorkersLeave KeepsLedger
CHECK_DEADLOCK FALSE
