SPECIFICATION Spec
CONSTANTS
    t1 = t1
    t2 = t2
    t3 = t3
    w1 = w1
    w2 = w2
    w3 = w3
    Task = {t1, t2, t3}
    Worker = {w1, w2, w3}
    NoWorker = NoWorker
    Priority <- MCPriority
    Child = {t2}
    StartWorkers <- MCStartWorkers
    Capacity = 1
    IndexMax = 2147483647
    MaxRetries = 3
    ImbalanceThreshold = 1
    MaxDistributions = 2
    MaxRebalances = 1
INVARIANTS TypeOK BooksAgree LoadsCoverWork MinLoadExactUnlessIdle CostBasedFillsUp
PROPERTIES DistributionLevels
CHECK_DEADLOCK FALSE
