SPECIFICATION Spec
CONSTANTS
    TaskID = {t1, t2}
    Priority <- MCPriority
    MaxIterations = 1
    FailureThreshold = 2
    SuccessThreshold = 2
    NoTask = NoTask
    MaxChecks = 2
    MaxResults = 3
    MaxPanics = 1
INVARIANTS TypeOK ToldAsStored
PROPERTIES UnhealthyRecovers
CHECK_DEADLOCK FALSE
