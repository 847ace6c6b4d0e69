SPECIFICATION Spec
CONSTANTS
    TaskID = {t1}
    Priority <- MCPriority
    MaxIterations = 3
    Worker = {w1, w2}
    NoTask = NoTask
    Torn = Torn
INVARIANTS TypeOK RecordsAgree DuplicatesBounded
PROPERTIES ReportComplete QuietAfterReturn ExecuteEnds
CHECK_DEADLOCK FALSE
