SPECIFICATION Spec
CONSTANTS
    FailureThreshold = 5
    SuccessThreshold = 3
    MaxFails = 5
    MaxAttempts = 3
    FailCap = 12
INVARIANTS HalfOpenAdmits
