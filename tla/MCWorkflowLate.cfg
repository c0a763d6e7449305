CONSTANTS
    Workflows <- OnlyCrowded
    NoData = NoData
    MaxRuns = 3
    MaxRetries = 0
SPECIFICATION Spec
INVARIANTS NoLateData
CHECK_DEADLOCK FALSE
