CONSTANTS
    Workflows <- OnlyLopsided
    NoData = NoData
    MaxRuns = 3
    MaxRetries = 0
SPECIFICATION Spec
INVARIANTS NothingLost
CHECK_DEADLOCK FALSE
