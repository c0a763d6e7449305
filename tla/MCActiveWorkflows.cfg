CONSTANTS
    Workflows = {a, b}
    Triggers = 1
    Requesters = {"request"}
    Overlaps = FALSE
    FailingCloses = {"request"}
    MaxRequests = 3
    MaxFailures = 3
    MaxRestarts = 2
SPECIFICATION FairSpec
INVARIANTS OnlyActiveRun ActiveServed
PROPERTIES Activates
CHECK_DEADLOCK FALSE
