CONSTANTS
    Workflows = {a}
    Triggers = 1
    Requesters = {"request"}
    Overlaps = TRUE
    FailingCloses = {}
    MaxRequests = 2
    MaxFailures = 0
    MaxRestarts = 0
SPECIFICATION Spec
INVARIANTS OnlyActiveRun
CHECK_DEADLOCK FALSE
