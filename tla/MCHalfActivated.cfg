CONSTANTS
    Workflows = {a}
    Triggers = 2
    Requesters = {"request"}
    Overlaps = FALSE
    FailingCloses = {}
    MaxRequests = 2
    MaxFailures = 1
    MaxRestarts = 0
SPECIFICATION Spec
INVARIANTS OnlyActiveRun
CHECK_DEADLOCK FALSE
