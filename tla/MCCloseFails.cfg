CONSTANTS
    Workflows = {a}
    Triggers = 1
    Requesters = {"request"}
    Overlaps = FALSE
    FailingCloses = {"close"}
    MaxRequests = 0
    MaxFailures = 2
    MaxRestarts = 0
SPECIFICATION Spec
INVARIANTS ActiveServed
CHECK_DEADLOCK FALSE
