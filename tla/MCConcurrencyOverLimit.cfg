SPECIFICATION Spec
CONSTANTS
    c1 = c1
    c2 = c2
    c3 = c3
    c4 = c4
    e1 = e1
    e2 = e2
    e3 = e3
    Calls <- MCCalls
    Executions <- MCExecutions
    Cancellable <- MCExecutions
    CallerModes <- MCCallerModes
    MaxCallers = 5
    ProductionLimit = 1
    QueueMode = FALSE
INVARIANTS
    WithinLimit
CHECK_DEADLOCK FALSE
