SPECIFICATION Spec
CONSTANTS
    c1 = c1
    c2 = c2
    c3 = c3
    c4 = c4
    e1 = e1
    e2 = e2
    e3 = e3
    Calls <- MCCalls
    Executions <- MCExecutions
    Cancellable <- MCNone
    CallerModes <- MCCallerModes
    MaxCallers = 5
    ProductionLimit = 2
    QueueMode = FALSE
INVARIANTS
    WithinLimit
PROPERTIES
    ImplementsLine
CHECK_DEADLOCK FALSE
