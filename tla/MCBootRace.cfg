SPECIFICATION Spec
CONSTANTS
    c1 = c1
    c2 = c2
    c3 = c3
    NoCall = NoCall
    NoEntry = NoEntry
    Calls <- MCThreeCalls
    Executions <- MCTwoExecutions
    ModeOf <- MCLimited
    ProductionLimit = 1
    Outcomes <- MCEnds
    KeepSuccess = TRUE
    KeepError = TRUE
    Stoppables <- MCNone
    Timeouts = FALSE
    Denials = FALSE
    RequestsDuringBoot = TRUE
    RecoveryMode = "simple"
    MaxRestarts = 1
PROPERTIES
    BegunOnce
CHECK_DEADLOCK FALSE
