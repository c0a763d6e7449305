SPECIFICATION Spec
CONSTANTS
    c1 = c1
    c2 = c2
    c3 = c3
    NoCall = NoCall
    NoEntry = NoEntry
    Calls <- MCTwoCalls
    Executions <- MCTwoExecutions
    ModeOf <- MCLimited
    ProductionLimit = 1
    Outcomes <- MCNone
    KeepSuccess = TRUE
    KeepError = TRUE
    Stoppables <- MCNone
    Timeouts = TRUE
    Denials = FALSE
    RequestsDuringBoot = FALSE
    RecoveryMode = "simple"
    MaxRestarts = 0
PROPERTIES
    CanceledStays
CHECK_DEADLOCK FALSE
