SPECIFICATION Spec
CONSTANTS
    c1 = c1
    c2 = c2
    c3 = c3
    NoCall = NoCall
    NoEntry = NoEntry
    Calls <- MCTwoCalls
    Executions <- MCTwoExecutions
    ModeOf <- MCLimited
    ProductionLimit = 1
    Outcomes <- MCEnds
    KeepSuccess = TRUE
    KeepError = TRUE
    Stoppables <- MCNone
    Timeouts = FALSE
    Denials = FALSE
    RequestsDuringBoot = FALSE
    RecoveryMode = "extensive"
    MaxRestarts = 1
INVARIANTS
    NoZombies
CHECK_DEADLOCK FALSE
