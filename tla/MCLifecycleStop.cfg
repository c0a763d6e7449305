SPECIFICATION FairSpec
CONSTANTS
    c1 = c1
    c2 = c2
    c3 = c3
    NoCall = NoCall
    NoEntry = NoEntry
    Calls <- MCTwoCalls
    Executions <- MCTwoExecutions
    ModeOf <- MCLimited
    ProductionLimit = 1
    Outcomes <- MCSuccess
    KeepSuccess = TRUE
    KeepError = FALSE
    Stoppables <- MCFirst
    Timeouts = TRUE
    Denials = FALSE
    RequestsDuringBoot = FALSE
    RecoveryMode = "simple"
    MaxRestarts = 1
INVARIANTS
    EnginesStoppable
PROPERTIES
    StoppedInQueueNeverStarts
    Settles
CHECK_DEADLOCK FALSE
