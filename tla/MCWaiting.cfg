SPECIFICATION WFairSpec
CONSTANTS
    c1 = c1
    c2 = c2
    NoCall = NoCall
    NoEntry = NoEntry
    Calls <- MCTwoCalls
    Executions <- MCTwoExecutions
    ModeOf <- MCLimited
    ProductionLimit <- MCUnlimited
    Outcomes <- MCPauses
    KeepSuccess = TRUE
    KeepError = FALSE
    Stoppables <- MCFirst
    Timeouts = FALSE
    Denials = FALSE
    RequestsDuringBoot = FALSE
    RecoveryMode = "extensive"
    MaxRestarts = 1
    TimedWaits <- MCFirst
    WebhookWaits <- MCSecond
    ResumesOverlap = FALSE
INVARIANTS
    NoDeadTimers
PROPERTIES
    ResumedOncePerPause
    WaitsEnd
CHECK_DEADLOCK FALSE
