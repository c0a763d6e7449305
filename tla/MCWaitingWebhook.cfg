SPECIFICATION WSpec
CONSTANTS
    c1 = c1
    c2 = c2
    NoCall = NoCall
    NoEntry = NoEntry
    Calls <- MCTwoCalls
    Executions <- MCTwoExecutions
    ModeOf <- MCLimited
    ProductionLimit <- MCUnlimited
    Outcomes <- MCPauses
    KeepSuccess = TRUE
    KeepError = TRUE
    Stoppables <- MCNone
    Timeouts = FALSE
    Denials = FALSE
    RequestsDuringBoot = FALSE
    RecoveryMode = "extensive"
    MaxRestarts = 0
    TimedWaits <- MCFirst
    WebhookWaits <- MCFirst
    ResumesOverlap = FALSE
PROPERTIES
    ResumedOncePerPause
CHECK_DEADLOCK FALSE
