SPECIFICATION Spec
CONSTANTS
    c1 = c1
    c2 = c2
    c3 = c3
    NoCall = NoCall
    NoEntry = NoEntry
    Calls <- MCThreeCalls
    Executions <- MCThreeExecutions
    ModeOf <- MCMixed
    ProductionLimit = 1
    Outcomes <- MCEndsAndPauses
    KeepSuccess = TRUE
    KeepError = TRUE
    Stoppables <- MCNone
    Timeouts = FALSE
    Denials = TRUE
    RequestsDuringBoot = FALSE
    RecoveryMode = "simple"
    MaxRestarts = 2
SYMMETRY Symmetry
INVARIANTS
    TypeOK
    SlotsMatchHolders
    OneEngine
    NoZombies
    EnqueuedSurvive
PROPERTIES
    BegunOnce
CHECK_DEADLOCK FALSE
