CONSTANTS
    Executions = {e1}
    Workers = {w1}
    NoWorker = NoWorker
    NoEntry = NoEntry
    Pending = Pending
    Concurrency = 1
    MaxStalledCount = 1
    Outcomes = {"success", "error", "waiting"}
    Pausing = {e1}
    MaxPauses = 1
    KeepSuccess = FALSE
    KeepError = TRUE
    Stoppables = {}
    RedisFails = FALSE
    Watchdog = TRUE
    EventsLost = FALSE
    LocksLapse = FALSE
    QuickResumes = FALSE
    QueueRecovery = TRUE
    MaxEnds = 1
    MaxMainCrashes = 0
SPECIFICATION Spec

PROPERTIES PausedKept
CHECK_DEADLOCK FALSE
