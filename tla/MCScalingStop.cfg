CONSTANTS
    Executions = {e1}
    Workers = {w1, w2}
    NoWorker = NoWorker
    NoEntry = NoEntry
    Pending = Pending
    Concurrency = 1
    MaxStalledCount = 1
    Outcomes = {"success", "error"}
    Pausing = {}
    MaxPauses = 0
    KeepSuccess = TRUE
    KeepError = TRUE
    Stoppables = {e1}
    RedisFails = TRUE
    Watchdog = TRUE
    EventsLost = FALSE
    LocksLapse = FALSE
    QuickResumes = FALSE
    QueueRecovery = FALSE
    MaxEnds = 2
    MaxMainCrashes = 0
SPECIFICATION FairSpec
INVARIANTS OneEngine ResultReady
PROPERTIES RunsEnd EnqueuedSettles
CHECK_DEADLOCK FALSE
