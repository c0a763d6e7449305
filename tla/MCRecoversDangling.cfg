CONSTANTS
    Executions = {e1, e2}
    Workers = {w1, w2}
    NoWorker = NoWorker
    NoEntry = NoEntry
    Pending = Pending
    Concurrency = 1
    MaxStalledCount = 0
    Outcomes = {"success", "error", "waiting"}
    Pausing = {e1}
    MaxPauses = 1
    KeepSuccess = FALSE
    KeepError = TRUE
    Stoppables = {}
    RedisFails = FALSE
    Watchdog = TRUE
    EventsLost = FALSE
    LocksLapse = FALSE
    QuickResumes = FALSE
    QueueRecovery = TRUE
    MaxEnds = 1
    MaxMainCrashes = 1
SPECIFICATION Spec
SYMMETRY WorkerSymmetry

PROPERTY RecoversDangling
CHECK_DEADLOCK FALSE
