SPECIFICATION DSpec
CONSTANTS
    m1 = m1
    m2 = m2
    e1 = e1
    NoMain = NoMain
    Mains <- MCTwoMains
    Executions <- MCOneExecution
    MaxOverlap = 1
    CrashesBeforeExpiry = FALSE
    MaxEnds = 1
INVARIANTS
    DutiesDone
    TrackersApart
CHECK_DEADLOCK FALSE
