SPECIFICATION Spec
CONSTANTS
    m1 = m1
    m2 = m2
    NoMain = NoMain
    Mains <- MCTwoMains
    MaxOverlap = 2
    CrashesBeforeExpiry = FALSE
    MaxEnds = 0
INVARIANTS
    HolderLeads
CHECK_DEADLOCK FALSE
