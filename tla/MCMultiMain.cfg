SPECIFICATION FairSpec
CONSTANTS
    m1 = m1
    m2 = m2
    NoMain = NoMain
    Mains <- MCTwoMains
    MaxOverlap = 1
    CrashesBeforeExpiry = FALSE
    MaxEnds = 3
INVARIANTS
    OneLeaderPerKey
    HolderLeads
PROPERTIES
    StaleLeaderStepsDown
    LeadershipTaken
CHECK_DEADLOCK FALSE
