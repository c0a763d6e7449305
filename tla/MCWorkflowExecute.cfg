CONSTANTS
    Workflows <- Small
    NoData = NoData
    MaxRuns = 3
    MaxRetries = 1
SPECIFICATION FairSpec
INVARIANTS TypeOK NothingLost SourcesKnown NoLateData MergesServed
PROPERTIES Ends
CHECK_DEADLOCK FALSE
