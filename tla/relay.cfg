SPECIFICATION FairSpec
CONSTANTS
    None = None
    MaxSent = 2
    BufSize = 2
INVARIANTS
    NeverOverstated
    CompletedIsExact
    CutOffKeepsTotals
    FinishedIsLastWord
PROPERTIES
    ProgressIsMonotone
    RelayEnds
CHECK_DEADLOCK FALSE
