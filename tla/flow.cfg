SPECIFICATION FairSpec
CONSTANTS
    None = None
    SeqMod <- MCSeqMod
    HandshakeActions <- MethodActions
    DataActions <- MethodActions
    Nodelay = TRUE
INVARIANTS
    HandlerNeverPanics
    RewrittenOnce
    SidesAgree
    ReadyForPrefix
    EventsTellTheStory
PROPERTIES
    RewritesOnlyUndecided
    KeepsPromise
    SettlesEventually
CHECK_DEADLOCK FALSE
