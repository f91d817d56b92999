\* reconnects while the reader and the MIDI thread send
SPECIFICATION FairSpec
CONSTANTS
    c1 = c1
    c2 = c2
    Contexts <- TwoContexts
    NULL = NULL
    None = None
INVARIANTS
    TypeOK
    OneReader
    FreedOnce
    BadOnlyDuringReconnect
    FailureKept
PROPERTIES
    ImplementsLink
    FlushServed
    FrameFollowsReconnect
CHECK_DEADLOCK FALSE
