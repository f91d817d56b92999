\* does a failed reader die?
SPECIFICATION FairSpec
CONSTANTS
    c1 = c1
    c2 = c2
    Contexts <- TwoContexts
    NULL = NULL
    None = None
PROPERTIES
    FailedReaderDies
CHECK_DEADLOCK FALSE
