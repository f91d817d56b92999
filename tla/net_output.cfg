\* two clients share broadcasts and get answers of their own
\* the network thread may block on its own pipe for ever
CHECK_DEADLOCK FALSE
SPECIFICATION Spec
CONSTANTS
    listensock = 3
    ControlPipe = 4
    NoClient = NoClient
    PIPE_READ = 16
    Queries <- MCQueries
    Snapshots <- MCSnapshots
    MessageLength <- MCMessageLength
    INBUF_SIZE = 3
    PERSISTENT_IOVS = 1
    ClientFds <- TwoClients
    Commands <- GoodAndBad
    CommandLength <- QueryOrBad
    Refused <- MCRefused
    Settings <- OneSetting
    Talkers <- Second
    Leavers <- None
    PipeSize = 1
    MaxUnread = 1
    MaxHeap = 2
INVARIANTS
    TypeOK
    RefcountsExact
    OutputIffQueued
    EveryReportServed
    StreamIntact
    MaxsockCovers
