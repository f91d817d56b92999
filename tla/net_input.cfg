\* commands cut into pieces, answered, refused, too long; output leaves
\* the network thread may block on its own pipe for ever
CHECK_DEADLOCK FALSE
SPECIFICATION FairSpec
CONSTANTS
    listensock = 3
    ControlPipe = 4
    NoClient = NoClient
    PIPE_READ = 1
    Queries <- MCQueries
    Snapshots <- MCSnapshots
    MessageLength <- MCMessageLength
    INBUF_SIZE = 3
    PERSISTENT_IOVS = 2
    ClientFds <- OneClient
    Commands <- AllCommands
    CommandLength <- MCCommandLength
    Refused <- MCRefused
    Settings <- OneSetting
    Talkers <- OneClient
    Leavers <- OneClient
    PipeSize = 2
    MaxUnread = 2
    MaxHeap = 1
INVARIANTS
    NoCommandStranded
    OnlyBadClientsDropped
PROPERTIES
    QueuedLeaves
