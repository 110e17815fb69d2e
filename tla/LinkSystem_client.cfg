\* Two data channels, a client that comes, goes and times out, a device that may fail; fair
\* scheduling.
CONSTANTS
    DcCount = 2
    MaxConns = 2
    SockMax = 1
    QueueMax = 3
    TailKeep = 2
    PullMax = 2
    MaxPos <- MCMid
    MaxReports = 0
    MaxFaults = 1
    BackendDrops = FALSE
    RequestIds = 2
    MaxTimeouts = 1
    MayCrash = TRUE
SPECIFICATION FairSpec
INVARIANTS
    StreamAnnounced
    JoinsAtHeartbeat
    SetupComplete
    StopStops
    ReplyAnswers
PROPERTIES
    RequestReturns
CHECK_DEADLOCK FALSE
