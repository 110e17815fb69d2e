CONSTANTS
    DcCount = 1
    MaxConns = 2
    SockMax = 2
    QueueMax = 2
    TailKeep = 2
    PullMax = 2
    MaxPos <- MCShort
    MaxReports = 1
    MaxFaults = 0
    BackendDrops = FALSE
    RequestIds = 4
    MaxTimeouts = 1
    MayCrash = TRUE
SPECIFICATION Spec
INVARIANTS
    ReplyIsForRequest
CHECK_DEADLOCK FALSE
