\* Two data channels, control messages and the backend's own losses; a queue that overflows.
SPECIFICATION Spec
CONSTANTS
    K = 1
    NumChannels = 2
    PieceLens = {1, 2}
    ItemSize = 1
    QueueMax = 3
    BatchMin = 1
    HeartbeatLen = 1
    AllocMayFail = FALSE
    WriteMayFail = FALSE
    PowerMayFail = FALSE
    MaxStream = 3
    MaxGrid = 0
    MaxHeartbeats = 0
    MaxCalls = 4
    MaxControls = 1
    BackendLosses = {2}
INVARIANTS
    TypeOK
    FileMarksGaps
    QueueSizeExact
PROPERTIES
    ImplementsAnnouncedStream
