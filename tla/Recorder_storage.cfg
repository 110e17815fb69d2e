\* One data channel with heartbeats to index; memory, writes and power fail; fair scheduling.
SPECIFICATION FairSpec
CONSTANTS
    K = 1
    NumChannels = 1
    PieceLens = {2}
    ItemSize = 1
    QueueMax = 3
    BatchMin = 2
    HeartbeatLen = 2
    AllocMayFail = TRUE
    WriteMayFail = TRUE
    PowerMayFail = TRUE
    MaxStream = 4
    MaxGrid = 1
    MaxHeartbeats = 1
    MaxCalls = 3
    MaxControls = 0
    BackendLosses = {}
INVARIANTS
    IndexPoints
    IndexWithinFile
    ClosedIsDurable
PROPERTIES
    TornIsLast
    WriterFinishes
