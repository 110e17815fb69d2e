\* One data channel, a queue that overflows, and losses of the backend's own.
SPECIFICATION Spec
CONSTANTS
    K = 1
    NumChannels = 1
    PieceLens = {2}
    ItemSize = 1
    QueueMax = 3
    BatchMin = 1
    HeartbeatLen = 1
    AllocMayFail = FALSE
    WriteMayFail = FALSE
    PowerMayFail = FALSE
    MaxStream = 4
    MaxGrid = 0
    MaxHeartbeats = 0
    MaxCalls = 4
    MaxControls = 0
    BackendLosses = {2}
INVARIANT
    EndCountsAllDropped
