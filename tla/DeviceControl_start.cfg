CONSTANTS
    QueueSize = 1
    Retries = 2
    Channels = {1, 2}
    Splits = 1
    MaxStarts = 3
    MaxNoise = 1
    MaxSlow = 1
SPECIFICATION FairSpec
INVARIANTS
    CaptureAgreed
PROPERTIES
    ReplyIsOwn
    StartSucceeds
CHECK_DEADLOCK FALSE
