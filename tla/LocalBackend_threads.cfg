\* Both threads, with a queue smaller than a block; the UART, poll(), malloc() and the SPI
\* transactions fail at any step; fair scheduling.
SPECIFICATION FairSpec
CONSTANTS
    QueueMax = 1
    BlockSize = 2
    MayFail = TRUE
    MaxSent = 2
    MaxReports = 1
    MaxWrites = 2
    MaxResets = 1
INVARIANTS
    OnceInOrder
    NotAsleep
PROPERTIES
    ReadIsTold
    EndIsTold
