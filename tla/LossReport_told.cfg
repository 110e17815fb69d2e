\* Two channels, two samples counted before a flush, one counter copied per step; a transaction
\* may fail after any part of the report, or after all of it. SliceWord is small enough for a
\* counter that is not flushed to run over.
SPECIFICATION FairSpec
CONSTANTS
    Count = 2
    C = 2
    Word = 16
    SliceWord = 3
    FlushAt = 2
    PerStep = 1
    Failures = {"part", "all"}
    MaxTicks = 4
    MaxLag = 2
CHECK_DEADLOCK FALSE
INVARIANTS
    CountersExact
    MarksExact
    NoReportTwice
PROPERTIES
    LossIsTold
