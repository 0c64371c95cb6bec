SPECIFICATION FairFileSpec
CONSTANTS
    Inodes <- MCInodes
    MaxLines = 3
    MaxFaults = 1
    MaxStarts = 2
    MaxReaders = 2
    ReadLines = 1
    SigLines = 1
    HighWatermark = 1
    MaxBuffer = 2
    SliceLines = 1
    MaxAttempts = 1
INVARIANTS
    FileInv
    NothingSkipped
PROPERTIES
    RotatedIsRead
    EveryLineSettled
CHECK_DEADLOCK FALSE
