SPECIFICATION FairSpec
CONSTANTS
    FileSize = 4
    Capacity = 2
    ReadBack = 1
    ShortSeek = 1
    Chunk = 2
    MaxRead = 2
    Targets <- TargetsMC
INVARIANTS TypeOK RingIsWindowOfFile
PROPERTY ImplementsFile
