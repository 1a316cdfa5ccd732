SPECIFICATION FairSpec
CONSTANTS
    NThreads = 2
    BufferSize = 4
    MaxFrames = 6
INVARIANTS
    TypeOK
    NothingLeft
PROPERTIES
    ImplementsEncoder
