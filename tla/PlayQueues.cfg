SPECIFICATION FairSpec
CONSTANTS
    NPackets = 2
    MaxFrames = 2
    MinFrames = 1
    InfBuf = FALSE
    MaxSeeks = 1
    MaxCycles = 1
INVARIANTS FrameInUseKept NothingPendingAtEnd
PROPERTIES OnlyCurrentFramesPlayed ClosingEnds PlaybackEnds
