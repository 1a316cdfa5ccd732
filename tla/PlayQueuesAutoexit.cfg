SPECIFICATION FairSpec
CONSTANTS
    NPackets = 2
    MaxFrames = 2
    MinFrames = 1
    InfBuf = TRUE
    MaxSeeks = 1
    MaxCycles = 1

PROPERTY Autoexit
