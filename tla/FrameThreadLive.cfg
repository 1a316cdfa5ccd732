SPECIFICATION FairSpec
CONSTANTS
    N = 2
    MaxPkt = 3
    Codecs <- LiveCodecs
PROPERTIES
    CallsReturn
