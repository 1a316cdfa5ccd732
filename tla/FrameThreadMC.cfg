SPECIFICATION Spec
CONSTANTS
    N = 3
    MaxPkt = 4
    Codecs <- AllCodecs
INVARIANTS
    TypeOK
    RingInOrder
    EofMeansEmpty
    ContextChain
    NoCallHangs
    HwaccelSerialized
    AsyncLockOwned
PROPERTIES
    FramesInOrder
