SPECIFICATION FairSpec
CONSTANTS
    Options <- AllOptions
    MaxSend = 5
    MaxErrors = 4
INVARIANTS
    OutputProtocol
    AttemptsBounded
    NothingLost
    LeaksLastAttemptOnly
PROPERTIES
    InOrderOnce
    CallsReturn
CHECK_DEADLOCK FALSE
