SPECIFICATION FairSpec
CONSTANTS
    Senders = {s1, s2}
    Receivers = {r1, r2}
    NElem = 2
    ErrCodes = {eof}
    NoErr = noerr
    MaxSend = 4
INVARIANTS
    TypeOK
    MessagesAccountedFor
    NoLostWakeup
PROPERTIES
    ImplementsChannel
