SPECIFICATION Spec
CONSTANTS
    Options <- OnlyLive
    MaxSend = 4
    MaxErrors = 0
PROPERTIES
    KeyframeAfterRestart
CHECK_DEADLOCK FALSE
