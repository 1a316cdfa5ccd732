SPECIFICATION Spec
CONSTANTS
    Options <- OnlyRecording
    MaxSend = 3
    MaxErrors = 3
PROPERTIES
    RescaledOnce
CHECK_DEADLOCK FALSE
