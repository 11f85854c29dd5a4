SPECIFICATION FairSpec
CONSTANTS
    Origins <- Connecting
    FlushOutcomes <- OnlyOk
    Handovers = FALSE
    MaxMessages = 2
    MaxLength = 2
    MaxRoom = 1
    MaxInput = 1
CHECK_DEADLOCK FALSE
PROPERTY BufferedBytesLeave
