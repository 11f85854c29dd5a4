SPECIFICATION Spec
CONSTANTS
    Origins <- Consistent
    FlushOutcomes <- AnyFlush
    Handovers = TRUE
    MaxMessages = 3
    MaxLength = 3
    MaxRoom = 3
    MaxInput = 2
CHECK_DEADLOCK FALSE
INVARIANTS TypeOK WritesAtomic InputGiven ActiveMeansCertified AssertionsHold ResetOnlyByPeer
PROPERTIES ImplementsAtomicStream
