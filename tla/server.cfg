SPECIFICATION FairSpec
CONSTANTS
    Fds <- MCFds
    NoMsg = NoMsg
    MaxConns = 3
    MaxMsgs = 2
CHECK_DEADLOCK FALSE
INVARIANTS MessagesAccounted OutboxDrained SendsFindTheirTransport
PROPERTY TurnEnds
