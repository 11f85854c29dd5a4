SPECIFICATION Spec
CONSTANTS
    Fds <- MCFds
    NoMsg = NoMsg
    MaxConns = 3
    MaxMsgs = 2
CHECK_DEADLOCK FALSE
INVARIANT MessagesReachTheirPeer
