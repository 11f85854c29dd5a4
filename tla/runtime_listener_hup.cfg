SPECIFICATION Spec
CONSTANTS
    a1 = a1
    None = None
    Fds <- MCFds
    Addrs <- MCAddrs
    ListenerFails <- HupAndErr
    OtherThreads <- WithAndWithout
    MaxMade = 4
    MaxQueue = 2
INVARIANT NoPanic
