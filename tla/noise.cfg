SPECIFICATION FairSpec
CONSTANTS
    k1 = k1
    k2 = k2
    Keys <- MCKeys
    None = None
    Contexts <- MCContexts
    Modes = {"blocking", "nonblocking"}
    Fragmentation = {TRUE, FALSE}
    MaxData = 2
CHECK_DEADLOCK FALSE
INVARIANTS DataUnaltered IdentityAgreed PanicOnlyOnWrongPeer
PROPERTIES SessionsEstablish DataArrives
