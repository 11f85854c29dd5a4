SPECIFICATION FairSpec
CONSTANTS
    Threshold = 2
    WAIT_TIMEOUT = 3
    MaxTime = 3
    MaxDuration = 2
    MaxActions = 3
INVARIANTS TypeOK PollOutlastsNoTimer AskedTimersCovered NothingLeftWaiting
PROPERTY EventsHandled
