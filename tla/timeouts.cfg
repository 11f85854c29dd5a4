SPECIFICATION Spec
CONSTANTS
    Thresholds <- MCThresholds
    MaxTime = 5
    MaxTimers = 4
INVARIANTS Separated NextNeverLate NoTimerLost
PROPERTIES CheckFiresExactlyTheDue
