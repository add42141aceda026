CONSTANTS
    Owners = {"t1", "t2"}
    RC_HALF = 2
    MaxStrong = 3
SPECIFICATION RefcountSpec
INVARIANT UnlocksWhatItLocked
CHECK_DEADLOCK FALSE
