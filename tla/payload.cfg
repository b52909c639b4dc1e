SPECIFICATION Spec
CONSTANTS
    Parts = 2
    MaxFrames = 5
    MaxFaults = 4
INVARIANTS Faultless MixedOnlyByParity NeverSplit DamageFlagged
CHECK_DEADLOCK FALSE
