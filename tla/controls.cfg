SPECIFICATION Spec
CONSTANTS
    Controls = {"focus", "whiteBalance", "contrast", "saturation", "hue"}
    Limits <- SomeLimits
    Percents <- SomePercents
    MaxCalls = 4
    MaxFails = 1
INVARIANTS CachesAgree SentInRange ResetsToDefault ReadsBack
CHECK_DEADLOCK FALSE
