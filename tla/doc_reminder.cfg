\* Units of ten minutes; a scan a day.
SPECIFICATION Spec
CONSTANTS
    BaseDelay = 3
    MaxDelay = 144
    RateLimitedDelay = 288
    MaxAttempts = 8
    RepeatInterval = 1008
    ScanInterval = 144
    MaxMishaps = 0
INVARIANT FaultIsReminded
