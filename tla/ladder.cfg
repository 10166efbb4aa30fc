\* Units of ten minutes: 30 minutes, 24 hours, 48 hours, a week; a scan every
\* six hours; one message is lost, one update fails or a user asks once.
SPECIFICATION Spec
CONSTANTS
    BaseDelay = 3
    MaxDelay = 144
    RateLimitedDelay = 288
    MaxAttempts = 8
    RepeatInterval = 1008
    ScanInterval = 36
    MaxMishaps = 1
INVARIANTS FailingIsReminded GivesUpSlowly
PROPERTIES OnlyNewsIsTold RateLimitOutlastsScan
