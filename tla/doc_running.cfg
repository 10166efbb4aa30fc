\* A restart leaves a running task behind.
SPECIFICATION Spec
CONSTANTS
    CertLife = 2
    RenewBefore = 1
    MaxAttempts = 2
    BaseDelay = 1
    MaxDelay = 1
    RateLimitedDelay = 2
    RepeatInterval = 7
    ErrorKinds = {"transient"}
    Domains = {d1}
    Tasks = {t1, t2}
    Clients = {c1}
    Requested = {d1}
    RenewConcurrency = 4
    MaxFaults = 0
    MaxCrashes = 1
    TickWhenBusy = TRUE
    Interference = {"pause", "rebind"}
INVARIANT RunningIsExecuted
