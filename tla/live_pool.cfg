\* Liveness when two domains share a pool of one executor, and a user renews
\* one of them beside the daemon.
SPECIFICATION FairSpec
CONSTANTS
    CertLife = 1
    RenewBefore = 0
    MaxAttempts = 1
    BaseDelay = 1
    MaxDelay = 1
    RateLimitedDelay = 1
    RepeatInterval = 7
    ErrorKinds = {"transient"}
    Domains = {d1, d2}
    Tasks = {t1, t2}
    Clients = {c1}
    Requested = {d1}
    RenewConcurrency = 1
    MaxFaults = 0
    MaxCrashes = 0
    TickWhenBusy = FALSE
    Interference = {}
PROPERTIES TasksEnd DueIsAttempted
