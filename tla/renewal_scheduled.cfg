\* The daemon alone, all kinds of error, time passing during every step.
SPECIFICATION Spec
CONSTANTS
    CertLife = 3
    RenewBefore = 1
    MaxAttempts = 2
    BaseDelay = 1
    MaxDelay = 1
    RateLimitedDelay = 2
    RepeatInterval = 7
    ErrorKinds = {"transient", "permanent", "rate_limited"}
    Domains = {d1}
    Tasks = {t1, t2}
    Clients = {}
    Requested = {}
    RenewConcurrency = 4
    MaxFaults = 2
    MaxCrashes = 1
    TickWhenBusy = TRUE
    Interference = {"pause", "rebind"}
SYMMETRY TaskSymmetry
INVARIANTS RenewalInv FailureIsScheduledOrBlocked
PROPERTY ImplementsCustody
