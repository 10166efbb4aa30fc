\* One domain, the daemon and a user who renews; a restart and an error of the
\* database at any point.
SPECIFICATION Spec
CONSTANTS
    CertLife = 2
    RenewBefore = 1
    MaxAttempts = 2
    BaseDelay = 1
    MaxDelay = 1
    RateLimitedDelay = 2
    RepeatInterval = 7
    ErrorKinds = {"transient"}
    Domains = {d1}
    Tasks = {t1, t2}
    Clients = {c1}
    Requested = {d1}
    RenewConcurrency = 4
    MaxFaults = 1
    MaxCrashes = 1
    TickWhenBusy = FALSE
    Interference = {"insist"}
SYMMETRY TaskSymmetry
INVARIANTS DeployedIsStored OneExecutorPerDomain NoWastedOrder
PROPERTY TaskEndsOnce
