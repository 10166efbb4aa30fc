\* Two callers, one change of the accounts.
SPECIFICATION FairSpec
CONSTANTS
    Callers = {c1, c2}
    Idle = idle
    Freshness = 1
    MaxUpdates = 1
    MaxTime = 2
INVARIANTS ResultIsMine ForcedIsNew SharedIsFresh NoPartialResult
PROPERTY EveryCallReturns
