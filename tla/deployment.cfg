SPECIFICATION Spec
CONSTANTS
    NumAccounts = 2
    NumBuckets = 1
    MaxCert = 2
    MaxMoves = 1
    MaxFaults = 1
INVARIANTS
    WritesWhereServed
    SavedBeforeDeployed
PROPERTIES
    ExecutorNeverDowngrades
    LapsedIsRepaired
    NewestIsDeployed
