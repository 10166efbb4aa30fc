\* Two accounts of two buckets, two domains in up to three places of them, one
\* domain on a page of a CDN list, one change of the cloud during the scans.
SPECIFICATION Spec
CONSTANTS
    NumAccounts = 2
    NumBuckets = 2
    NumDomains = 2
    PageSize = 1
    MaxPlaces = 3
    MaxMoves = 1
INVARIANTS TypeOK ScanIsSound TargetIsServed CompleteIsExact AmbiguousIsDisputed
