SPECIFICATION FairSpec
CONSTANTS
    Scopes <- TypesInNamespaces
    Listings <- Distinct
    Flaky <- FlakyPod
    None = None
    Pod = Pod
    Endpoints = Endpoints
    n1 = n1
    n2 = n2
    a = a
    b = b
INVARIANT TypeOK
INVARIANT OnlyFailuresAreMarked
PROPERTY BalancerCatchesUp
PROPERTY DownTargetIsMarked
PROPERTY ListsKeepFlowing
