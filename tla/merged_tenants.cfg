SPECIFICATION Spec
CONSTANTS
    Keys = {k1, k2}
    Namespaces = {n1, n2}
    NamespaceOf <- BothInN2
    WatchAll = FALSE
    WatchNamespaces <- BothNamespaces
    Specs <- SpecsOf
    Series <- TwoSeries
    NoName = NoName
    None = None
    AuthConfigured = FALSE
    Internal = Internal
    Merged = Merged
    Answers <- OneAnswer
    MaxTargets = 2
    k1 = k1
    k2 = k2
    n1 = n1
    n2 = n2
    cpu = cpu
    web = web
    db = db
    xdot = xdot
INVARIANT EveryResourceContributes
