SPECIFICATION Spec
CONSTANTS
    Keys = {k1}
    Ids = {i1, i2, i3}
    Specs <- ThreeSpecs
    None = None
    Empty = Empty
    exact1 = exact1
    exact2 = exact2
    a = a
    b = b
    replicas1 = replicas1
    url1 = url1
    k1 = k1
    i1 = i1
    i2 = i2
    i3 = i3
SYMMETRY Symmetry
INVARIANT TypeOK
INVARIANT RegisteredJobsOpen
INVARIANT NoOrphanedCollector
PROPERTY RefinesRegistry
PROPERTY RefinesReconciliation
