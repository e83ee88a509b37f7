SPECIFICATION Spec
CONSTANTS
    Targets <- TwoTargets
    Unreliable = {t1, t2}
    Patterns <- TwoPatterns
    Strategies <- QueriesOf
    Series <- FourSeries
    MaxReading <- Bound
    Relabel <- Rules
    Dropped = Dropped
    Replicas = {r1, r2}
    BatchSize = 2
    Tries = 2
    t1 = t1
    t2 = t2
    r1 = r1
    r2 = r2
    cpu = cpu
    mem = mem
    swap = swap
    tmp = tmp
    memory = memory
    byName = byName
    bySelector = bySelector
SYMMETRY ReplicaSymmetry
INVARIANT TypeOK
INVARIANT SuccessIsDelivery
INVARIANT FailureIsContained
PROPERTY NoCounterReset
