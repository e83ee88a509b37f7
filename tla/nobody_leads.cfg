SPECIFICATION FairSpec
CONSTANTS
    Replicas = {r1, r2}
    Keys = {k1}
    None = None
    r1 = r1
    r2 = r2
    k1 = k1
    MaxDisruptions = 3
    MaxEdits = 2
CHECK_DEADLOCK FALSE
PROPERTY EnabledIsCollected
