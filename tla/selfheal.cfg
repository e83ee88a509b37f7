SPECIFICATION Spec
CONSTANTS
    Keys = {k1}
    None = None
    k1 = k1
    StallGrace = 1
    RecreateBackoff = 1
    PodRestartGrace = 1
    PodRestartCooldown = 1
    SelfHealPodRestart = TRUE
    MaxClock = 9
INVARIANT TypeOK
PROPERTY RestartSpacing
PROPERTY RestartOnlyAfterLongFailure
PROPERTY RecreateIsGivenAChance
PROPERTY RecreateSpacing
PROPERTY UpIsRecent
