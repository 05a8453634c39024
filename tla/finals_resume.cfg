SPECIFICATION Spec
CONSTANTS
    Durations <- MCDurations
    MaxAge = 2
    MaxFired = 3
    MaxTroubles = 1
    Limit3P <- MCLimit3P
    Singles3P = 1
    PrepWarnings <- MCWarnings
    StageOneWarnings <- MCWarnings
    PerSeries = 2
    Singles10m = 1
    Checkpoints = {5}
    SightWarnings <- MCWarnings
INVARIANTS
    CountedIsJournalled
CHECK_DEADLOCK FALSE
