SPECIFICATION FairSpec
CONSTANTS
    Durations <- MCDurations
    MaxAge = 2
    MaxFired = 2
    MaxTroubles = 2
    Limit3P <- MCLimit3P
    Singles3P = 1
    PrepWarnings <- MCWarnings
    StageOneWarnings <- MCWarnings
    PerSeries = 2
    Singles10m = 1
    Checkpoints = {5}
    SightWarnings <- MCWarnings
INVARIANTS
    ShotsAccountedFor
    ControllerMatchesJournal
    VerdictsTrue
    WindowsTakeShots
PROPERTIES
    CourseForward
    ResumeKeepsClock
    FinalEnds
CHECK_DEADLOCK FALSE
