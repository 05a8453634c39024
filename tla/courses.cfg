SPECIFICATION CourseSpec
CONSTANTS
    MatchMs = 3
    PrepMs = 2
    OfficialShots = 1
    CreditMs = 2
    MaxTime = 3
    MaxShots = 2
    MaxIncidents = 1
    MaxCrashes = 2
    BlockCount = 3
    ShotsPerBlock = 2
    FiredInBlocks = 7
    ShotCount = 2
    FiredInCalls = 6
    Sequence <- MCSequence
    Repeats = 2
    VerificationShots = 2
    FiredInTransition = 8
    Conditions = {"measured"}
    FiredInWind = 2
    MaxCuts = 2
INVARIANTS
    TypeOK
    RemainingExact
    ResumeExact
    OneRulingPerIncident
    CapHolds
    ShotsRecordedOnce
    OneUnresolvedShot
    WithinPlan
PROPERTIES
    ResumesInPlace
CHECK_DEADLOCK FALSE
