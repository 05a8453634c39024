SPECIFICATION Spec
CONSTANTS
    Residue = 1
    FlushShootCount = 2
    RecentIdentities = 1
    ReadFailures = 2
    LivenessPolls = 2
    FeedSeconds <- MCFeedSeconds
    MaxShots = 2
    MaxFaults = 1
    MaxChanges = 1
    MaxStatuses = 2
    MaxShotsSent = 2
    MaxSilences = 1
    LaneCount = 2
    Nodes = {"n1"}
    MaxAthletes = 2
    MaxSelected = 2
    MaxEvents = 2
    DisplayLanes = {1, 2, 3}
    Competitions = {"match"}
    Trainings = {"training"}
    MaxDamage = 2
    MaxFailures = 2
    Int32Max = 2000000
    Int64Max = 4000000
    MaxFoldSteps = 3
    MaxStrings = 3
    MaxFires = 10
    MaxMoves = 1
    ShownStrings = 1
    RangeLanes = {1, 2}
    TargetStations = {"s1", "s2"}
    Reports <- MCReports
    Plans <- MCPlans
    StartLists <- MCStartLists
    MaxUpdates = 3
INVARIANTS
    ShotsCorrect
    FedOnce
    ObservedTrue
    TimelineTrue
    PlansSound
    DisplayFollows
    OfferedIsUnfinished
    JournalReadsBack
    SnapshotsHold
    AuditChains
    
    ViewsCurrent
    ModeKept
PROPERTIES
    LinkIsKept
CHECK_DEADLOCK FALSE
