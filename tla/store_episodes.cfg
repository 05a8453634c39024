SPECIFICATION FairSpec
CONSTANTS
    AuxCap = 1
    Submitted <- ShotsAndCompletion
    Faults = {"clean", "torn"}
    MaxSeq = 5
    MaxCrashes = 2
INVARIANTS
    WriteOrder
    Accounted
    CleanOnceDrained
PROPERTIES
    WaitingIsWritten
CHECK_DEADLOCK FALSE
