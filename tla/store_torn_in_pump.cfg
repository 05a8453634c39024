SPECIFICATION Spec
CONSTANTS
    AuxCap = 1
    Submitted <- ShotsAndRejects
    Faults = {"clean", "torn"}
    MaxSeq = 5
    MaxCrashes = 1
INVARIANTS
    TornIsFailed
CHECK_DEADLOCK FALSE
