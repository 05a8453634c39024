SPECIFICATION Spec
CONSTANTS
    AuxCap = 1
    Submitted <- ShotsAndRejects
    Faults = {"clean"}
    MaxSeq = 5
    MaxCrashes = 1
INVARIANTS
    CrashedJournalIsResumable
CHECK_DEADLOCK FALSE
