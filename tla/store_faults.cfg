SPECIFICATION Spec
CONSTANTS
    AuxCap = 1
    Submitted <- EveryKind
    Faults = {"clean", "unsynced", "torn"}
    MaxSeq = 4
    MaxCrashes = 1
INVARIANTS
    TypeOK
    OfficialsHeld
    AckedSurvive
    DenseJournalResumes
    HealthTellsQueue
PROPERTIES
    ImplementsScoreLog
CHECK_DEADLOCK FALSE
