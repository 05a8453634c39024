SPECIFICATION ReviewSpec
CONSTANTS
    MaxStrings = 2
    MaxFires = 10
    MaxMoves = 0
    ShownStrings = 1
INVARIANTS
    SimilarAreSimilar
CHECK_DEADLOCK FALSE
