SPECIFICATION Spec
CONSTANTS
    MaxIterations = 2
    MaxBuffer = 2
    Threshold = 1
    MaxVersions = 5
    MaxPieces = 2
INVARIANTS
    TypeOK
    StopsForThisStep
PROPERTIES
    GoesOnOnlyIfDue
    LoopEnds
CHECK_DEADLOCK FALSE
