SPECIFICATION Spec
CONSTANTS
    Symbols = {"<", "/", "t"}
    Patterns <- MCPatterns
    StreamContent = TRUE
    MaxChunk = 3
    MaxBuffer = 9
CHECK_DEADLOCK FALSE
INVARIANTS
    TypeOK
    CompleteWellFormed
    SmallChunksAgree
