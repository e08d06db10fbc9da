SPECIFICATION Spec
CONSTANTS
    Symbols = {"<", "/", "t"}
    Patterns <- MCFences
    StreamContent = TRUE
    MaxChunk = 1
    MaxBuffer = 6
CHECK_DEADLOCK FALSE
INVARIANT AgreesWithBatch
