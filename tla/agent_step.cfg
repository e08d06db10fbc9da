SPECIFICATION FairSpec
CONSTANTS
    Ids = {i1, i2}
    MaxCalls = 2
    MaxChunks = 2
    MaxFaults = 2
INVARIANTS
    TypeOK
    
    ContextAgreesOnOutcome
    EventsPrecedeReport
PROPERTIES
    NothingStartsAfterFailure
    ImplementsToolCalls
    StepEnds
CHECK_DEADLOCK FALSE
