SPECIFICATION FairSpec
CONSTANTS
    Nodes = {a}
    NoNode = NoNode
    MaxConcurrency = 1
    Strategies = {"always_run"}
    MaxNodeEvents = 0
    MaxRuns = 1
    SoftFail = FALSE
    MayClose = FALSE
    MayCancel = TRUE
CHECK_DEADLOCK FALSE
PROPERTY RunCompletes
