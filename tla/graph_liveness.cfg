SPECIFICATION FairSpec
CONSTANTS
    Nodes = {a, b, c}
    NoNode = NoNode
    MaxConcurrency = 2
    Strategies = {"fail_fast", "allow_independent", "always_run"}
    MaxNodeEvents = 0
    MaxRuns = 1
    SoftFail = FALSE
    MayClose = FALSE
    MayCancel = FALSE
CHECK_DEADLOCK FALSE
PROPERTY RunCompletes
