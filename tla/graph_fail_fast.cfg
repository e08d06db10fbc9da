SPECIFICATION Spec
CONSTANTS
    Nodes = {a, b, c}
    NoNode = NoNode
    MaxConcurrency = 2
    Strategies = {"fail_fast"}
    MaxNodeEvents = 0
    MaxRuns = 1
    SoftFail = FALSE
    MayClose = FALSE
    MayCancel = FALSE
CHECK_DEADLOCK FALSE
PROPERTY FailFastStopsImmediately
