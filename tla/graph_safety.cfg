SPECIFICATION Spec
CONSTANTS
    Nodes = {a, b, c}
    NoNode = NoNode
    MaxConcurrency = 2
    Strategies = {"fail_fast", "allow_independent", "always_run"}
    MaxNodeEvents = 1
    MaxRuns = 1
    SoftFail = TRUE
    MayClose = TRUE
    MayCancel = TRUE
SYMMETRY NodeSymmetry
CHECK_DEADLOCK FALSE
INVARIANTS
    TypeOK
    ConcurrencyBound
    StartsAfterAncestors
    CompletionHandledOnce
    InputsAvailable
    NothingRunsBelowAFailure
    SkippedOnlyForAFailure
    CompleteAccountsForAllNodes
    SavedStateIsConsistent
PROPERTY ImplementsDagExecution
