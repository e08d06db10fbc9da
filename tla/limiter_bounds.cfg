SPECIFICATION StreamSpec
CONSTANTS
    Clients = {c1, c2}
    Amounts = {1, 2, 3}
    Burst = 2
    Rate = 1
    MaxTime = 5
    Streams = {c1}
    MaxAttempts = 3
    MaxItems = 1
INVARIANTS
    TypeOK
    TotalBound
    WindowBound
    RetriedWithinBudget
CHECK_DEADLOCK FALSE
