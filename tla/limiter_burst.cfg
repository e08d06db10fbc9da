SPECIFICATION Spec
CONSTANTS
    Clients = {c1, c2}
    Amounts = {1, 2, 3}
    Burst = 2
    Rate = 1
    MaxTime = 5
CHECK_DEADLOCK FALSE
INVARIANT StrictWindowBound
