\* The server is stopped at any time.
SPECIFICATION Spec
CONSTANTS
    Clients = {c1}
    Commands = {1, 9}
    Failing = {}
    Exclusive = TRUE
    OrderlyStop = FALSE
    MaxOpen = 1
    MaxStarts = 1
INVARIANTS NoneLeft
CHECK_DEADLOCK FALSE
