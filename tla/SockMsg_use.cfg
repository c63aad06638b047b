\* Programs use the library one after the other; the server is stopped and
\* started at any time.
SPECIFICATION FairSpec
CONSTANTS
    Clients = {c1, c2}
    Commands = {9}
    Failing = {"CreatePort", "AllocMem"}
    Exclusive = TRUE
    OrderlyStop = FALSE
    MaxOpen = 2
    MaxStarts = 2
INVARIANTS TypeOK ReadyCounts MessageOnce OwnResult ReleasedWithLast PutToLivePort ServerAwake
PROPERTIES CallsReturn
CHECK_DEADLOCK FALSE
