\* One task, as in the test programs: the queues as their callers see them, with more
\* packets than the rx pool holds: the engine may stop for good.
CONSTANTS
    server = server
    Tasks = {server}
    tx_pkt_size = 2
    rx_pkt_size = 2
    max_pkt_size = 2
    max_retries = 3
    Garbage = {0}
    MaxWrites = 2
    MaxReads = 3
    MaxArrivals = 3
SPECIFICATION FairSpec
INVARIANTS
    RxInOrder
    ReadsAnswered
    ReadWaitsOnlyIfNone
PROPERTIES
    TxFifo
CHECK_DEADLOCK FALSE
