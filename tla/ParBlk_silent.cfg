\* One packet more than the rx pool holds stops the tick.
CONSTANTS
    server = server
    Tasks = {server}
    tx_pkt_size = 1
    rx_pkt_size = 1
    max_pkt_size = 1
    max_retries = 2
    Garbage = {0}
    MaxWrites = 1
    MaxReads = 0
    MaxArrivals = 2
SPECIFICATION Spec
INVARIANTS
    TickAlive
