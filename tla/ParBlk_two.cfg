\* Two tasks write and read while the server handles signals.
CONSTANTS
    server = server
    Tasks = {server, client}
    tx_pkt_size = 2
    rx_pkt_size = 2
    max_pkt_size = 1
    max_retries = 2
    Garbage = {0}
    MaxWrites = 3
    MaxReads = 1
    MaxArrivals = 1
SPECIFICATION FairSpec
INVARIANTS
    TypeOK
    TxConservation
    RxConservation
    WritesOnce
    DropOnlyAfterMaxRetries
    TickAlive
PROPERTIES
    WritesComplete
