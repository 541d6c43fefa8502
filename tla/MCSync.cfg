CONSTANTS
    A = a
    B = b
    Clusters = {a, b}
    Peers <- BothWays
    Writers = {a, b}
    Tasks = {t1}
    Status = {"pending", "ready"}
    MaxRetries = 2
    MaxWrites = 2
    MaxSync = 1
    MaxPending = 1
SPECIFICATION FairSpec
INVARIANTS TypeOK NoRunaway
PROPERTIES RedeliveryIgnored CatchesUp
CHECK_DEADLOCK FALSE
