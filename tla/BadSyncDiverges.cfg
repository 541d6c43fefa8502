CONSTANTS
    A = a
    B = b
    Clusters = {a, b}
    Peers <- OneWay
    Writers = {a}
    Tasks = {t1}
    Status = {"pending", "ready"}
    MaxRetries = 2
    MaxWrites = 2
    MaxSync = 1
    MaxPending = 1
SPECIFICATION FairSpec
PROPERTIES Agrees
CHECK_DEADLOCK FALSE
