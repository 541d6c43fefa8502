CONSTANTS
    Nodes = {n1}
    Strangers = {x}
    Watchdog = Watchdog
    Callers = {c1}
    None = None
    MaxQueue = 2
    MaxCalls = 3
SPECIFICATION FairSpec
INVARIANT TypeOK
PROPERTIES Settles LostIsReported NoRecoveryStorm
CHECK_DEADLOCK FALSE
