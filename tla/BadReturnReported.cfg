CONSTANTS
    Nodes = {n1}
    Strangers = {x}
    Watchdog = Watchdog
    Callers = {c1}
    None = None
    MaxQueue = 2
    MaxCalls = 0
SPECIFICATION Spec
PROPERTY OnlyOfflineReported
CHECK_DEADLOCK FALSE
