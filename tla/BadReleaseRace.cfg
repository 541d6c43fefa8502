CONSTANTS
    Tasks = {t1}
    Nodes = {n1, n2}
    Caps = {}
    CapSets = {{}}
    DepSets = {{}}
    None = None
    MaxLeases = 2
    MaxSync = 0
    AutoRecovery = TRUE
SPECIFICATION Spec
INVARIANT RunningHasHolder
