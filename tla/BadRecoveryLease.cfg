CONSTANTS
    Tasks = {t1}
    Nodes = {n1}
    Caps = {}
    CapSets = {{}}
    DepSets = {{}}
    None = None
    MaxLeases = 4
    MaxSync = 0
    AutoRecovery = TRUE
SPECIFICATION Spec
INVARIANT AtMostOneLease
