CONSTANTS
    Tasks = {t1}
    Nodes = {n1}
    Caps = {}
    CapSets = {{}}
    DepSets = {{}, {t1}}
    None = None
    MaxLeases = 2
    MaxSync = 1
    AutoRecovery = TRUE
SPECIFICATION FairSpec
PROPERTIES LeaseLifecycle RecoveryEnds
