CONSTANTS
    Tasks = {t1, t2, t3}
    Nodes = {n1}
    Caps = {}
    CapSets = {{}}
    DepSets = {{}, {t1, t2}}
    None = None
    MaxLeases = 0
    MaxSync = 1
    AutoRecovery = FALSE
SPECIFICATION Spec
INVARIANT TypeOK
PROPERTY PromotedInOrder
