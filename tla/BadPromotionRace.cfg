CONSTANTS
    Tasks = {t1, t2}
    Nodes = {n1}
    Caps = {}
    CapSets = {{}}
    DepSets = {{t1}}
    None = None
    MaxLeases = 2
    MaxSync = 1
    AutoRecovery = TRUE
SPECIFICATION Spec
PROPERTY PromotedInOrder
