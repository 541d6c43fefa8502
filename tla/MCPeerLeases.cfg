CONSTANTS
    Tasks = {t1}
    Nodes = {n1, n2}
    Caps = {}
    CapSets = {{}}
    DepSets = {{}}
    None = None
    MaxLeases = 3
    MaxSync = 2
SPECIFICATION PeerSpec
INVARIANTS AtMostOneLease UnassignedHoldsNoLease
PROPERTY ImplementsOwnership
SYMMETRY Symmetry
