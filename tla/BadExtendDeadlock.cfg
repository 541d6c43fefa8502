CONSTANTS
    c1 = c1
    c2 = c2
    Callers = {c1, c2}
    Uses <- UsesOfBoth
    Scanner = Scanner
    None = None
    Backends = {"memory", "sqlite"}
    MaxLeases <- Leases
SPECIFICATION FairSpec
PROPERTY EveryCallReturns
CHECK_DEADLOCK FALSE
