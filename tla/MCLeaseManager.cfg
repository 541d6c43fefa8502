CONSTANTS
    c1 = c1
    c2 = c2
    Callers = {c1, c2}
    Uses <- UsesOfBoth
    Scanner = Scanner
    None = None
    Backends = {"memory", "sqlite"}
    MaxLeases <- Leases
SPECIFICATION FairSpec
INVARIANTS TypeOK NotifiedOnce ExtendedOnce ExpiryNotified
PROPERTIES OthersReturn OverdueRetired
CHECK_DEADLOCK FALSE
