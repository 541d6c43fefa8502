CONSTANTS
    Tasks = {t1}
    Nodes = {n1, n2}
    Caps = {}
    CapSets = {{}}
    DepSets = {{}}
    None = None
    MaxLeases = 1
    MaxSync = 0
SPECIFICATION FairLocalSpec
PROPERTY ExpiredTaskRecovered
