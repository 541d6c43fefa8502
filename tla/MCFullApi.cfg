CONSTANTS
    Tasks = {t1, t2}
    Nodes = {n1}
    Caps = {gpu}
    CapSets = {{}, {gpu}}
    DepSets = {{}}
    None = None
    MaxLeases = 2
    MaxSync = 1
SPECIFICATION Spec
INVARIANTS TypeOK IndexNamesTask
PROPERTY LeaseLifecycle
SYMMETRY Symmetry
