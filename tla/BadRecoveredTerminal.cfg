CONSTANTS
    T1 = t1
    T2 = t2
    Tasks = {t1, t2}
    Nodes = {self, other}
    Self = self
    SelfCaps = {}
    Joining = {self, other}
    Caps = {}
    None = none
    CapSets <- NoCaps
    DepSets <- FirstFirst
    Awaited = {t1}
    Marks = {"offline"}
    Leased <- FirstToSelf
    MaxLeases = 1
    MaxQueue = 1
SPECIFICATION Spec
PROPERTIES TerminalStays
