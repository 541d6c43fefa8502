CONSTANTS
    Hooks = {h1, h2}
    Events = {e1, e2}
    MaxRetries = 2
    MaxHistory = 3
    MaxDeliveries = 2
SPECIFICATION FairSpec
INVARIANTS TypeOK HistoryTellsTheEnd
PROPERTY EveryDeliveryEnds
