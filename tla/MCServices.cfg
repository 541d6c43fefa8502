CONSTANTS
    Kinds = {"watchdog", "sender", "scanner", "auto", "sync", "detector", "coreDetector"}
    MaxQueue = 2
    MaxLoops = 4
    MaxEvents = 3
SPECIFICATION FairSpec
INVARIANTS RunningIsServed OneLoop
PROPERTY StoppedEnds
CHECK_DEADLOCK FALSE
