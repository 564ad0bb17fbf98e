SPECIFICATION FairSpec
CONSTANTS
    Clients = {c1}
    Capacity = 2
    OutCap = 1
    InCap = 1
    ConnCap = 1
    MaxOut = 3
    MaxTyped = 1
    MaxStops = 2
    None = None
CHECK_DEADLOCK FALSE
INVARIANTS
    TypeOK
    SnapshotIsTail
    NoGap
PROPERTIES
    StopReturns
    RefinesConsole
