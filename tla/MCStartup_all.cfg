SPECIFICATION FairSpec
CONSTANTS
    Daemons = {d1, d2}
    Values = {0, 1}
    MaxLaunches = 3
    None = None
CHECK_DEADLOCK FALSE
INVARIANTS
    TypeOK
    AloneListens
    GraceAgrees
PROPERTIES
    LaunchDecides
