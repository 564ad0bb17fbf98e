SPECIFICATION Spec
CONSTANTS
    Daemons = {d1, d2}
    Values = {0}
    MaxLaunches = 2
    None = None
CHECK_DEADLOCK FALSE
INVARIANTS
    AlreadyRunningIsTrue
