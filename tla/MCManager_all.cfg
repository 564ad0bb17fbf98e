SPECIFICATION OtherSpec
CONSTANTS
    Names = {a, b}
    Other = b
    Handlers = {h1}
    Instances = {i1, i2}
    Ports = {p1, p2}
    OtherPort = p2
    Pids = {k1, k2}
    SaveMayFail = TRUE
    None = None
INVARIANTS
    TypeOK
    MapTracksWaiters
    NoOrphan
    HaltIsFinal
PROPERTIES
    RefinesRegistry
    KilledLeaves
