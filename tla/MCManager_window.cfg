SPECIFICATION Spec
CONSTANTS
    Names = {a}
    Other = b
    OtherPort = p2
    Handlers = {h1}
    Instances = {i1, i2}
    Ports = {p1}
    Pids = {k1, k2}
    SaveMayFail = FALSE
    None = None
INVARIANTS
    StopPreventsRestart
