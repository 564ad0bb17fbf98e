SPECIFICATION DaemonFairSpec
CONSTANTS
    Names = {a}
    Handlers = {m, h}
    Instances = {i1, i2}
    Ports = {p1}
    Pids = {k1, k2}
    SaveMayFail = FALSE
    None = None
    Main = m
    BootNames = {}
    Commands = {"START", "STOP", "SCREEN"}
CHECK_DEADLOCK FALSE
PROPERTIES
    ShutdownEnds
