SPECIFICATION DaemonSpec
CONSTANTS
    Names = {a}
    Handlers = {m, h}
    Instances = {i1, i2}
    Ports = {p1}
    Pids = {k1, k2}
    SaveMayFail = FALSE
    None = None
    Main = m
    BootNames = {a}
    Commands = {"START", "STOP", "KILL", "SET", "CHECK", "SCREEN"}
SYMMETRY Symmetry
CHECK_DEADLOCK FALSE
INVARIANTS
    DaemonTypeOK
    ReturnLeavesOnlyStarting
    AllAskedToStop
PROPERTIES
    UsesManager
