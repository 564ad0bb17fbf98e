SPECIFICATION Spec
CONSTANTS
    Procs = {p1, p2}
    Commands = {"setServerVersion", "SetUserSpecificFalse"}
    Values = {v, w}
    Empty = Empty
    Torn = Torn
    None = None
SYMMETRY Symmetry
INVARIANTS
    TypeOK
    LostOnlyToOlderLoad
    
