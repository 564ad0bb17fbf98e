SPECIFICATION Spec
CONSTANTS
    Versions = {v1, v2, custom}
    Custom = custom
    Template = v1
    Own = own
    Damaged = Damaged
    NoFile = NoFile
INVARIANTS
    TypeOK
    NoForeignJar
PROPERTIES
    RestoredOnFailure
    JarsKept
CHECK_DEADLOCK FALSE
